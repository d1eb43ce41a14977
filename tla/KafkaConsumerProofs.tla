-------------------------- MODULE KafkaConsumerProofs --------------------------
(***************************************************************************)
(* Proofs about KafkaConsumer, for any topic, any number of partitions,    *)
(* overlapping calls and batches, and any limits: which message a dead     *)
(* letter carries, how often a message is settled, what gets lost, and     *)
(* what the offset history keeps out.                                      *)
(***************************************************************************)
EXTENDS KafkaConsumer, FiniteSetTheorems, SequenceTheorems, WellFoundedInduction, TLAPS

DrainerState == [batch : Batches \cup {NoBatch}, taken : Seq(Messages), left : Seq(Partitions)]

\* The types, with the domains of the functions KafkaTypeOK looks into.
KafkaTyped ==
    /\ KafkaTypeOK
    /\ content \in [Batches -> Seq(Messages)]
    /\ recent \in [Partitions -> Seq(Nat)]
    /\ accepted \in [Partitions -> Seq(Nat)]
    /\ drainer \in [Drainers -> DrainerState]

-----------------------------------------------------------------------------
(* The operators.                                                            *)

LEMMA LeastElement ==
    ASSUME NEW S \in SUBSET Nat, S # {}
    PROVE  Min(S) \in S /\ \A j \in S : Min(S) <= j
<1> DEFINE R == OpToRel(<, Nat)
<1>1. PICK x \in S : \A y \in S : ~(<<y, x>> \in R)
  BY NatLessThanWellFounded, WFMin
<1>2. ASSUME NEW y \in S PROVE x <= y
  <2> SUFFICES ASSUME y < x PROVE FALSE
    OBVIOUS
  <2>1. <<y, x>> \in Nat \X Nat /\ <<y, x>>[1] < <<y, x>>[2]
    OBVIOUS
  <2>2. R = {ss \in Nat \X Nat : ss[1] < ss[2]}
    BY DEF OpToRel
  <2> HIDE DEF R
  <2>3. <<y, x>> \in R
    BY <2>1, <2>2, Zenon
  <2> QED
    BY <1>1, <2>3
<1> QED
  BY <1>1, <1>2 DEF Min

LEMMA SmallerOfTwo ==
    ASSUME NEW a \in Nat, NEW b \in Nat
    PROVE  Min({a, b}) = IF a <= b THEN a ELSE b
  BY DEF Min

\* A batch the loop goes to has an entry and holds what the call takes from it.
LEMMA NextBatchTakes ==
    ASSUME NEW left \in Seq(Partitions), NEW at \in [Partitions -> Batches \cup {NoBatch}],
           NEW contents \in [Batches -> Seq(Messages)]
    PROVE  /\ NextBatch(left, at, contents) \in DrainerState
           /\ \/ NextBatch(left, at, contents) = Idle
              \/ /\ \E q \in Partitions : NextBatch(left, at, contents).batch = at[q]
                 /\ NextBatch(left, at, contents).batch \in Batches
                 /\ NextBatch(left, at, contents).taken
                        = contents[NextBatch(left, at, contents).batch]
                 /\ NextBatch(left, at, contents).taken # <<>>
<1> DEFINE ready == {i \in DOMAIN left : /\ at[left[i]] # NoBatch
                                         /\ contents[at[left[i]]] # <<>>}
           i == Min(ready)
<1>1. NextBatch(left, at, contents) =
        IF ready = {} THEN Idle
        ELSE [batch |-> at[left[i]], taken |-> contents[at[left[i]]],
              left |-> SubSeq(left, i + 1, Len(left))]
  BY DEF NextBatch
<1>2. Len(left) \in Nat /\ DOMAIN left = 1..Len(left)
  OBVIOUS
<1>3. ready \in SUBSET Nat
  BY <1>2
<1>4. ASSUME ready # {} PROVE i \in ready
  <2> HIDE DEF ready
  <2> QED
    BY <1>3, <1>4, LeastElement
<1>5. Idle \in DrainerState
  BY DEF Idle, DrainerState
<1> HIDE DEF i
<1>6. ASSUME ready # {}
      PROVE  /\ i \in 1..Len(left) /\ left[i] \in Partitions /\ at[left[i]] \in Batches
             /\ contents[at[left[i]]] \in Seq(Messages) /\ contents[at[left[i]]] # <<>>
  BY <1>2, <1>4, <1>6
<1>7. ASSUME ready # {} PROVE SubSeq(left, i + 1, Len(left)) \in Seq(Partitions)
  <2>1. i + 1 \in Int /\ Len(left) \in Int /\ \A j \in (i + 1)..Len(left) : left[j] \in Partitions
    BY <1>2, <1>6, <1>7
  <2> DEFINE h == i + 1
             n == Len(left)
  <2> HIDE DEF h, n
  <2>2. h \in Int /\ n \in Int /\ \A j \in h..n : left[j] \in Partitions
    BY <2>1 DEF h, n
  <2>3. SubSeq(left, h, n) \in Seq(Partitions)
    BY <2>2, SubSeqProperties
  <2> QED
    BY <2>3 DEF h, n
<1> HIDE DEF ready
<1> QED
  BY <1>1, <1>5, <1>6, <1>7 DEF DrainerState

\* There are more batches than entries and calls that refer to one, so a partition
\* without an entry finds a new one.
LEMMA FreshBatch ==
    ASSUME KafkaTyped, NEW p \in Partitions, batchAt[p] = NoBatch
    PROVE  \E b \in Batches : ~Referenced(b)
<1> DEFINE rest == Partitions \ {p}
           at == {batchAt[q] : q \in rest}
           held == {drainer[d].batch : d \in Drainers}
<1>0. NoBatch \notin Batches
  BY KafkaAssumption
<1>1. IsFiniteSet(rest) /\ Cardinality(rest) = Cardinality(Partitions) - 1
      /\ Cardinality(Partitions) \in Nat /\ Cardinality(Drainers) \in Nat
  BY KafkaAssumption, FS_RemoveElement, FS_CardinalityType
<1>2. IsFiniteSet(at) /\ Cardinality(at) <= Cardinality(rest)
  <2> DEFINE f == [q \in rest |-> batchAt[q]]
  <2>1. f \in Surjection(rest, at)
    BY DEF Surjection
  <2> HIDE DEF f, at, rest
  <2> QED
    BY <1>1, <2>1, FS_Surjection
<1>3. IsFiniteSet(held) /\ Cardinality(held) <= Cardinality(Drainers)
  <2> DEFINE f == [d \in Drainers |-> drainer[d].batch]
  <2>1. f \in Surjection(Drainers, held)
    BY DEF Surjection
  <2> HIDE DEF f, held
  <2> QED
    BY <2>1, KafkaAssumption, FS_Surjection
<1>4. IsFiniteSet(at \cup held)
      /\ Cardinality(at \cup held) = Cardinality(at) + Cardinality(held) - Cardinality(at \cap held)
  BY <1>2, <1>3, FS_Union
<1>5. Cardinality(at) \in Nat /\ Cardinality(held) \in Nat /\ Cardinality(at \cap held) \in Nat
  <2>1. IsFiniteSet(at \cap held)
    BY <1>2, FS_Subset
  <2> QED
    BY <1>2, <1>3, <2>1, FS_CardinalityType
<1>6. Cardinality(Batches) \in Nat
      /\ Cardinality(Batches) >= Cardinality(Partitions) + Cardinality(Drainers)
  BY KafkaAssumption, FS_CardinalityType
<1>7. ASSUME Batches \subseteq at \cup held PROVE FALSE
  <2>1. Cardinality(Batches) <= Cardinality(at \cup held)
    BY <1>4, <1>7, FS_Subset
  <2> HIDE DEF at, held, rest
  <2> QED
    BY <1>1, <1>2, <1>3, <1>4, <1>5, <1>6, <2>1
<1>8. PICK b \in Batches : b \notin at \cup held
  BY <1>7
<1>9. b \notin Range(batchAt)
  BY <1>0, <1>8 DEF Range, KafkaTyped, KafkaTypeOK
<1> QED
  BY <1>8, <1>9 DEF Referenced

-----------------------------------------------------------------------------
(* What the steps do.                                                        *)

At(p, o) == [partition |-> p, offset |-> o]

LEMMA AtMessage ==
    ASSUME NEW p \in Partitions, NEW o \in DOMAIN Topic[p]
    PROVE  At(p, o) \in Messages /\ At(p, o).partition = p /\ At(p, o).offset = o /\ o \in Nat
  BY KafkaAssumption DEF At, Messages, Message

\* Offset o of partition p is new, and remembered.
Polls(p, o) ==
    /\ p \in Partitions /\ o \in DOMAIN Topic[p]
    /\ o \notin ToSet(recent[p])
    /\ recent' = [recent EXCEPT ![p] = Remember(recent[p], o)]
    /\ accepted' = [accepted EXCEPT ![p] = Append(accepted[p], o)]
    /\ late' = IF \E d \in Drainers : Draining(d, p) THEN late \cup {At(p, o)} ELSE late
    /\ UNCHANGED <<running, dlq, retries, drainer, counters, deadLetters, handled>>

\* Its message is taken into the batch b, which is the partition's or new.
Takes(p, o, b) ==
    /\ Polls(p, o) /\ b \in Batches
    /\ batchAt' = [batchAt EXCEPT ![p] = b]
    /\ \/ /\ b = batchAt[p] /\ Len(content[b]) < BatchSize
          /\ content' = [content EXCEPT ![b] = Append(content[b], At(p, o))]
       \/ /\ batchAt[p] = NoBatch /\ ~Referenced(b)
          /\ content' = [content EXCEPT ![b] = <<At(p, o)>>]
    /\ outcome' = outcome

\* Its message is refused by a full batch.
Refuses(p, o) ==
    /\ Polls(p, o)
    /\ outcome' = [outcome EXCEPT !.refused = @ \cup {At(p, o)}]
    /\ UNCHANGED <<batchAt, content>>

LEMMA DeliverPolls ==
    ASSUME KafkaTyped, NEW p \in Partitions, NEW o \in DOMAIN Topic[p], Deliver(p, o)
    PROVE  Polls(p, o)
  BY DEF Deliver, IsDuplicateMessage, At, Polls

LEMMA DeliverTakes ==
    ASSUME KafkaTyped, NEW p \in Partitions, NEW o \in DOMAIN Topic[p], Deliver(p, o)
    PROVE  Refuses(p, o) \/ \E b \in Batches : Takes(p, o, b)
<1> DEFINE fresh == CHOOSE b \in Batches : ~Referenced(b)
           batch == IF batchAt[p] = NoBatch THEN fresh ELSE batchAt[p]
           messages == IF batchAt[p] = NoBatch THEN <<>> ELSE content[batch]
           added == AddMessage(messages, At(p, o))
<1>0. /\ Polls(p, o)
      /\ batchAt' = [batchAt EXCEPT ![p] = batch]
      /\ content' = [content EXCEPT ![batch] = added]
      /\ outcome' = IF added = messages
                    THEN [outcome EXCEPT !.refused = @ \cup {At(p, o)}] ELSE outcome
  BY DeliverPolls DEF Deliver, At
<1>1. BatchSize \in Nat \ {0} /\ NoBatch \notin Batches
  BY KafkaAssumption
<1> DEFINE m == At(p, o)
<1> HIDE DEF m
<1>2. CASE batchAt[p] = NoBatch
  <2>1. fresh \in Batches /\ ~Referenced(fresh)
    BY <1>2, FreshBatch
  <2>2. batch = fresh /\ messages = <<>>
    BY <1>2
  <2>3. Append(<<>>, m) = <<m>> /\ <<m>> # <<>> /\ Len(<<>>) = 0
    OBVIOUS
  <2>4. AddMessage(<<>>, m) = <<m>>
    BY <1>1, <2>3 DEF AddMessage
  <2> HIDE DEF fresh
  <2>5. content' = [content EXCEPT ![fresh] = <<At(p, o)>>] /\ outcome' = outcome
        /\ batchAt' = [batchAt EXCEPT ![p] = fresh]
    BY <1>0, <2>2, <2>3, <2>4 DEF m
  <2>6. Takes(p, o, fresh)
    BY <1>0, <1>2, <2>1, <2>5 DEF Takes
  <2> QED
    BY <2>1, <2>6
<1>3. CASE batchAt[p] # NoBatch
  <2>1. batch = batchAt[p] /\ batchAt[p] \in Batches /\ messages = content[batchAt[p]]
    BY <1>3 DEF KafkaTyped, KafkaTypeOK
  <2> DEFINE b == batchAt[p]
             c == content[b]
  <2>2. c \in Seq(Messages) /\ Len(c) \in Nat
    BY <2>1 DEF KafkaTyped
  <2> HIDE DEF fresh, batch, messages, added
  <2>3. added = AddMessage(c, m)
    BY <2>1 DEF added, m
  <2>4. b \in Batches /\ batchAt' = [batchAt EXCEPT ![p] = b]
        /\ content' = [content EXCEPT ![b] = AddMessage(c, m)]
        /\ outcome' = IF AddMessage(c, m) = c
                      THEN [outcome EXCEPT !.refused = @ \cup {m}] ELSE outcome
    BY <1>0, <2>1, <2>3 DEF m
  <2> HIDE DEF b, c
  <2>5. CASE Len(c) >= BatchSize
    <3>1. AddMessage(c, m) = c
      BY <2>5 DEF AddMessage
    <3>2. UNCHANGED <<batchAt, content>>
      BY <2>4, <3>1 DEF b, c, KafkaTyped, KafkaTypeOK
    <3>3. Refuses(p, o)
      BY <1>0, <2>4, <3>1, <3>2 DEF Refuses, m
    <3> QED
      BY <3>3
  <2>6. CASE Len(c) < BatchSize
    <3>1. AddMessage(c, m) = Append(c, m)
      BY <1>1, <2>2, <2>6 DEF AddMessage
    <3>2. Append(c, m) # c
      <4>1. m \in Messages
        BY AtMessage DEF m
      <4>2. Len(Append(c, m)) = Len(c) + 1
        BY <2>2, <4>1
      <4> QED
        BY <2>2, <4>2
    <3>3. content' = [content EXCEPT ![b] = Append(content[b], At(p, o))] /\ outcome' = outcome
      BY <2>4, <3>1, <3>2 DEF c, m
    <3>4. Takes(p, o, b)
      BY <1>0, <2>4, <2>6, <3>3 DEF Takes, b, c
    <3> QED
      BY <2>4, <3>4
  <2> QED
    BY <1>1, <2>2, <2>5, <2>6
<1> QED
  BY <1>2, <1>3

\* A call goes to a batch that has an entry, or ends.
GoesOn(d) ==
    /\ drainer' = [drainer EXCEPT ![d] = drainer'[d]]
    /\ drainer'[d] \in DrainerState
    /\ \/ drainer'[d] = Idle
       \/ /\ \E q \in Partitions : drainer'[d].batch = batchAt'[q]
          /\ drainer'[d].batch \in Batches
          /\ drainer'[d].taken = content'[drainer'[d].batch]
          /\ drainer'[d].taken # <<>>

\* d's batch is settled and cleared, and its partition's entry goes.
Settles(d) ==
    /\ drainer[d].batch \in Batches
    /\ content' = [content EXCEPT ![drainer[d].batch] = <<>>]
    /\ batchAt' = [batchAt EXCEPT ![drainer[d].taken[1].partition] = NoBatch]
    /\ handled' = [m \in Messages |->
            handled[m] + Cardinality({i \in Paired(drainer[d].batch, drainer[d].taken) :
                                          content[drainer[d].batch][i] = m})]
    /\ UNCHANGED <<running, dlq, recent, accepted, late>>

LEMMA ProcessGoesOn ==
    ASSUME KafkaTyped, NEW d \in Drainers, ProcessReadyBatches(d)
    PROVE  GoesOn(d) /\ drainer[d] = Idle
<1>1. PICK left \in SetToSeqs({p \in Partitions : batchAt[p] # NoBatch}) :
          drainer' = [drainer EXCEPT ![d] = NextBatch(left, batchAt, content)]
  BY DEF ProcessReadyBatches
<1>2. left \in Seq(Partitions)
  <2> DEFINE S == {p \in Partitions : batchAt[p] # NoBatch}
             n == Cardinality(S)
  <2>1. n \in Nat
    BY KafkaAssumption, FS_Subset, FS_CardinalityType
  <2>2. left \in [1..n -> S]
    BY <1>1 DEF SetToSeqs
  <2>3. S \subseteq Partitions
    OBVIOUS
  <2> HIDE DEF n, S
  <2>4. left \in [1..n -> Partitions]
    BY <2>2, <2>3
  <2> QED
    BY <2>1, <2>4
<1>3. drainer'[d] = NextBatch(left, batchAt, content)
  BY <1>1 DEF KafkaTyped
<1>4. batchAt' = batchAt /\ content' = content /\ drainer[d] = Idle
  BY DEF ProcessReadyBatches
<1>5. /\ NextBatch(left, batchAt, content) \in DrainerState
      /\ \/ NextBatch(left, batchAt, content) = Idle
         \/ /\ \E q \in Partitions : NextBatch(left, batchAt, content).batch = batchAt[q]
            /\ NextBatch(left, batchAt, content).batch \in Batches
            /\ NextBatch(left, batchAt, content).taken
                   = content[NextBatch(left, batchAt, content).batch]
            /\ NextBatch(left, batchAt, content).taken # <<>>
  BY <1>2, NextBatchTakes DEF KafkaTyped, KafkaTypeOK
<1>6. drainer' = [drainer EXCEPT ![d] = drainer'[d]]
  BY <1>1, <1>3
<1> QED
  BY <1>3, <1>4, <1>5, <1>6 DEF GoesOn

LEMMA AnswerSettles ==
    ASSUME KafkaTyped, NEW d \in Drainers, BatchAnswered(d)
    PROVE  Settles(d)
<1>1. drainer[d].batch \in Batches
  BY DEF BatchAnswered, KafkaTyped, DrainerState
<1> QED
  BY <1>1 DEF BatchAnswered, Finish, Settles

LEMMA AnswerGoesOn ==
    ASSUME KafkaTyped, NEW d \in Drainers, BatchAnswered(d)
    PROVE  GoesOn(d)
<1> DEFINE b == drainer[d].batch
           p == drainer[d].taken[1].partition
           next == IF batchAt[p] = NoBatch THEN Idle
                   ELSE NextBatch(drainer[d].left, batchAt', content')
<1>1. drainer' = [drainer EXCEPT ![d] = next] /\ Settles(d)
  BY AnswerSettles DEF BatchAnswered, Finish
<1>2. batchAt' \in [Partitions -> Batches \cup {NoBatch}]
  BY <1>1 DEF Settles, KafkaTyped, KafkaTypeOK
<1>3. content' \in [Batches -> Seq(Messages)]
  BY <1>1 DEF Settles, KafkaTyped
<1>4. drainer[d].left \in Seq(Partitions)
  BY DEF KafkaTyped, DrainerState
<1> DEFINE n == NextBatch(drainer[d].left, batchAt', content')
<1>5. /\ n \in DrainerState
      /\ \/ n = Idle
         \/ /\ \E q \in Partitions : n.batch = batchAt'[q]
            /\ n.batch \in Batches /\ n.taken = content'[n.batch] /\ n.taken # <<>>
  BY <1>2, <1>3, <1>4, NextBatchTakes
<1>6. Idle \in DrainerState
  BY DEF Idle, DrainerState
<1> HIDE DEF n
<1>7. next \in {Idle, n}
  BY DEF n
<1> HIDE DEF next
<1>8. drainer'[d] = next
  BY <1>1 DEF KafkaTyped
<1>9. drainer' = [drainer EXCEPT ![d] = drainer'[d]]
  BY <1>1, <1>8
<1> QED
  BY <1>5, <1>6, <1>7, <1>8, <1>9 DEF GoesOn

-----------------------------------------------------------------------------
(* The inductive invariant.                                                  *)

\* A partition's batch holds messages, all of that partition.
EntryFilled(q, at, contents) ==
    at[q] # NoBatch =>
        /\ contents[at[q]] # <<>>
        /\ \A i \in DOMAIN contents[at[q]] : contents[at[q]][i].partition = q

EntriesFilled == \A q \in Partitions : EntryFilled(q, batchAt, content)

\* Batch contents c hold what was taken, then late messages.
Extends(c, taken, l) ==
    /\ Len(taken) <= Len(c)
    /\ \A i \in DOMAIN taken : c[i] = taken[i]
    /\ \A i \in DOMAIN c : i > Len(taken) => c[i] \in l

\* The batch a call waits for holds what the call took from it, or another call has
\* emptied it; a batch that has replaced it holds late messages only.
CallHolds(call, at, contents, l) ==
    call.batch # NoBatch =>
        /\ call.taken # <<>>
        /\ \/ Extends(contents[call.batch], call.taken, l)
           \/ contents[call.batch] = <<>> /\ \A q \in Partitions : at[q] # call.batch
        /\ at[call.taken[1].partition] \notin {call.batch, NoBatch} =>
               LET c == contents[at[call.taken[1].partition]]
               IN  \A i \in DOMAIN c : c[i] \in l

CallsHold == \A d \in Drainers : CallHolds(drainer[d], batchAt, content, late)

\* The positions in batches at which m is.
Places(contents, m) ==
    {place \in Batches \X (1..BatchSize) :
        place[2] \in DOMAIN contents[place[1]] /\ contents[place[1]][place[2]] = m}

\* Every message is in batches or settled at most as often as it was polled.
SettledOrHeld ==
    \A m \in Messages : handled[m] + Cardinality(Places(content, m)) <= Times(m)

\* The history of a partition is the end of what was taken from it, cut at OffsetHistory.
HistoryOf(offsets, all) ==
    /\ Len(offsets) <= Len(all)
    /\ Len(offsets) = OffsetHistory \/ Len(offsets) = Len(all)
    /\ \A k \in DOMAIN offsets : offsets[k] = all[Len(all) - Len(offsets) + k]

HistoryKept == \A p \in Partitions : HistoryOf(recent[p], accepted[p])

\* A polled message that no call has settled is still buffered, or came late or to a full
\* batch.
UnsettledKept ==
    \A m \in Messages : Times(m) > 0 /\ handled[m] = 0 =>
        m \in Buffered \cup late \cup outcome.refused

Named == outcome.predicted \cup DeadLettered \cup outcome.unretried \cup outcome.undelivered

\* What became of a settled message is on record.
SettledNamed == \A m \in Messages : handled[m] > 0 => m \in Named

KafkaInv ==
    /\ KafkaTyped /\ EntriesFilled /\ CallsHold /\ SettledOrHeld /\ HistoryKept
    /\ DeadLettersPaired /\ UnsettledKept /\ SettledNamed /\ NoRecentDuplicate

-----------------------------------------------------------------------------
(* Types.                                                                    *)

LEMMA Remembers ==
    ASSUME NEW offsets \in Seq(Nat), Len(offsets) <= OffsetHistory, NEW o \in Nat
    PROVE  /\ Remember(offsets, o) \in Seq(Nat) /\ Len(Remember(offsets, o)) <= OffsetHistory
           /\ Len(Remember(offsets, o)) = IF Len(offsets) = OffsetHistory THEN OffsetHistory
                                          ELSE Len(offsets) + 1
           /\ \A k \in 1..Len(Remember(offsets, o)) :
                Remember(offsets, o)[k] =
                    LET j == k + Len(offsets) + 1 - Len(Remember(offsets, o))
                    IN  IF j = Len(offsets) + 1 THEN o ELSE offsets[j]
<1> DEFINE longer == Append(offsets, o)
<1>0. OffsetHistory \in Nat \ {0} /\ Len(offsets) \in Nat
  BY KafkaAssumption
<1>1. longer \in Seq(Nat) /\ Len(longer) = Len(offsets) + 1 /\ longer # <<>>
      /\ \A j \in 1..Len(offsets) + 1 : longer[j] = IF j = Len(offsets) + 1 THEN o ELSE offsets[j]
  OBVIOUS
<1> HIDE DEF longer
<1>2. CASE Len(offsets) = OffsetHistory
  <2>1. Remember(offsets, o) = Tail(longer)
    BY <1>0, <1>1, <1>2 DEF Remember, longer
  <2>2. Tail(longer) \in Seq(Nat) /\ Len(Tail(longer)) = Len(longer) - 1
        /\ \A k \in 1..Len(longer) - 1 : Tail(longer)[k] = longer[k + 1]
    BY <1>1
  <2>3. Len(Tail(longer)) = OffsetHistory
    BY <1>0, <1>1, <1>2, <2>2
  <2>4. ASSUME NEW k \in 1..OffsetHistory
        PROVE  LET j == k + Len(offsets) + 1 - OffsetHistory
               IN  Tail(longer)[k] = IF j = Len(offsets) + 1 THEN o ELSE offsets[j]
    <3>1. k + Len(offsets) + 1 - OffsetHistory = k + 1 /\ k + 1 \in 1..Len(offsets) + 1
          /\ k \in 1..Len(longer) - 1
      BY <1>0, <1>1, <1>2
    <3> QED
      BY <1>1, <2>2, <3>1
  <2> QED
    BY <1>0, <1>2, <2>1, <2>2, <2>3, <2>4
<1>3. CASE Len(offsets) # OffsetHistory
  <2>1. Remember(offsets, o) = longer
    BY <1>0, <1>1, <1>3 DEF Remember, longer
  <2>2. ASSUME NEW k \in 1..Len(longer)
        PROVE  LET j == k + Len(offsets) + 1 - Len(longer)
               IN  longer[k] = IF j = Len(offsets) + 1 THEN o ELSE offsets[j]
    <3>1. k + Len(offsets) + 1 - Len(longer) = k /\ k \in 1..Len(offsets) + 1
      BY <1>0, <1>1
    <3> QED
      BY <1>1, <3>1
  <2>3. Len(longer) <= OffsetHistory
    BY <1>0, <1>1, <1>3
  <2> QED
    BY <1>1, <1>3, <2>1, <2>2, <2>3
<1> QED
  BY <1>2, <1>3

LEMMA PollsTyped ==
    ASSUME KafkaTyped, NEW p, NEW o, Polls(p, o)
    PROVE  /\ recent' \in [Partitions -> Seq(Nat)]
           /\ \A q \in Partitions : Len(recent'[q]) <= OffsetHistory
           /\ accepted' \in [Partitions -> Seq(Nat)]
           /\ late' \subseteq Messages /\ late \subseteq late'
<1>1. At(p, o) \in Messages /\ o \in Nat /\ p \in Partitions
  BY AtMessage DEF Polls
<1>2. recent' \in [Partitions -> Seq(Nat)]
      /\ \A q \in Partitions : Len(recent'[q]) <= OffsetHistory
  <2>1. recent[p] \in Seq(Nat) /\ Len(recent[p]) <= OffsetHistory
    BY <1>1 DEF KafkaTyped, KafkaTypeOK
  <2>2. Remember(recent[p], o) \in Seq(Nat) /\ Len(Remember(recent[p], o)) <= OffsetHistory
    BY <1>1, <2>1, Remembers
  <2>3. recent' = [recent EXCEPT ![p] = Remember(recent[p], o)]
    BY DEF Polls
  <2> QED
    BY <2>2, <2>3 DEF KafkaTyped, KafkaTypeOK
<1>3. accepted' \in [Partitions -> Seq(Nat)]
  BY <1>1 DEF Polls, KafkaTyped
<1>4. late' \subseteq Messages /\ late \subseteq late'
  BY <1>1 DEF Polls, KafkaTyped, KafkaTypeOK
<1> QED
  BY <1>2, <1>3, <1>4

LEMMA TakesTyped ==
    ASSUME KafkaTyped, NEW p, NEW o, NEW b, Takes(p, o, b)
    PROVE  KafkaTyped'
<1>1. At(p, o) \in Messages /\ p \in Partitions /\ b \in Batches
  BY AtMessage DEF Takes, Polls
<1>2. content[b] \in Seq(Messages) /\ BatchSize \in Nat \ {0} /\ Len(content[b]) \in Nat
  BY <1>1, KafkaAssumption DEF KafkaTyped
<1>3. content' \in [Batches -> Seq(Messages)]
      /\ \A c \in Batches : Len(content'[c]) <= BatchSize
  <2>1. CASE /\ b = batchAt[p] /\ Len(content[b]) < BatchSize
             /\ content' = [content EXCEPT ![b] = Append(content[b], At(p, o))]
    <3> DEFINE c == Append(content[b], At(p, o))
    <3>1. c \in Seq(Messages) /\ Len(c) <= BatchSize
      BY <1>1, <1>2, <2>1
    <3> HIDE DEF c
    <3>2. content' = [content EXCEPT ![b] = c]
      BY <2>1 DEF c
    <3> QED
      BY <3>1, <3>2 DEF KafkaTyped, KafkaTypeOK
  <2>2. CASE content' = [content EXCEPT ![b] = <<At(p, o)>>]
    <3> DEFINE c == <<At(p, o)>>
    <3>1. c \in Seq(Messages) /\ Len(c) <= BatchSize
      BY <1>1, <1>2
    <3> HIDE DEF c
    <3>2. content' = [content EXCEPT ![b] = c]
      BY <2>2 DEF c
    <3> QED
      BY <3>1, <3>2 DEF KafkaTyped, KafkaTypeOK
  <2> QED
    BY <2>1, <2>2 DEF Takes, Polls
<1>4. batchAt' \in [Partitions -> Batches \cup {NoBatch}]
  BY <1>1 DEF Takes, KafkaTyped, KafkaTypeOK
<1>5. /\ recent' \in [Partitions -> Seq(Nat)]
      /\ \A q \in Partitions : Len(recent'[q]) <= OffsetHistory
      /\ accepted' \in [Partitions -> Seq(Nat)]
      /\ late' \subseteq Messages
  BY PollsTyped DEF Takes
<1>6. UNCHANGED <<running, dlq, retries, drainer, counters, deadLetters, handled, outcome>>
  BY DEF Takes, Polls
<1> QED
  BY <1>3, <1>4, <1>5, <1>6 DEF KafkaTyped, KafkaTypeOK

LEMMA RefusesTyped ==
    ASSUME KafkaTyped, NEW p, NEW o, Refuses(p, o)
    PROVE  KafkaTyped'
<1>1. At(p, o) \in Messages
  BY AtMessage DEF Refuses, Polls
<1>2. outcome' \in [predicted : SUBSET Messages, unretried : SUBSET Messages,
                    undelivered : SUBSET Messages, refused : SUBSET Messages]
  BY <1>1 DEF Refuses, KafkaTyped, KafkaTypeOK
<1>3. /\ recent' \in [Partitions -> Seq(Nat)]
      /\ \A q \in Partitions : Len(recent'[q]) <= OffsetHistory
      /\ accepted' \in [Partitions -> Seq(Nat)]
      /\ late' \subseteq Messages
  BY PollsTyped DEF Refuses
<1>4. UNCHANGED <<running, dlq, batchAt, content, retries, drainer, counters, deadLetters,
                  handled>>
  BY DEF Refuses, Polls
<1> QED
  BY <1>2, <1>3, <1>4 DEF KafkaTyped, KafkaTypeOK

LEMMA ProcessTyped ==
    ASSUME KafkaTyped, NEW d \in Drainers, ProcessReadyBatches(d)
    PROVE  KafkaTyped'
<1>1. drainer' = [drainer EXCEPT ![d] = drainer'[d]] /\ drainer'[d] \in DrainerState
  BY ProcessGoesOn DEF GoesOn
<1>2. drainer' \in [Drainers -> DrainerState]
  BY <1>1 DEF KafkaTyped
<1>3. UNCHANGED <<running, dlq, batchAt, content, recent, retries, counters, deadLetters,
                  accepted, handled, outcome, late>>
  BY DEF ProcessReadyBatches
<1> QED
  BY <1>2, <1>3 DEF KafkaTyped, KafkaTypeOK, DrainerState

\* Paired positions are positions of the batch and of what was taken from it.
LEMMA PairedPositions ==
    ASSUME KafkaTyped, NEW b \in Batches, NEW taken \in Seq(Messages)
    PROVE  /\ IsFiniteSet(Paired(b, taken))
           /\ Paired(b, taken) = {i \in DOMAIN content[b] : i <= Len(taken)}
           /\ \A i \in Paired(b, taken) :
                /\ i \in DOMAIN content[b] /\ i \in DOMAIN taken
                /\ content[b][i] \in Messages /\ taken[i] \in Messages
<1> DEFINE m == Len(content[b])
           n == Len(taken)
<1>1. m \in Nat /\ n \in Nat /\ DOMAIN content[b] = 1..m /\ DOMAIN taken = 1..n
      /\ (\A i \in 1..m : content[b][i] \in Messages) /\ (\A i \in 1..n : taken[i] \in Messages)
  BY DEF KafkaTyped
<1>2. Paired(b, taken) = 1..Min({m, n})
  BY DEF Paired
<1> HIDE DEF m, n
<1>3. Min({m, n}) = IF m <= n THEN m ELSE n
  BY <1>1, SmallerOfTwo
<1>4. IsFiniteSet(1..Min({m, n}))
  <2>1. Min({m, n}) \in Int
    BY <1>1, <1>3
  <2> QED
    BY <2>1, FS_Interval
<1>5. 1..Min({m, n}) = {i \in 1..m : i <= n}
  BY <1>1, <1>3
<1>6. \A i \in 1..Min({m, n}) : i \in 1..m /\ i \in 1..n
  BY <1>1, <1>3
<1> QED
  BY <1>1, <1>2, <1>4, <1>5, <1>6 DEF n

LEMMA FailuresTyped ==
    ASSUME KafkaTyped, NEW b \in Batches, NEW taken \in Seq(Messages), HandleFailures(b, taken)
    PROVE  /\ retries' \in [MessageIds -> 0..MaxRetries - 1]
           /\ \E sent \in SUBSET Paired(b, taken) :
                deadLetters' = deadLetters \cup
                    {[message |-> content[b][i], id |-> MessageId(taken[i])] : i \in sent}
           /\ deadLetters' \subseteq [message : Messages, id : MessageIds \cup {NoId}]
<1>1. ASSUME NEW id \in MessageIds
      PROVE  (retries[id] + Cardinality({i \in Paired(b, taken) : MessageId(taken[i]) = id}))
                % MaxRetries \in 0..MaxRetries - 1
  <2> DEFINE S == {i \in Paired(b, taken) : MessageId(taken[i]) = id}
  <2>1. Cardinality(S) \in Nat
    <3>1. S \subseteq Paired(b, taken)
      OBVIOUS
    <3> HIDE DEF S
    <3> QED
      BY <3>1, PairedPositions, FS_Subset, FS_CardinalityType
  <2>2. retries[id] \in Nat /\ MaxRetries \in Nat \ {0}
    BY KafkaAssumption DEF KafkaTyped, KafkaTypeOK
  <2> HIDE DEF S
  <2>3. (retries[id] + Cardinality(S)) % MaxRetries \in 0..MaxRetries - 1
    BY <2>1, <2>2
  <2> QED
    BY <2>3 DEF S
<1>2. retries' \in [MessageIds -> 0..MaxRetries - 1]
  BY <1>1 DEF HandleFailures
<1>3. PICK sent \in SUBSET Exhausted(b, taken) :
          deadLetters' = deadLetters \cup
              {[message |-> content[b][i], id |-> MessageId(taken[i])] : i \in sent}
  BY DEF HandleFailures
<1>4. sent \in SUBSET Paired(b, taken)
  BY DEF Exhausted
<1>5. ASSUME NEW i \in sent
      PROVE  [message |-> content[b][i], id |-> MessageId(taken[i])]
                 \in [message : Messages, id : MessageIds \cup {NoId}]
  <2>1. content[b][i] \in Messages /\ taken[i] \in Messages
    BY <1>4, PairedPositions
  <2> QED
    BY <2>1 DEF MessageIds
<1>6. deadLetters' \subseteq [message : Messages, id : MessageIds \cup {NoId}]
  BY <1>3, <1>5 DEF KafkaTyped, KafkaTypeOK
<1> QED
  BY <1>2, <1>3, <1>4, <1>6

\* Every message that is settled is put on record, and stays on it.
Records(b, taken) ==
    /\ outcome' \in [predicted : SUBSET Messages, unretried : SUBSET Messages,
                     undelivered : SUBSET Messages, refused : SUBSET Messages]
    /\ outcome'.refused = outcome.refused
    /\ Named \subseteq Named'
    /\ \A i \in Paired(b, taken) : content[b][i] \in Named'

LEMMA SuccessesRecorded ==
    ASSUME KafkaTyped, NEW b \in Batches, NEW taken \in Seq(Messages), HandleSuccesses(b, taken)
    PROVE  Records(b, taken)
<1> DEFINE A == {content[b][i] : i \in Paired(b, taken)}
<1>1. A \subseteq Messages
  BY PairedPositions
<1>2. outcome' = [outcome EXCEPT !.predicted = outcome.predicted \cup A]
      /\ deadLetters' = deadLetters
  BY DEF HandleSuccesses
<1>3. \A i \in Paired(b, taken) : content[b][i] \in A
  OBVIOUS
<1> HIDE DEF A
<1>4. /\ outcome' \in [predicted : SUBSET Messages, unretried : SUBSET Messages,
                       undelivered : SUBSET Messages, refused : SUBSET Messages]
      /\ outcome'.refused = outcome.refused
      /\ outcome'.predicted = outcome.predicted \cup A
      /\ outcome'.unretried = outcome.unretried
      /\ outcome'.undelivered = outcome.undelivered
  BY <1>1, <1>2 DEF KafkaTyped, KafkaTypeOK
<1>5. DeadLettered' = DeadLettered
  BY <1>2 DEF DeadLettered
<1>6. Named \subseteq Named' /\ A \subseteq Named'
  BY <1>4, <1>5 DEF Named
<1> QED
  BY <1>3, <1>4, <1>6 DEF Records

LEMMA FailuresRecorded ==
    ASSUME KafkaTyped, NEW b \in Batches, NEW taken \in Seq(Messages), HandleFailures(b, taken)
    PROVE  Records(b, taken)
<1>1. PICK sent \in SUBSET Exhausted(b, taken) :
        /\ deadLetters' = deadLetters \cup
              {[message |-> content[b][i], id |-> MessageId(taken[i])] : i \in sent}
        /\ outcome' = [outcome EXCEPT
              !.unretried = @ \cup {content[b][i] : i \in Paired(b, taken) \ Exhausted(b, taken)},
              !.undelivered = @ \cup {content[b][i] : i \in Exhausted(b, taken) \ sent}]
  BY DEF HandleFailures
<1> DEFINE A == {content[b][i] : i \in Paired(b, taken) \ Exhausted(b, taken)}
           B == {content[b][i] : i \in Exhausted(b, taken) \ sent}
<1>2. Exhausted(b, taken) \subseteq Paired(b, taken)
  BY DEF Exhausted
<1>3. A \subseteq Messages /\ B \subseteq Messages
  BY <1>2, PairedPositions
<1>4. outcome' = [outcome EXCEPT !.unretried = outcome.unretried \cup A,
                                 !.undelivered = outcome.undelivered \cup B]
  BY <1>1
<1>5. \A i \in Paired(b, taken) : i \notin Exhausted(b, taken) => content[b][i] \in A
  OBVIOUS
<1>6. \A i \in Exhausted(b, taken) : i \notin sent => content[b][i] \in B
  OBVIOUS
<1> HIDE DEF A, B
<1>7. /\ outcome' \in [predicted : SUBSET Messages, unretried : SUBSET Messages,
                       undelivered : SUBSET Messages, refused : SUBSET Messages]
      /\ outcome'.refused = outcome.refused
      /\ outcome'.predicted = outcome.predicted
      /\ outcome'.unretried = outcome.unretried \cup A
      /\ outcome'.undelivered = outcome.undelivered \cup B
  BY <1>3, <1>4 DEF KafkaTyped, KafkaTypeOK
<1>8. DeadLettered \subseteq DeadLettered'
  BY <1>1 DEF DeadLettered
<1>9. ASSUME NEW i \in sent PROVE content[b][i] \in DeadLettered'
  <2> DEFINE letter == [message |-> content[b][i], id |-> MessageId(taken[i])]
  <2>1. letter \in deadLetters' /\ letter.message = content[b][i]
    BY <1>1
  <2> HIDE DEF letter
  <2> QED
    BY <2>1 DEF DeadLettered
<1>10. Named \subseteq Named'
  BY <1>7, <1>8 DEF Named
<1>11. ASSUME NEW i \in Paired(b, taken) PROVE content[b][i] \in Named'
  <2>1. content[b][i] \in A \/ content[b][i] \in B \/ content[b][i] \in DeadLettered'
    BY <1>5, <1>6, <1>9
  <2> QED
    BY <1>7, <2>1 DEF Named
<1> QED
  BY <1>7, <1>10, <1>11 DEF Records

LEMMA AnswerRecorded ==
    ASSUME KafkaTyped, NEW d \in Drainers, BatchAnswered(d)
    PROVE  Records(drainer[d].batch, drainer[d].taken)
<1> DEFINE b == drainer[d].batch
           taken == drainer[d].taken
<1>1. b \in Batches /\ taken \in Seq(Messages)
  BY DEF BatchAnswered, KafkaTyped, DrainerState
<1>2. HandleSuccesses(b, taken) \/ HandleFailures(b, taken)
  BY DEF BatchAnswered
<1> HIDE DEF b, taken
<1>3. Records(b, taken)
  BY <1>1, <1>2, SuccessesRecorded, FailuresRecorded
<1> QED
  BY <1>3 DEF b, taken

LEMMA AnswerTyped ==
    ASSUME KafkaTyped, NEW d \in Drainers, BatchAnswered(d)
    PROVE  KafkaTyped'
<1> DEFINE b == drainer[d].batch
           taken == drainer[d].taken
<1>1. b \in Batches /\ taken \in Seq(Messages) /\ Settles(d) /\ GoesOn(d)
  BY AnswerSettles, AnswerGoesOn DEF Settles, KafkaTyped, DrainerState
<1>2. drainer' \in [Drainers -> DrainerState]
  BY <1>1 DEF GoesOn, KafkaTyped
<1>3. /\ content' \in [Batches -> Seq(Messages)]
      /\ \A c \in Batches : Len(content'[c]) <= BatchSize
  BY <1>1, KafkaAssumption DEF Settles, KafkaTyped, KafkaTypeOK
<1>4. batchAt' \in [Partitions -> Batches \cup {NoBatch}]
  BY <1>1 DEF Settles, KafkaTyped, KafkaTypeOK
<1>5. handled' \in [Messages -> Nat]
  <2>1. ASSUME NEW m \in Messages
        PROVE  handled[m] + Cardinality({i \in Paired(b, taken) : content[b][i] = m}) \in Nat
    <3> DEFINE S == {i \in Paired(b, taken) : content[b][i] = m}
    <3>1. S \subseteq Paired(b, taken)
      OBVIOUS
    <3>2. handled[m] \in Nat
      BY DEF KafkaTyped, KafkaTypeOK
    <3> HIDE DEF S, b, taken
    <3>3. handled[m] + Cardinality(S) \in Nat
      BY <1>1, <3>1, <3>2, PairedPositions, FS_Subset, FS_CardinalityType
    <3> QED
      BY <3>3 DEF S
  <2> QED
    BY <1>1, <2>1 DEF Settles
<1>6. PICK success \in BOOLEAN :
        /\ counters' = CountBatch(Len(taken), success)
        /\ IF success THEN HandleSuccesses(b, taken) ELSE HandleFailures(b, taken)
  BY DEF BatchAnswered
<1>7. counters' \in [consumed : Nat, processed : Nat, failed : Nat]
  <2>1. Len(taken) \in Nat
    BY <1>1
  <2> HIDE DEF taken
  <2> QED
    BY <1>6, <2>1 DEF CountBatch, KafkaTyped, KafkaTypeOK
<1>8. /\ retries' \in [MessageIds -> 0..MaxRetries - 1]
      /\ deadLetters' \subseteq [message : Messages, id : MessageIds \cup {NoId}]
  <2> HIDE DEF b, taken
  <2> QED
    BY <1>1, <1>6, FailuresTyped DEF HandleSuccesses, KafkaTyped, KafkaTypeOK
<1>9. UNCHANGED <<running, dlq, recent, accepted, late>>
  BY <1>1 DEF Settles
<1>10. outcome' \in [predicted : SUBSET Messages, unretried : SUBSET Messages,
                     undelivered : SUBSET Messages, refused : SUBSET Messages]
  BY AnswerRecorded DEF Records
<1> QED
  BY <1>2, <1>3, <1>4, <1>5, <1>7, <1>8, <1>9, <1>10 DEF KafkaTyped, KafkaTypeOK, DrainerState

-----------------------------------------------------------------------------
(* Batches, and the calls that wait for them.                                *)

\* The batch a message is taken into is no other partition's.
LEMMA TakenIntoOwn ==
    ASSUME KafkaTyped, EntriesFilled, NEW p, NEW o, NEW b, Takes(p, o, b),
           NEW q \in Partitions, q # p
    PROVE  batchAt[q] # b /\ batchAt'[q] = batchAt[q]
           /\ (batchAt[q] # NoBatch => content'[batchAt[q]] = content[batchAt[q]])
<1>1. p \in Partitions /\ b \in Batches
  BY DEF Takes, Polls
<1>2. batchAt[q] # b
  <2>1. CASE ~Referenced(b)
    BY <2>1 DEF Referenced, Range, KafkaTyped, KafkaTypeOK
  <2>2. CASE b = batchAt[p]
    <3> SUFFICES ASSUME batchAt[q] = b PROVE FALSE
      OBVIOUS
    <3>1. content[b] \in Seq(Messages) /\ b # NoBatch
      BY <1>1, KafkaAssumption DEF KafkaTyped
    <3>2. content[b] # <<>>
          /\ \A i \in DOMAIN content[b] : content[b][i].partition = p /\ content[b][i].partition = q
      BY <1>1, <2>2, <3>1 DEF EntriesFilled, EntryFilled
    <3>3. 1 \in DOMAIN content[b]
      BY <3>1, <3>2
    <3> QED
      BY <3>2, <3>3
  <2> QED
    BY <2>1, <2>2 DEF Takes, Polls
<1>3. batchAt'[q] = batchAt[q]
  BY DEF Takes, Polls, KafkaTyped, KafkaTypeOK
<1>4. \A c \in Batches : c # b => content'[c] = content[c]
  BY DEF Takes, Polls, KafkaTyped
<1> QED
  BY <1>2, <1>3, <1>4 DEF KafkaTyped, KafkaTypeOK

\* What the batch holds afterwards.
LEMMA TakenAtEnd ==
    ASSUME KafkaTyped, NEW p, NEW o, NEW b, Takes(p, o, b)
    PROVE  /\ content'[b] \in Seq(Messages) /\ batchAt'[p] = b
           /\ \/ /\ b = batchAt[p] /\ Len(content'[b]) = Len(content[b]) + 1
                 /\ \A i \in 1..Len(content[b]) : content'[b][i] = content[b][i]
              \/ /\ ~Referenced(b) /\ batchAt[p] = NoBatch /\ Len(content'[b]) = 1
           /\ content'[b][Len(content'[b])] = At(p, o)
<1>1. At(p, o) \in Messages /\ p \in Partitions /\ b \in Batches
  BY AtMessage DEF Takes, Polls
<1>2. content[b] \in Seq(Messages)
  BY <1>1 DEF KafkaTyped
<1>3. batchAt'[p] = b
  BY <1>1 DEF Takes, Polls, KafkaTyped, KafkaTypeOK
<1>4. CASE /\ b = batchAt[p]
           /\ content' = [content EXCEPT ![b] = Append(content[b], At(p, o))]
  <2>1. content'[b] = Append(content[b], At(p, o))
    BY <1>1, <1>4 DEF KafkaTyped
  <2>2. /\ Append(content[b], At(p, o)) \in Seq(Messages)
        /\ Len(Append(content[b], At(p, o))) = Len(content[b]) + 1
        /\ Append(content[b], At(p, o))[Len(content[b]) + 1] = At(p, o)
        /\ \A i \in 1..Len(content[b]) : Append(content[b], At(p, o))[i] = content[b][i]
    BY <1>1, <1>2
  <2> QED
    BY <1>3, <1>4, <2>1, <2>2
<1>5. CASE /\ batchAt[p] = NoBatch /\ ~Referenced(b)
           /\ content' = [content EXCEPT ![b] = <<At(p, o)>>]
  <2>1. content'[b] = <<At(p, o)>>
    BY <1>1, <1>5 DEF KafkaTyped
  <2> DEFINE c == <<At(p, o)>>
  <2>2. c \in Seq(Messages) /\ Len(c) = 1 /\ c[1] = At(p, o)
    BY <1>1
  <2>3. content'[b] = c
    BY <2>1
  <2> HIDE DEF c
  <2> QED
    BY <1>3, <1>5, <2>2, <2>3
<1> QED
  BY <1>4, <1>5 DEF Takes, Polls

LEMMA TakesFilled ==
    ASSUME KafkaTyped, EntriesFilled, NEW p, NEW o, NEW b, Takes(p, o, b)
    PROVE  EntriesFilled'
<1> SUFFICES ASSUME NEW q \in Partitions PROVE EntryFilled(q, batchAt', content')
  BY DEF EntriesFilled, EntryFilled
<1>0. p \in Partitions /\ b \in Batches /\ o \in DOMAIN Topic[p]
  BY DEF Takes, Polls
<1>1. EntryFilled(q, batchAt, content)
  BY DEF EntriesFilled
<1>2. CASE q # p
  BY <1>1, <1>2, TakenIntoOwn DEF EntryFilled
<1>3. CASE q = p
  <2>1. content'[b] \in Seq(Messages) /\ batchAt'[p] = b /\ Len(content'[b]) \in Nat
        /\ content[b] \in Seq(Messages) /\ Len(content[b]) \in Nat
    BY <1>0, TakenAtEnd DEF KafkaTyped
  <2>2. At(p, o).partition = p
    BY DEF At
  <2>3. Len(content'[b]) >= 1
    <3>1. Len(content'[b]) = Len(content[b]) + 1 \/ Len(content'[b]) = 1
      BY TakenAtEnd
    <3>2. Len(content'[b]) # 0
      <4> DEFINE k == Len(content[b])
                 n == Len(content'[b])
      <4>1. (n = k + 1 \/ n = 1) /\ k \in Nat
        BY <2>1, <3>1
      <4> HIDE DEF k, n
      <4>2. n # 0
        BY <4>1
      <4> QED
        BY <4>2 DEF n
    <3> QED
      BY <2>1, <3>2
  <2>4. ASSUME NEW i \in 1..Len(content'[b]) PROVE content'[b][i].partition = p
    <3>1. CASE i = Len(content'[b])
      BY <2>2, <3>1, TakenAtEnd
    <3>2. CASE i # Len(content'[b])
      <4>1. b = batchAt[p] /\ i \in 1..Len(content[b]) /\ content'[b][i] = content[b][i]
        BY <2>1, <2>3, <3>2, TakenAtEnd
      <4>2. b # NoBatch /\ DOMAIN content[b] = 1..Len(content[b])
        BY <1>0, <2>1, KafkaAssumption
      <4> QED
        BY <1>1, <1>3, <4>1, <4>2 DEF EntryFilled
    <3> QED
      BY <3>1, <3>2
  <2>5. content'[b] # <<>> /\ DOMAIN content'[b] = 1..Len(content'[b])
    BY <2>1, <2>3
  <2> QED
    BY <1>3, <2>1, <2>4, <2>5 DEF EntryFilled
<1> QED
  BY <1>2, <1>3

\* A message taken into the batch of a waiting call comes late.
LEMMA TakesHeld ==
    ASSUME KafkaTyped, EntriesFilled, CallsHold, NEW p, NEW o, NEW b, Takes(p, o, b)
    PROVE  CallsHold'
<1> SUFFICES ASSUME NEW d \in Drainers, drainer[d].batch # NoBatch
             PROVE  CallHolds(drainer[d], batchAt', content', late')
  BY DEF CallsHold, CallHolds, Takes, Polls
<1> DEFINE call == drainer[d]
           q == call.taken[1].partition
<1>0. p \in Partitions /\ b \in Batches /\ o \in DOMAIN Topic[p] /\ late \subseteq late'
  BY DEF Takes, Polls
<1>1. CallHolds(call, batchAt, content, late)
  BY DEF CallsHold
<1>2. call.batch \in Batches /\ call.taken \in Seq(Messages) /\ call.taken # <<>>
  BY <1>1 DEF KafkaTyped, DrainerState, CallHolds
<1>3. 1 \in DOMAIN call.taken /\ call.taken[1] \in Messages /\ q \in Partitions
      /\ Len(call.taken) \in Nat /\ DOMAIN call.taken = 1..Len(call.taken)
  <2>1. 1 \in DOMAIN call.taken /\ call.taken[1] \in Messages
        /\ Len(call.taken) \in Nat /\ DOMAIN call.taken = 1..Len(call.taken)
    BY <1>2
  <2> QED
    BY <2>1 DEF Messages, Message
<1>4. q = p => At(p, o) \in late'
  BY DEF Takes, Polls, Draining
<1>5. content[b] \in Seq(Messages) /\ content'[b] \in Seq(Messages)
      /\ Len(content[b]) \in Nat /\ DOMAIN content[b] = 1..Len(content[b])
      /\ Len(content'[b]) \in Nat /\ DOMAIN content'[b] = 1..Len(content'[b])
  BY <1>0, TakenAtEnd DEF KafkaTyped
<1>6. b = batchAt[p] \/ (~Referenced(b) /\ batchAt[p] = NoBatch)
  BY TakenAtEnd
<1>7. \/ Extends(content'[call.batch], call.taken, late')
      \/ content'[call.batch] = <<>> /\ \A r \in Partitions : batchAt'[r] # call.batch
  <2>1. CASE call.batch # b
    <3>1. content'[call.batch] = content[call.batch]
      BY <1>2, <2>1 DEF Takes, Polls, KafkaTyped
    <3>2. \A r \in Partitions : batchAt'[r] = batchAt[r] \/ batchAt'[r] = b
      BY DEF Takes, Polls, KafkaTyped, KafkaTypeOK
    <3> QED
      BY <1>0, <1>1, <2>1, <3>1, <3>2 DEF CallHolds, Extends
  <2>2. CASE call.batch = b
    <3>1. b = batchAt[p] /\ Len(content'[b]) = Len(content[b]) + 1
          /\ \A i \in 1..Len(content[b]) : content'[b][i] = content[b][i]
      BY <2>2, TakenAtEnd DEF Referenced
    <3>2. Extends(content[b], call.taken, late)
      BY <1>0, <1>1, <2>2, <3>1 DEF CallHolds
    <3>3. q = p
      <4>1. content[b][1] = call.taken[1] /\ 1 \in DOMAIN content[b]
        BY <1>3, <1>5, <3>2 DEF Extends
      <4>2. EntryFilled(p, batchAt, content) /\ batchAt[p] # NoBatch
        BY <1>0, <3>1, KafkaAssumption DEF EntriesFilled
      <4>3. content[b][1].partition = p
        BY <3>1, <4>1, <4>2 DEF EntryFilled
      <4> QED
        BY <4>1, <4>3
    <3>4. content'[b][Len(content'[b])] \in late'
      BY <1>4, <3>3, TakenAtEnd
    <3>5. Len(call.taken) <= Len(content[b]) /\ Len(call.taken) <= Len(content'[b])
      BY <1>3, <1>5, <3>1, <3>2 DEF Extends
    <3>6. \A i \in DOMAIN call.taken : content'[b][i] = call.taken[i]
      BY <1>3, <1>5, <3>1, <3>2, <3>5 DEF Extends
    <3>7. ASSUME NEW i \in DOMAIN content'[b], i > Len(call.taken) PROVE content'[b][i] \in late'
      <4>1. CASE i = Len(content'[b])
        BY <3>4, <4>1
      <4>2. CASE i # Len(content'[b])
        <5>1. i \in DOMAIN content[b] /\ content'[b][i] = content[b][i]
          BY <1>5, <3>1, <4>2
        <5> QED
          BY <1>0, <3>2, <3>7, <5>1 DEF Extends
      <4> QED
        BY <4>1, <4>2
    <3> QED
      BY <2>2, <3>5, <3>6, <3>7 DEF Extends
  <2> QED
    BY <2>1, <2>2
<1>8. ASSUME batchAt'[q] \notin {call.batch, NoBatch}, NEW i \in DOMAIN content'[batchAt'[q]]
      PROVE  content'[batchAt'[q]][i] \in late'
  <2>1. CASE q # p
    <3>1. batchAt'[q] = batchAt[q] /\ content'[batchAt[q]] = content[batchAt[q]]
      BY <1>3, <1>8, <2>1, TakenIntoOwn
    <3> HIDE DEF call
    <3> QED
      BY <1>0, <1>1, <1>8, <3>1 DEF CallHolds, call
  <2>2. CASE q = p
    <3>1. batchAt'[p] = b /\ content'[b][Len(content'[b])] \in late'
      BY <1>4, <2>2, TakenAtEnd
    <3>2. i \in 1..Len(content'[b])
      BY <1>5, <1>8, <2>2, <3>1
    <3>3. CASE i = Len(content'[b])
      BY <2>2, <3>1, <3>3
    <3>4. CASE i # Len(content'[b])
      <4>1. b = batchAt[p] /\ i \in DOMAIN content[b] /\ content'[b][i] = content[b][i]
        BY <1>5, <3>2, <3>4, TakenAtEnd
      <4>2. content[b][i] \in late
        BY <1>1, <1>8, <2>2, <3>1, <4>1 DEF CallHolds
      <4> QED
        BY <1>0, <2>2, <3>1, <4>1, <4>2
    <3> QED
      BY <3>3, <3>4
  <2> QED
    BY <2>1, <2>2
<1> HIDE DEF call
<1> QED
  BY <1>2, <1>7, <1>8 DEF CallHolds, call

\* A call that goes on holds a whole batch.
LEMMA GoesOnHeld ==
    ASSUME KafkaTyped, KafkaTyped', NEW d \in Drainers, GoesOn(d), EntriesFilled',
           \A e \in Drainers \ {d} : CallHolds(drainer[e], batchAt', content', late')
    PROVE  CallsHold'
<1> SUFFICES ASSUME NEW e \in Drainers PROVE CallHolds(drainer'[e], batchAt', content', late')
  BY DEF CallsHold, CallHolds
<1>1. CASE e # d
  <2>1. drainer'[e] = drainer[e]
    BY <1>1 DEF GoesOn, KafkaTyped
  <2> QED
    BY <1>1, <2>1
<1>2. CASE e = d
  <2>1. CASE drainer'[d] = Idle
    BY <1>2, <2>1 DEF Idle, CallHolds
  <2>2. CASE drainer'[d] # Idle
    <3> DEFINE b == drainer'[d].batch
               taken == drainer'[d].taken
    <3>1. PICK q \in Partitions : b = batchAt'[q]
      BY <2>2 DEF GoesOn
    <3>2. b \in Batches /\ taken = content'[b] /\ taken # <<>> /\ taken \in Seq(Messages)
      BY <2>2 DEF GoesOn, KafkaTyped
    <3>3. Extends(content'[b], taken, late')
      <4> HIDE DEF b, taken
      <4>1. Len(taken) \in Nat /\ DOMAIN taken = 1..Len(taken)
        BY <3>2
      <4> QED
        BY <3>2, <4>1 DEF Extends
    <3>4. taken[1].partition = q
      <4>1. b # NoBatch /\ 1 \in DOMAIN content'[b]
        BY <3>2, KafkaAssumption
      <4> HIDE DEF taken
      <4> QED
        BY <3>1, <3>2, <4>1 DEF EntriesFilled, EntryFilled
    <3>5. batchAt'[taken[1].partition] = b
      BY <3>1, <3>4
    <3> QED
      BY <1>2, <3>2, <3>3, <3>5 DEF CallHolds
  <2> QED
    BY <2>1, <2>2
<1> QED
  BY <1>1, <1>2

LEMMA ProcessHeld ==
    ASSUME KafkaTyped, EntriesFilled, CallsHold, NEW d \in Drainers, ProcessReadyBatches(d)
    PROVE  EntriesFilled' /\ CallsHold'
<1>1. batchAt' = batchAt /\ content' = content /\ late' = late
  BY DEF ProcessReadyBatches
<1>2. EntriesFilled'
  BY <1>1 DEF EntriesFilled, EntryFilled
<1>3. \A e \in Drainers : CallHolds(drainer[e], batchAt', content', late')
  BY <1>1 DEF CallsHold
<1>4. GoesOn(d) /\ KafkaTyped'
  BY ProcessGoesOn, ProcessTyped
<1> QED
  BY <1>2, <1>3, <1>4, GoesOnHeld

\* Settling empties the batch for all calls that hold it; a batch that had replaced it
\* loses its entry.
LEMMA AnswerHeld ==
    ASSUME KafkaTyped, EntriesFilled, CallsHold, NEW d \in Drainers, BatchAnswered(d)
    PROVE  EntriesFilled' /\ CallsHold'
<1> DEFINE b == drainer[d].batch
           taken == drainer[d].taken
           p == taken[1].partition
<1>0. KafkaTyped' /\ GoesOn(d) /\ Settles(d)
  BY AnswerTyped, AnswerGoesOn, AnswerSettles
<1>1. b \in Batches /\ taken \in Seq(Messages) /\ CallHolds(drainer[d], batchAt, content, late)
      /\ b # NoBatch
  BY <1>0, KafkaAssumption DEF Settles, CallsHold, KafkaTyped, DrainerState
<1>2. taken # <<>> /\ 1 \in DOMAIN taken /\ p \in Partitions
  <2>1. taken # <<>> /\ 1 \in DOMAIN taken /\ taken[1] \in Messages
    BY <1>1 DEF CallHolds
  <2> QED
    BY <2>1 DEF Messages, Message
<1>3. /\ content'[b] = <<>> /\ \A c \in Batches : c # b => content'[c] = content[c]
      /\ batchAt'[p] = NoBatch /\ \A q \in Partitions : q # p => batchAt'[q] = batchAt[q]
      /\ late' = late
  BY <1>0, <1>1, <1>2 DEF Settles, KafkaTyped, KafkaTypeOK
<1>4. ASSUME NEW q \in Partitions, q # p PROVE batchAt[q] # b
  <2> SUFFICES ASSUME batchAt[q] = b PROVE FALSE
    OBVIOUS
  <2>1. Extends(content[b], taken, late)
    BY <1>1 DEF CallHolds
  <2>2. content[b] \in Seq(Messages)
    BY <1>1 DEF KafkaTyped
  <2>3. 1 \in DOMAIN content[b] /\ content[b][1] = taken[1]
    <3>1. Len(taken) \in Nat \ {0} /\ Len(content[b]) \in Nat
          /\ DOMAIN content[b] = 1..Len(content[b])
      BY <1>1, <1>2, <2>2
    <3> HIDE DEF b, taken
    <3> QED
      BY <1>2, <2>1, <3>1 DEF Extends
  <2>4. content[b][1].partition = q
    BY <1>1, <2>3 DEF EntriesFilled, EntryFilled
  <2> QED
    BY <1>4, <2>3, <2>4
<1>5. EntriesFilled'
  <2> SUFFICES ASSUME NEW q \in Partitions PROVE EntryFilled(q, batchAt', content')
    BY DEF EntriesFilled, EntryFilled
  <2>1. CASE q = p
    BY <1>3, <2>1 DEF EntryFilled
  <2>2. CASE q # p
    <3>1. batchAt'[q] = batchAt[q]
          /\ (batchAt[q] # NoBatch => content'[batchAt[q]] = content[batchAt[q]])
      BY <1>3, <1>4, <2>2 DEF KafkaTyped, KafkaTypeOK
    <3> QED
      BY <3>1 DEF EntriesFilled, EntryFilled
  <2> QED
    BY <2>1, <2>2
<1>6. ASSUME NEW e \in Drainers, drainer[e].batch # NoBatch
      PROVE  CallHolds(drainer[e], batchAt', content', late')
  <2> DEFINE call == drainer[e]
             q == call.taken[1].partition
  <2>1. CallHolds(call, batchAt, content, late) /\ call.batch \in Batches
        /\ call.taken # <<>> /\ call.taken \in Seq(Messages)
    BY <1>6 DEF CallsHold, CallHolds, KafkaTyped, DrainerState
  <2>2. q \in Partitions
    <3>1. call.taken[1] \in Messages
      BY <2>1
    <3> QED
      BY <3>1 DEF Messages, Message
  <2>3. \/ Extends(content'[call.batch], call.taken, late')
        \/ content'[call.batch] = <<>> /\ \A r \in Partitions : batchAt'[r] # call.batch
    <3>1. CASE call.batch = b
      <4>1. \A r \in Partitions : batchAt'[r] # b
        BY <1>1, <1>3, <1>4
      <4> QED
        BY <1>3, <3>1, <4>1
    <3>2. CASE call.batch # b
      <4>1. content'[call.batch] = content[call.batch]
        BY <1>3, <2>1, <3>2
      <4>2. \A r \in Partitions : batchAt'[r] = batchAt[r] \/ batchAt'[r] = NoBatch
        BY <1>3
      <4> HIDE DEF call
      <4> QED
        BY <1>3, <1>6, <2>1, <4>1, <4>2 DEF CallHolds, call
    <3> QED
      BY <3>1, <3>2
  <2>4. ASSUME batchAt'[q] \notin {call.batch, NoBatch}
        PROVE  /\ batchAt'[q] = batchAt[q] /\ late' = late
               /\ content'[batchAt[q]] = content[batchAt[q]]
    <3> HIDE DEF q, p, b, call
    <3>1. q # p /\ batchAt'[q] = batchAt[q]
      BY <1>3, <2>2, <2>4
    <3>2. batchAt[q] \in Batches /\ batchAt[q] # b
      BY <1>4, <2>2, <2>4, <3>1 DEF KafkaTyped, KafkaTypeOK
    <3> QED
      BY <1>3, <3>1, <3>2
  <2>5. ASSUME batchAt'[q] \notin {call.batch, NoBatch}
        PROVE  \A i \in DOMAIN content'[batchAt'[q]] : content'[batchAt'[q]][i] \in late'
    <3> HIDE DEF call
    <3> QED
      BY <1>6, <2>1, <2>4, <2>5 DEF CallHolds, call
  <2> HIDE DEF call
  <2> QED
    BY <2>1, <2>3, <2>5 DEF CallHolds, call
<1>7. \A e \in Drainers \ {d} : CallHolds(drainer[e], batchAt', content', late')
  BY <1>6 DEF CallHolds
<1> QED
  BY <1>0, <1>5, <1>7, GoesOnHeld

-----------------------------------------------------------------------------
(* Dead letters, and what is lost.                                           *)

\* A dead letter's message is the one the model saw.
LEMMA AnswerPairs ==
    ASSUME KafkaTyped, CallsHold, DeadLettersPaired, NEW d \in Drainers, BatchAnswered(d)
    PROVE  DeadLettersPaired'
<1> DEFINE b == drainer[d].batch
           taken == drainer[d].taken
<1>1. b \in Batches /\ taken \in Seq(Messages) /\ CallHolds(drainer[d], batchAt, content, late)
      /\ b # NoBatch
  BY AnswerSettles, KafkaAssumption DEF Settles, CallsHold, KafkaTyped, DrainerState
<1>2. ASSUME NEW i \in Paired(b, taken) PROVE content[b][i] = taken[i]
  <2>1. i \in DOMAIN content[b] /\ i \in DOMAIN taken
    BY <1>1, PairedPositions
  <2>2. content[b] # <<>>
    BY <2>1
  <2>3. Extends(content[b], taken, late)
    BY <1>1, <2>2 DEF CallHolds
  <2> QED
    BY <2>1, <2>3 DEF Extends
<1>3. PICK success \in BOOLEAN :
        IF success THEN HandleSuccesses(b, taken) ELSE HandleFailures(b, taken)
  BY DEF BatchAnswered
<1>4. CASE success
  BY <1>3, <1>4 DEF HandleSuccesses, DeadLettersPaired, MessageId
<1>5. CASE ~success
  <2> HIDE DEF b, taken
  <2>1. PICK sent \in SUBSET Paired(b, taken) :
          deadLetters' = deadLetters \cup
              {[message |-> content[b][i], id |-> MessageId(taken[i])] : i \in sent}
    BY <1>1, <1>3, <1>5, FailuresTyped
  <2>2. ASSUME NEW letter \in deadLetters' PROVE MessageId(letter.message) = letter.id
    <3>1. CASE letter \in deadLetters
      BY <3>1 DEF DeadLettersPaired
    <3>2. CASE letter \notin deadLetters
      <4>1. PICK i \in sent :
                letter = [message |-> content[b][i], id |-> MessageId(taken[i])]
        BY <2>1, <2>2, <3>2
      <4> QED
        BY <1>2, <4>1
    <3> QED
      BY <3>1, <3>2
  <2>3. \A letter \in deadLetters' : MessageId(letter.message)' = letter.id
    BY <2>2 DEF MessageId
  <2> QED
    BY <2>3 DEF DeadLettersPaired, MessageId
<1> QED
  BY <1>4, <1>5

\* Buffered and its members, for given batches.
BufferOf(at, contents) == UNION {ToSet(contents[b]) : b \in Range(at) \ {NoBatch}}

IsHeld(at, contents, m) ==
    \E q \in Partitions : /\ at[q] \in Batches
                         /\ \E i \in DOMAIN contents[at[q]] : contents[at[q]][i] = m

LEMMA InBuffer ==
    ASSUME NEW at \in [Partitions -> Batches \cup {NoBatch}],
           NEW contents \in [Batches -> Seq(Messages)], NEW m
    PROVE  m \in BufferOf(at, contents) <=> IsHeld(at, contents, m)
<1>1. \A b \in Batches : ToSet(contents[b]) = {contents[b][i] : i \in DOMAIN contents[b]}
  BY DEF ToSet
<1>2. \A b \in Range(at) \ {NoBatch} : b \in Batches /\ \E q \in Partitions : at[q] = b
  BY DEF Range
<1>3. \A q \in Partitions : at[q] \in Batches => at[q] \in Range(at) \ {NoBatch}
  BY KafkaAssumption DEF Range
<1> DEFINE U == BufferOf(at, contents)
<1>4. ASSUME m \in U
      PROVE  \E q \in Partitions : /\ at[q] \in Batches
                                   /\ \E i \in DOMAIN contents[at[q]] : contents[at[q]][i] = m
  <2>1. PICK b \in Range(at) \ {NoBatch} : m \in ToSet(contents[b])
    BY <1>4 DEF BufferOf
  <2>2. PICK q \in Partitions : at[q] = b /\ b \in Batches
    BY <1>2, <2>1
  <2> QED
    BY <1>1, <2>1, <2>2
<1>5. ASSUME NEW q \in Partitions, at[q] \in Batches,
             NEW i \in DOMAIN contents[at[q]], contents[at[q]][i] = m
      PROVE  m \in U
  BY <1>1, <1>3, <1>5 DEF BufferOf
<1> HIDE DEF U
<1>6. m \in U <=> \E q \in Partitions : /\ at[q] \in Batches
                                       /\ \E i \in DOMAIN contents[at[q]] : contents[at[q]][i] = m
  BY <1>4, <1>5
<1> QED
  BY <1>6 DEF U, IsHeld

LEMMA BufferedNow ==
    ASSUME KafkaTyped, NEW m
    PROVE  m \in Buffered <=> IsHeld(batchAt, content, m)
<1>1. batchAt \in [Partitions -> Batches \cup {NoBatch}] /\ content \in [Batches -> Seq(Messages)]
  BY DEF KafkaTyped, KafkaTypeOK
<1>2. m \in BufferOf(batchAt, content) <=> IsHeld(batchAt, content, m)
  BY <1>1, InBuffer
<1>3. Buffered = BufferOf(batchAt, content)
  BY DEF Buffered, BufferOf
<1> QED
  BY <1>2, <1>3

LEMMA BufferedNext ==
    ASSUME KafkaTyped', NEW m, IsHeld(batchAt', content', m)
    PROVE  m \in Buffered'
<1>1. batchAt' \in [Partitions -> Batches \cup {NoBatch}] /\ content' \in [Batches -> Seq(Messages)]
  BY DEF KafkaTyped, KafkaTypeOK
<1>2. m \in BufferOf(batchAt', content')
  BY <1>1, InBuffer
<1>3. Buffered' = BufferOf(batchAt', content')
  BY DEF Buffered, BufferOf
<1> QED
  BY <1>2, <1>3

\* How often a message was taken.
LEMMA TimesTyped ==
    ASSUME KafkaTyped, NEW m \in Messages
    PROVE  /\ IsFiniteSet({i \in DOMAIN accepted[m.partition] :
                               accepted[m.partition][i] = m.offset})
           /\ Times(m) \in Nat
<1>1. m.partition \in Partitions
  BY DEF Messages, Message
<1>2. accepted[m.partition] \in Seq(Nat)
  BY <1>1 DEF KafkaTyped
<1> DEFINE n == Len(accepted[m.partition])
           S == {i \in DOMAIN accepted[m.partition] : accepted[m.partition][i] = m.offset}
<1>3. n \in Nat /\ S \subseteq 1..n
  BY <1>2
<1>4. IsFiniteSet(1..n)
  BY <1>3, FS_Interval
<1>5. IsFiniteSet(S) /\ Cardinality(S) \in Nat
  BY <1>3, <1>4, FS_Subset, FS_CardinalityType
<1> QED
  BY <1>5 DEF Times

\* Taking a message counts for that message and no other.
LEMMA PollsTimes ==
    ASSUME KafkaTyped, NEW p, NEW o, Polls(p, o), NEW m \in Messages
    PROVE  Times(m)' = IF m = At(p, o) THEN Times(m) + 1 ELSE Times(m)
<1> DEFINE q == m.partition
           s == accepted[q]
           t == accepted'[q]
           S == {i \in DOMAIN s : s[i] = m.offset}
           T == {i \in DOMAIN t : t[i] = m.offset}
<1>0. q \in Partitions /\ p \in Partitions /\ o \in Nat /\ s \in Seq(Nat) /\ Len(s) \in Nat
      /\ DOMAIN s = 1..Len(s)
  BY AtMessage DEF Polls, KafkaTyped, Messages, Message
<1>1. Times(m) = Cardinality(S) /\ Times(m)' = Cardinality(T) /\ IsFiniteSet(S)
  BY TimesTyped DEF Times
<1>2. t = IF q = p THEN Append(s, o) ELSE s
  BY <1>0 DEF Polls, KafkaTyped
<1>3. m = At(p, o) <=> q = p /\ m.offset = o
  <2>1. m = [partition |-> m.partition, offset |-> m.offset]
    BY DEF Messages, Message
  <2> QED
    BY <2>1 DEF At
<1>4. CASE q # p
  BY <1>1, <1>2, <1>3, <1>4
<1>5. CASE q = p
  <2>1. /\ DOMAIN t = 1..Len(s) + 1 /\ t[Len(s) + 1] = o
        /\ \A i \in 1..Len(s) : t[i] = s[i]
    BY <1>0, <1>2, <1>5
  <2>2. CASE m.offset = o
    <3>1. T = S \cup {Len(s) + 1} /\ Len(s) + 1 \notin S
      <4> HIDE DEF s, t, q
      <4> QED
        BY <1>0, <2>1, <2>2
    <3> HIDE DEF S, T, s
    <3>2. Cardinality(T) = Cardinality(S) + 1
      BY <1>1, <3>1, FS_AddElement
    <3> QED
      BY <1>1, <1>3, <1>5, <2>2, <3>2
  <2>3. CASE m.offset # o
    <3>1. T = S
      <4> HIDE DEF s, t, q
      <4> QED
        BY <1>0, <2>1, <2>3
    <3> QED
      BY <1>1, <1>3, <1>5, <2>3, <3>1
  <2> QED
    BY <2>2, <2>3
<1> QED
  BY <1>4, <1>5

LEMMA TakesLoses ==
    ASSUME KafkaTyped, EntriesFilled, UnsettledKept,
           NEW p, NEW o, NEW b, Takes(p, o, b)
    PROVE  UnsettledKept'
<1> SUFFICES ASSUME NEW m \in Messages, Times(m)' > 0, handled'[m] = 0
             PROVE  m \in Buffered' \/ m \in late' \/ m \in outcome'.refused
  BY DEF UnsettledKept, Messages, Message, Times
<1>0. KafkaTyped' /\ late \subseteq late' /\ handled' = handled /\ p \in Partitions /\ b \in Batches
      /\ b # NoBatch /\ outcome' = outcome
  BY TakesTyped, KafkaAssumption DEF Takes, Polls
<1>1. batchAt'[p] = b /\ content'[b] \in Seq(Messages) /\ content'[b][Len(content'[b])] = At(p, o)
      /\ content[b] \in Seq(Messages)
  BY <1>0, TakenAtEnd DEF KafkaTyped
<1>2. content'[b] # <<>>
  BY <1>0, <1>1, TakesFilled DEF EntriesFilled, EntryFilled
<1>3. CASE m = At(p, o)
  <2>1. Len(content'[b]) \in DOMAIN content'[b]
    BY <1>1, <1>2
  <2>2. \E q \in Partitions : /\ batchAt'[q] \in Batches
                              /\ \E i \in DOMAIN content'[batchAt'[q]] :
                                    content'[batchAt'[q]][i] = m
    BY <1>0, <1>1, <1>3, <2>1
  <2>3. m \in Buffered'
    BY <1>0, <2>2, BufferedNext DEF IsHeld
  <2> QED
    BY <2>3
<1>4. CASE m # At(p, o)
  <2>1. Times(m) > 0
    BY <1>4, PollsTimes DEF Takes
  <2>2. m \in Buffered \/ m \in late \/ m \in outcome.refused
    BY <1>0, <2>1 DEF UnsettledKept
  <2>3. CASE m \in Buffered
    <3>1. PICK q \in Partitions : /\ batchAt[q] \in Batches
                                  /\ \E i \in DOMAIN content[batchAt[q]] :
                                        content[batchAt[q]][i] = m
      BY <2>3, BufferedNow DEF IsHeld
    <3>2. PICK i \in DOMAIN content[batchAt[q]] : content[batchAt[q]][i] = m
      BY <3>1
    <3>3. batchAt'[q] = batchAt[q]
      <4>1. CASE q # p
        BY <4>1, TakenIntoOwn
      <4>2. CASE q = p
        <5>1. batchAt[p] # NoBatch
          BY <3>1, <4>2, KafkaAssumption
        <5> QED
          BY <1>1, <4>2, <5>1, TakenAtEnd
      <4> QED
        BY <4>1, <4>2
    <3>4. i \in DOMAIN content'[batchAt[q]] /\ content'[batchAt[q]][i] = m
      <4>1. CASE q # p
        <5>1. content'[batchAt[q]] = content[batchAt[q]]
          BY <3>1, <4>1, KafkaAssumption, TakenIntoOwn
        <5> QED
          BY <3>2, <5>1
      <4>2. CASE q = p
        <5>1. b = batchAt[p] /\ batchAt[p] # NoBatch
          BY <1>0, <1>1, <3>3, <4>2
        <5>2. Len(content'[b]) = Len(content[b]) + 1
              /\ \A j \in 1..Len(content[b]) : content'[b][j] = content[b][j]
          BY <5>1, TakenAtEnd
        <5>3. i \in 1..Len(content[b]) /\ content[b][i] = m
          BY <1>1, <3>2, <4>2, <5>1
        <5>4. i \in DOMAIN content'[b]
          BY <1>1, <5>2, <5>3
        <5> QED
          BY <4>2, <5>1, <5>2, <5>3, <5>4
      <4> QED
        BY <4>1, <4>2
    <3>5. m \in Buffered'
      <4>1. \E r \in Partitions : /\ batchAt'[r] \in Batches
                                  /\ \E j \in DOMAIN content'[batchAt'[r]] :
                                        content'[batchAt'[r]][j] = m
        BY <3>1, <3>3, <3>4
      <4> QED
        BY <1>0, <4>1, BufferedNext DEF IsHeld
    <3> QED
      BY <3>5
  <2> QED
    BY <1>0, <2>2, <2>3
<1> QED
  BY <1>3, <1>4

\* A message leaves the buffer settled or late.
LEMMA AnswerLoses ==
    ASSUME KafkaTyped, EntriesFilled, CallsHold, UnsettledKept,
           NEW d \in Drainers, BatchAnswered(d)
    PROVE  UnsettledKept'
<1> SUFFICES ASSUME NEW m \in Messages, Times(m)' > 0, handled'[m] = 0
             PROVE  m \in Buffered' \/ m \in late' \/ m \in outcome'.refused
  BY DEF UnsettledKept, Messages, Message, Times
<1> DEFINE b == drainer[d].batch
           taken == drainer[d].taken
           p == taken[1].partition
           S == {i \in Paired(b, taken) : content[b][i] = m}
<1>0. KafkaTyped' /\ Settles(d)
  BY AnswerTyped, AnswerSettles
<1>1. b \in Batches /\ taken \in Seq(Messages) /\ CallHolds(drainer[d], batchAt, content, late)
      /\ b # NoBatch
  BY <1>0, KafkaAssumption DEF Settles, CallsHold, KafkaTyped, DrainerState
<1>2. /\ content'[b] = <<>> /\ \A c \in Batches : c # b => content'[c] = content[c]
      /\ \A q \in Partitions : q # p => batchAt'[q] = batchAt[q]
      /\ late' = late
      /\ handled'[m] = handled[m] + Cardinality(S)
  BY <1>0, <1>1 DEF Settles, KafkaTyped, KafkaTypeOK
<1>3. Times(m)' = Times(m)
  BY <1>0 DEF Settles, Times
<1>4. handled[m] = 0 /\ S = {}
  <2>1. S \subseteq Paired(b, taken) /\ IsFiniteSet(Paired(b, taken))
    BY <1>1, PairedPositions
  <2>2. handled[m] \in Nat
    BY DEF KafkaTyped, KafkaTypeOK
  <2> HIDE DEF S
  <2>3. IsFiniteSet(S) /\ Cardinality(S) \in Nat
    BY <2>1, FS_Subset, FS_CardinalityType
  <2>4. handled[m] = 0 /\ Cardinality(S) = 0
    BY <1>2, <2>2, <2>3
  <2> QED
    BY <2>3, <2>4, FS_EmptySet
<1>5. m \in Buffered \/ m \in late \/ m \in outcome'.refused
  BY <1>3, <1>4, AnswerRecorded DEF UnsettledKept, Records
<1>6. CASE m \in Buffered
  <2>1. PICK q \in Partitions : /\ batchAt[q] \in Batches
                                /\ \E i \in DOMAIN content[batchAt[q]] :
                                      content[batchAt[q]][i] = m
    BY <1>6, BufferedNow DEF IsHeld
  <2>2. PICK i \in DOMAIN content[batchAt[q]] : content[batchAt[q]][i] = m
    BY <2>1
  <2>3. CASE batchAt[q] = b
    <3>1. i \notin Paired(b, taken)
      BY <1>4, <2>2, <2>3
    <3>2. i \in DOMAIN content[b] /\ ~(i <= Len(taken))
      BY <1>1, <2>2, <2>3, <3>1, PairedPositions
    <3>3. content[b] \in Seq(Messages) /\ Len(taken) \in Nat
      BY <1>1 DEF KafkaTyped
    <3>4. i > Len(taken) /\ content[b] # <<>>
      <4>1. i \in Nat
        BY <3>2, <3>3
      <4> QED
        BY <3>2, <3>3, <4>1
    <3>5. Extends(content[b], taken, late)
      BY <1>1, <3>4 DEF CallHolds
    <3> QED
      BY <1>2, <2>2, <2>3, <3>4, <3>5 DEF Extends
  <2>4. CASE batchAt[q] # b /\ q = p
    <3>1. batchAt[p] \notin {b, NoBatch}
      BY <2>1, <2>4, KafkaAssumption
    <3> QED
      BY <1>1, <1>2, <2>2, <2>4, <3>1 DEF CallHolds
  <2>5. CASE batchAt[q] # b /\ q # p
    <3>1. batchAt'[q] = batchAt[q] /\ content'[batchAt[q]] = content[batchAt[q]]
      BY <1>2, <2>1, <2>5
    <3>2. m \in Buffered'
      <4>1. \E r \in Partitions : /\ batchAt'[r] \in Batches
                                  /\ \E j \in DOMAIN content'[batchAt'[r]] :
                                        content'[batchAt'[r]][j] = m
        BY <2>1, <2>2, <3>1
      <4> QED
        BY <1>0, <4>1, BufferedNext DEF IsHeld
    <3> QED
      BY <3>2
  <2> QED
    BY <2>3, <2>4, <2>5
<1> QED
  BY <1>2, <1>5, <1>6

\* A message that is settled is put on record.
LEMMA AnswerNames ==
    ASSUME KafkaTyped, SettledNamed, NEW d \in Drainers, BatchAnswered(d)
    PROVE  SettledNamed'
<1> DEFINE b == drainer[d].batch
           taken == drainer[d].taken
<1>1. Settles(d) /\ Records(b, taken)
  BY AnswerSettles, AnswerRecorded
<1>2. ASSUME NEW m \in Messages, handled'[m] > 0 PROVE m \in Named'
  <2> DEFINE S == {i \in Paired(b, taken) : content[b][i] = m}
  <2>1. handled'[m] = handled[m] + Cardinality(S) /\ handled[m] \in Nat
    BY <1>1 DEF Settles, KafkaTyped, KafkaTypeOK
  <2>2. CASE handled[m] > 0
    BY <1>1, <2>2 DEF SettledNamed, Records
  <2>3. CASE handled[m] = 0
    <3>1. S # {}
      <4> SUFFICES ASSUME S = {} PROVE FALSE
        OBVIOUS
      <4> HIDE DEF S
      <4> QED
        BY <1>2, <2>1, <2>3, FS_EmptySet
    <3> QED
      BY <1>1, <3>1 DEF Records
  <2> QED
    BY <2>1, <2>2, <2>3
<1>3. \A m \in Messages : handled'[m] > 0 => m \in Named'
  BY <1>2
<1> QED
  BY <1>3 DEF SettledNamed, Messages, Message

-----------------------------------------------------------------------------
(* How often a message is settled.                                           *)

LEMMA PlacesFinite ==
    ASSUME NEW contents, NEW m
    PROVE  IsFiniteSet(Places(contents, m)) /\ Cardinality(Places(contents, m)) \in Nat
<1>1. IsFiniteSet(Batches) /\ IsFiniteSet(1..BatchSize)
  BY KafkaAssumption, FS_Interval
<1>2. IsFiniteSet(Batches \X (1..BatchSize))
  BY <1>1, FS_Product
<1>3. Places(contents, m) \subseteq Batches \X (1..BatchSize)
  BY DEF Places
<1> QED
  BY <1>2, <1>3, FS_Subset, FS_CardinalityType

LEMMA TakesPlaces ==
    ASSUME KafkaTyped, SettledOrHeld, NEW p, NEW o, NEW b, Takes(p, o, b)
    PROVE  SettledOrHeld'
<1> SUFFICES ASSUME NEW m \in Messages
             PROVE  handled'[m] + Cardinality(Places(content', m)) <= Times(m)'
  BY DEF SettledOrHeld, Messages, Message, Times, Places
<1> DEFINE l == Len(content'[b])
           S == Places(content, m)
           T == Places(content', m)
<1>0. b \in Batches /\ content'[b] \in Seq(Messages) /\ content[b] \in Seq(Messages)
      /\ DOMAIN content'[b] = 1..l /\ l \in Nat
      /\ \A c \in Batches : c # b => content'[c] = content[c]
  <2>1. b \in Batches /\ content[b] \in Seq(Messages)
        /\ \A c \in Batches : c # b => content'[c] = content[c]
    BY DEF Takes, Polls, KafkaTyped
  <2>2. content'[b] \in Seq(Messages)
    BY TakenAtEnd
  <2> QED
    BY <2>1, <2>2
<1>1. ASSUME NEW i \in DOMAIN content'[b], i # l
      PROVE  i \in DOMAIN content[b] /\ content'[b][i] = content[b][i]
  <2>1. CASE l = 1
    BY <1>0, <1>1, <2>1
  <2>2. CASE l # 1
    <3>1. l = Len(content[b]) + 1
          /\ \A j \in 1..Len(content[b]) : content'[b][j] = content[b][j]
      BY <2>2, TakenAtEnd
    <3>2. i \in 1..Len(content[b]) /\ DOMAIN content[b] = 1..Len(content[b])
      <4>1. Len(content[b]) \in Nat
        BY <1>0
      <4> HIDE DEF l
      <4> QED
        BY <1>0, <1>1, <3>1, <4>1
    <3> QED
      BY <3>1, <3>2
  <2> QED
    BY <2>1, <2>2
<1>2. ASSUME NEW place \in T, place # <<b, l>> PROVE place \in S
  <2>1. place \in Batches \X (1..BatchSize) /\ place[2] \in DOMAIN content'[place[1]]
        /\ content'[place[1]][place[2]] = m /\ place = <<place[1], place[2]>>
    BY DEF Places
  <2>2. CASE place[1] = b
    <3>1. place[2] # l
      BY <1>2, <2>1, <2>2
    <3> QED
      BY <1>1, <2>1, <2>2, <3>1 DEF Places
  <2>3. CASE place[1] # b
    <3>1. content'[place[1]] = content[place[1]]
      BY <1>0, <2>1, <2>3
    <3> QED
      BY <2>1, <3>1 DEF Places
  <2> QED
    BY <2>2, <2>3
<1>3. <<b, l>> \in T => m = At(p, o)
  <2> SUFFICES ASSUME <<b, l>> \in T PROVE m = At(p, o)
    OBVIOUS
  <2>1. content'[b][l] = m
    BY DEF Places
  <2> QED
    BY <2>1, TakenAtEnd
<1>4. handled'[m] = handled[m] /\ handled[m] \in Nat
      /\ handled[m] + Cardinality(S) <= Times(m) /\ Times(m) \in Nat
  BY TimesTyped DEF Takes, Polls, SettledOrHeld, KafkaTyped, KafkaTypeOK
<1>5. IsFiniteSet(S) /\ Cardinality(S) \in Nat /\ Cardinality(T) \in Nat
  BY PlacesFinite
<1> DEFINE x == <<b, l>>
<1> HIDE DEF S, T, x
<1>6. CASE m # At(p, o)
  <2>1. T \subseteq S
    BY <1>2, <1>3, <1>6 DEF x
  <2>2. Cardinality(T) <= Cardinality(S)
    BY <1>5, <2>1, FS_Subset
  <2>3. Times(m)' = Times(m)
    BY <1>6, PollsTimes DEF Takes
  <2>4. handled'[m] + Cardinality(T) <= Times(m)'
    BY <1>4, <1>5, <2>2, <2>3
  <2> QED
    BY <2>4 DEF T
<1>7. CASE m = At(p, o)
  <2>1. T \subseteq S \cup {x}
    BY <1>2 DEF x
  <2>2. IsFiniteSet(S \cup {x}) /\ Cardinality(S \cup {x}) <= Cardinality(S) + 1
        /\ Cardinality(S \cup {x}) \in Nat
    BY <1>5, FS_AddElement
  <2>3. Cardinality(T) <= Cardinality(S \cup {x})
    BY <2>1, <2>2, FS_Subset
  <2>4. Times(m)' = Times(m) + 1
    BY <1>7, PollsTimes DEF Takes
  <2>5. handled'[m] + Cardinality(T) <= Times(m)'
    BY <1>4, <1>5, <2>2, <2>3, <2>4
  <2> QED
    BY <2>5 DEF T
<1> QED
  BY <1>6, <1>7

\* A batch gives up its places for at most as many settlements.
LEMMA AnswerPlaces ==
    ASSUME KafkaTyped, SettledOrHeld, NEW d \in Drainers, BatchAnswered(d)
    PROVE  SettledOrHeld'
<1> SUFFICES ASSUME NEW m \in Messages
             PROVE  handled'[m] + Cardinality(Places(content', m)) <= Times(m)'
  BY DEF SettledOrHeld, Messages, Message, Times, Places
<1> DEFINE b == drainer[d].batch
           taken == drainer[d].taken
           R == {i \in Paired(b, taken) : content[b][i] = m}
           S == Places(content, m)
           T == Places(content', m)
           G == S \ T
           f == [i \in R |-> <<b, i>>]
<1>0. Settles(d) /\ b \in Batches /\ taken \in Seq(Messages) /\ content[b] \in Seq(Messages)
      /\ Len(content[b]) <= BatchSize /\ BatchSize \in Nat
  BY AnswerSettles, KafkaAssumption DEF Settles, KafkaTyped, KafkaTypeOK, DrainerState
<1>1. /\ content'[b] = <<>> /\ \A c \in Batches : c # b => content'[c] = content[c]
      /\ handled'[m] = handled[m] + Cardinality(R)
      /\ Times(m)' = Times(m)
  BY <1>0 DEF Settles, KafkaTyped, KafkaTypeOK, Times
<1>2. T \subseteq S
  <2> SUFFICES ASSUME NEW place \in T PROVE place \in S
    OBVIOUS
  <2>1. place \in Batches \X (1..BatchSize) /\ place[2] \in DOMAIN content'[place[1]]
        /\ content'[place[1]][place[2]] = m
    BY DEF Places
  <2>2. place[1] # b
    BY <1>1, <2>1
  <2>3. content'[place[1]] = content[place[1]]
    BY <1>1, <2>1, <2>2
  <2> QED
    BY <2>1, <2>3 DEF Places
<1>3. f \in Injection(R, G)
  <2>1. ASSUME NEW i \in R PROVE <<b, i>> \in G
    <3>1. i \in DOMAIN content[b] /\ content[b][i] = m
      BY <1>0, PairedPositions
    <3>2. i \in 1..BatchSize
      <4>1. Len(content[b]) \in Nat /\ i \in 1..Len(content[b])
        BY <1>0, <3>1
      <4> HIDE DEF b
      <4> QED
        BY <1>0, <4>1
    <3>3. <<b, i>> \in S
      BY <1>0, <3>1, <3>2 DEF Places
    <3>4. <<b, i>> \notin T
      BY <1>1 DEF Places
    <3> QED
      BY <3>3, <3>4
  <2>2. \A i, j \in R : f[i] = f[j] => i = j
    OBVIOUS
  <2> HIDE DEF R, G
  <2> QED
    BY <2>1, <2>2 DEF Injection, IsInjective
<1>4. IsFiniteSet(S) /\ Cardinality(S) \in Nat /\ IsFiniteSet(T) /\ Cardinality(T) \in Nat
  BY PlacesFinite
<1>5. handled[m] \in Nat /\ handled[m] + Cardinality(S) <= Times(m) /\ Times(m) \in Nat
  BY TimesTyped DEF SettledOrHeld, KafkaTyped, KafkaTypeOK
<1>6. IsFiniteSet(R) /\ Cardinality(R) \in Nat
  <2>1. R \subseteq Paired(b, taken) /\ IsFiniteSet(Paired(b, taken))
    BY <1>0, PairedPositions
  <2> HIDE DEF R
  <2> QED
    BY <2>1, FS_Subset, FS_CardinalityType
<1> HIDE DEF R, S, T, f, b, taken
<1>7. IsFiniteSet(G) /\ Cardinality(G) = Cardinality(S) - Cardinality(S \cap T)
  BY <1>4, FS_Difference
<1>8. S \cap T = T
  BY <1>2
<1> HIDE DEF G
<1>9. Cardinality(R) <= Cardinality(G)
  BY <1>3, <1>6, <1>7, FS_Injection
<1>10. handled'[m] + Cardinality(T) <= Times(m)'
  <2> DEFINE h == handled[m]
             r == Cardinality(R)
             c == Cardinality(S)
             e == Cardinality(T)
             n == Times(m)
  <2>1. h \in Nat /\ r \in Nat /\ c \in Nat /\ e \in Nat /\ n \in Nat
        /\ h + c <= n /\ r <= c - e
    BY <1>4, <1>5, <1>6, <1>7, <1>8, <1>9
  <2>2. handled'[m] = h + r /\ Times(m)' = n
    BY <1>1
  <2> HIDE DEF h, r, c, e, n
  <2>3. (h + r) + e <= n
    BY <2>1
  <2>4. handled'[m] + e <= n
    BY <2>2, <2>3
  <2> QED
    BY <2>2, <2>4 DEF e
<1> QED
  BY <1>10 DEF T

-----------------------------------------------------------------------------
(* The offset history.                                                       *)

LEMMA PollsHistory ==
    ASSUME KafkaTyped, HistoryKept, NEW p, NEW o, Polls(p, o)
    PROVE  HistoryKept'
<1> SUFFICES ASSUME NEW q \in Partitions PROVE HistoryOf(recent'[q], accepted'[q])
  BY DEF HistoryKept, HistoryOf
<1>0. HistoryOf(recent[q], accepted[q])
  BY DEF HistoryKept
<1>1. p \in Partitions /\ o \in Nat /\ recent[p] \in Seq(Nat) /\ accepted[p] \in Seq(Nat)
      /\ Len(recent[p]) <= OffsetHistory /\ OffsetHistory \in Nat \ {0}
  BY AtMessage, KafkaAssumption DEF Polls, KafkaTyped, KafkaTypeOK
<1>2. CASE q # p
  BY <1>0, <1>2 DEF Polls, KafkaTyped
<1>3. CASE q = p
  <2> DEFINE s == recent[p]
             t == accepted[p]
             s2 == Remember(s, o)
             t2 == Append(t, o)
             n == Len(s)
             m == Len(t)
             n2 == Len(s2)
  <2>1. recent'[p] = s2 /\ accepted'[p] = t2
    BY <1>1 DEF Polls, KafkaTyped
  <2>2. /\ s2 \in Seq(Nat) /\ n2 = IF n = OffsetHistory THEN OffsetHistory ELSE n + 1
        /\ \A k \in 1..n2 : s2[k] = LET j == k + n + 1 - n2
                                    IN  IF j = n + 1 THEN o ELSE s[j]
    BY <1>1, Remembers
  <2>3. t2 \in Seq(Nat) /\ Len(t2) = m + 1 /\ m \in Nat /\ n \in Nat
        /\ \A k \in 1..m + 1 : t2[k] = IF k = m + 1 THEN o ELSE t[k]
    BY <1>1
  <2>4. /\ n <= m /\ (n = OffsetHistory \/ n = m) /\ DOMAIN s = 1..n
        /\ \A k \in 1..n : s[k] = t[m - n + k]
    <3>1. DOMAIN s = 1..n
      BY <1>1
    <3> QED
      BY <1>0, <1>3, <3>1 DEF HistoryOf
  <2>5. DOMAIN s2 = 1..n2 /\ n2 \in Nat
    BY <2>2
  <2> HIDE DEF s, t, s2, t2, n, m, n2
  <2>6. n2 <= m + 1 /\ (n2 = OffsetHistory \/ n2 = m + 1) /\ (n2 = n \/ n2 = n + 1) /\ n2 \in Nat
    BY <1>1, <2>2, <2>3, <2>4
  <2>7. ASSUME NEW k \in 1..n2 PROVE s2[k] = t2[m + 1 - n2 + k]
    <3>1. CASE k = n2
      <4>1. k + n + 1 - n2 = n + 1 /\ m + 1 - n2 + k = m + 1
        BY <2>3, <2>6, <3>1
      <4>2. s2[k] = o
        BY <2>2, <4>1
      <4>3. t2[m + 1] = o
        BY <2>3
      <4> QED
        BY <4>1, <4>2, <4>3
    <3>2. CASE k # n2
      <4> DEFINE j == k + n + 1 - n2
                 l == m + 1 - n2 + k
      <4>1. j \in 1..n /\ l \in 1..m /\ m - n + j = l
        BY <2>3, <2>4, <2>6, <3>2
      <4>2. s2[k] = IF j = n + 1 THEN o ELSE s[j]
        BY <2>2
      <4>3. t2[l] = IF l = m + 1 THEN o ELSE t[l]
        BY <2>3, <4>1
      <4> HIDE DEF j, l
      <4>4. j # n + 1 /\ l # m + 1
        BY <2>3, <4>1
      <4>5. s2[k] = t2[l]
        BY <2>4, <4>1, <4>2, <4>3, <4>4
      <4> QED
        BY <4>5 DEF l
    <3> QED
      BY <3>1, <3>2
  <2>8. HistoryOf(s2, t2)
    <3>1. Len(s2) = n2
      BY DEF n2
    <3>2. Len(s2) <= Len(t2) /\ (Len(s2) = OffsetHistory \/ Len(s2) = Len(t2))
      BY <2>3, <2>6, <3>1
    <3>3. \A k \in DOMAIN s2 : s2[k] = t2[Len(t2) - Len(s2) + k]
      BY <2>3, <2>5, <2>7, <3>1
    <3> QED
      BY <3>2, <3>3 DEF HistoryOf
  <2> QED
    BY <1>3, <2>1, <2>8
<1> QED
  BY <1>2, <1>3

\* What the history does not hold was taken long ago.
LEMMA PollsNoDuplicate ==
    ASSUME KafkaTyped, HistoryKept, NoRecentDuplicate, NEW p, NEW o, Polls(p, o)
    PROVE  NoRecentDuplicate'
<1> SUFFICES ASSUME NEW q \in Partitions,
                    NEW i \in DOMAIN accepted'[q], NEW j \in DOMAIN accepted'[q],
                    i < j, accepted'[q][i] = accepted'[q][j]
             PROVE  j - i > OffsetHistory
  BY DEF NoRecentDuplicate
<1>1. p \in Partitions /\ o \in Nat /\ recent[p] \in Seq(Nat) /\ accepted[p] \in Seq(Nat)
      /\ o \notin ToSet(recent[p]) /\ OffsetHistory \in Nat \ {0}
  BY AtMessage, KafkaAssumption DEF Polls, KafkaTyped, KafkaTypeOK
<1>2. CASE q # p
  <2>1. accepted'[q] = accepted[q]
    BY <1>2 DEF Polls, KafkaTyped
  <2> QED
    BY <2>1 DEF NoRecentDuplicate
<1>3. CASE q = p
  <2> DEFINE s == recent[p]
             t == accepted[p]
             n == Len(s)
             m == Len(t)
  <2>1. accepted'[p] = Append(t, o)
    BY <1>1 DEF Polls, KafkaTyped
  <2>2. /\ m \in Nat /\ n \in Nat /\ DOMAIN t = 1..m /\ DOMAIN s = 1..n
        /\ DOMAIN accepted'[p] = 1..m + 1 /\ accepted'[p][m + 1] = o
        /\ \A k \in 1..m : accepted'[p][k] = t[k]
    BY <1>1, <2>1
  <2>3. /\ n <= m /\ (n = OffsetHistory \/ n = m)
        /\ \A k \in 1..n : s[k] = t[m - n + k]
    BY <1>1, <2>2 DEF HistoryKept, HistoryOf
  <2>4. \A k \in 1..n : s[k] # o
    <3>1. ToSet(s) = {s[k] : k \in DOMAIN s}
      BY DEF ToSet
    <3> QED
      BY <1>1, <2>2, <3>1
  <2> HIDE DEF s, t, n, m
  <2>5. i \in 1..m + 1 /\ j \in 1..m + 1 /\ i \in 1..m
    BY <1>3, <2>2
  <2>6. CASE j \in 1..m
    <3>1. t[i] = t[j] /\ i \in DOMAIN t /\ j \in DOMAIN t
      BY <1>3, <2>2, <2>5, <2>6
    <3> QED
      BY <1>1, <3>1 DEF NoRecentDuplicate, t
  <2>7. CASE j = m + 1
    <3>1. t[i] = o
      BY <1>3, <2>2, <2>5, <2>7
    <3>2. ~(i > m - n)
      <4> SUFFICES ASSUME i > m - n PROVE FALSE
        OBVIOUS
      <4> DEFINE k == i - (m - n)
      <4>1. k \in 1..n /\ m - n + k = i
        BY <2>2, <2>3, <2>5
      <4> HIDE DEF k
      <4> QED
        BY <2>3, <2>4, <3>1, <4>1
    <3>3. n # m
      BY <2>2, <2>5, <3>2
    <3> QED
      BY <1>1, <2>2, <2>3, <2>5, <2>7, <3>2, <3>3
  <2> QED
    BY <2>2, <2>5, <2>6, <2>7
<1> QED
  BY <1>2, <1>3

-----------------------------------------------------------------------------
(* The steps.                                                                *)

\* Nothing but the record changes when a full batch refuses a message.
LEMMA RefusesKept ==
    ASSUME KafkaInv, NEW p, NEW o, Refuses(p, o)
    PROVE  KafkaInv'
<1>0. KafkaTyped /\ EntriesFilled /\ CallsHold /\ SettledOrHeld /\ HistoryKept
      /\ DeadLettersPaired /\ UnsettledKept /\ SettledNamed /\ NoRecentDuplicate
  BY DEF KafkaInv
<1>1. Polls(p, o) /\ UNCHANGED <<batchAt, content, drainer, deadLetters, handled>>
  BY DEF Refuses, Polls
<1>2. late \subseteq late'
  BY <1>0, <1>1, PollsTyped
<1>3. /\ outcome'.refused = outcome.refused \cup {At(p, o)}
      /\ outcome'.predicted = outcome.predicted /\ outcome'.unretried = outcome.unretried
      /\ outcome'.undelivered = outcome.undelivered
  BY <1>0 DEF Refuses, KafkaTyped, KafkaTypeOK
<1>4. KafkaTyped'
  BY <1>0, RefusesTyped
<1>5. EntriesFilled'
  BY <1>0, <1>1 DEF EntriesFilled, EntryFilled
<1>6. CallsHold'
  <2> SUFFICES ASSUME NEW d \in Drainers PROVE CallHolds(drainer[d], batchAt, content, late')
    BY <1>1 DEF CallsHold, CallHolds
  <2>1. CallHolds(drainer[d], batchAt, content, late)
    BY <1>0 DEF CallsHold
  <2> QED
    BY <1>2, <2>1 DEF CallHolds, Extends
<1>7. ASSUME NEW m \in Messages
      PROVE  Times(m)' = (IF m = At(p, o) THEN Times(m) + 1 ELSE Times(m)) /\ Times(m) \in Nat
             /\ handled[m] \in Nat /\ Cardinality(Places(content, m)) \in Nat
  BY <1>0, <1>1, PollsTimes, TimesTyped, PlacesFinite DEF KafkaTyped, KafkaTypeOK
<1>8. SettledOrHeld'
  <2>1. ASSUME NEW m \in Messages
        PROVE  handled'[m] + Cardinality(Places(content', m)) <= Times(m)'
    <3>1. handled'[m] = handled[m] /\ Places(content', m) = Places(content, m)
      BY <1>1
    <3>2. handled[m] + Cardinality(Places(content, m)) <= Times(m)
      BY <1>0 DEF SettledOrHeld
    <3> QED
      BY <1>7, <3>1, <3>2
  <2> QED
    BY <2>1 DEF SettledOrHeld, Messages, Message, Times, Places
<1>9. HistoryKept' /\ NoRecentDuplicate'
  BY <1>0, <1>1, PollsHistory, PollsNoDuplicate
<1>10. UnsettledKept'
  <2>1. Buffered' = Buffered
    BY <1>1 DEF Buffered
  <2>2. ASSUME NEW m \in Messages, Times(m)' > 0, handled'[m] = 0
        PROVE  m \in Buffered' \cup late' \cup outcome'.refused
    <3>1. m = At(p, o) \/ Times(m) > 0
      BY <1>7, <2>2
    <3> QED
      BY <1>0, <1>1, <1>2, <1>3, <2>1, <2>2, <3>1 DEF UnsettledKept
  <2> QED
    BY <2>2 DEF UnsettledKept, Messages, Message, Times
<1>11. SettledNamed' /\ DeadLettersPaired'
  BY <1>0, <1>1, <1>3 DEF SettledNamed, Named, DeadLettered, DeadLettersPaired, MessageId,
     Messages, Message
<1> QED
  BY <1>4, <1>5, <1>6, <1>8, <1>9, <1>10, <1>11 DEF KafkaInv

-----------------------------------------------------------------------------
(* The theorems.                                                             *)

LEMMA KafkaInitial ==
    ASSUME KafkaInit
    PROVE  KafkaInv
<1>0. OffsetHistory \in Nat \ {0} /\ BatchSize \in Nat \ {0} /\ MaxRetries \in Nat \ {0}
      /\ NoBatch \notin Batches
  BY KafkaAssumption
<1>1. Idle \in DrainerState /\ Idle.batch = NoBatch
  BY DEF Idle, DrainerState
<1>2. \A d \in Drainers : drainer[d] = Idle
  BY DEF KafkaInit
<1>3. KafkaTyped
  <2>1. content \in [Batches -> Seq(Messages)] /\ \A b \in Batches : Len(content[b]) <= BatchSize
    BY <1>0 DEF KafkaInit
  <2>2. recent \in [Partitions -> Seq(Nat)]
        /\ \A p \in Partitions : Len(recent[p]) <= OffsetHistory
    BY <1>0 DEF KafkaInit
  <2>3. drainer \in [Drainers -> DrainerState]
    BY <1>1 DEF KafkaInit
  <2>4. accepted \in [Partitions -> Seq(Nat)]
    BY DEF KafkaInit
  <2>5. retries \in [MessageIds -> 0..MaxRetries - 1]
    BY <1>0 DEF KafkaInit
  <2> QED
    BY <2>1, <2>2, <2>3, <2>4, <2>5 DEF KafkaInit, KafkaTyped, KafkaTypeOK, DrainerState
<1>4. EntriesFilled
  BY DEF EntriesFilled, EntryFilled, KafkaInit
<1>5. CallsHold
  BY <1>1, <1>2 DEF CallsHold, CallHolds
<1>6. ASSUME NEW m \in Messages PROVE Times(m) = 0 /\ Places(content, m) = {}
  <2>1. m.partition \in Partitions
    BY DEF Messages, Message
  <2>2. accepted[m.partition] = <<>>
    BY <2>1 DEF KafkaInit
  <2>3. Times(m) = Cardinality({})
    BY <2>2 DEF Times
  <2>4. \A b \in Batches : content[b] = <<>>
    BY DEF KafkaInit
  <2>5. Places(content, m) = {}
    BY <2>4 DEF Places
  <2> QED
    BY <2>3, <2>5, FS_EmptySet
<1>7. SettledOrHeld
  <2>1. ASSUME NEW m \in Messages PROVE handled[m] + Cardinality(Places(content, m)) <= Times(m)
    <3>1. Cardinality(Places(content, m)) = 0
      BY <1>6, FS_EmptySet
    <3>2. handled[m] = 0
      BY DEF KafkaInit
    <3> QED
      BY <1>6, <3>1, <3>2
  <2> QED
    BY <2>1 DEF SettledOrHeld
<1>8. HistoryKept /\ NoRecentDuplicate
  <2>1. \A p \in Partitions : recent[p] = <<>> /\ accepted[p] = <<>>
    BY DEF KafkaInit
  <2> QED
    BY <2>1 DEF HistoryKept, HistoryOf, NoRecentDuplicate
<1>9. DeadLettersPaired
  BY DEF DeadLettersPaired, KafkaInit
<1>10. UnsettledKept /\ SettledNamed
  <2>1. \A m \in Messages : handled[m] = 0
    BY DEF KafkaInit
  <2> QED
    BY <1>6, <2>1 DEF UnsettledKept, SettledNamed
<1> QED
  BY <1>3, <1>4, <1>5, <1>7, <1>8, <1>9, <1>10 DEF KafkaInv

\* A step that leaves batches, entries and histories alone.
LEMMA RestKept ==
    ASSUME KafkaInv, KafkaTyped', UNCHANGED <<batchAt, content, deadLetters, accepted, handled,
                                              outcome, late, recent>>
    PROVE  /\ SettledOrHeld' /\ HistoryKept' /\ DeadLettersPaired' /\ UnsettledKept'
           /\ SettledNamed' /\ NoRecentDuplicate'
<1>1. \A m \in Messages : Times(m)' = Times(m)
  BY DEF Times
<1>2. Buffered' = Buffered
  BY DEF Buffered
<1> QED
  BY <1>1, <1>2 DEF KafkaInv, SettledOrHeld, HistoryKept, DeadLettersPaired,
     UnsettledKept, SettledNamed, Named, DeadLettered, NoRecentDuplicate, MessageId

LEMMA KafkaStep ==
    ASSUME KafkaInv, [KafkaNext]_kafkaVars
    PROVE  KafkaInv'
<1>0. KafkaTyped /\ EntriesFilled /\ CallsHold /\ SettledOrHeld /\ HistoryKept
      /\ DeadLettersPaired /\ UnsettledKept /\ SettledNamed /\ NoRecentDuplicate
  BY DEF KafkaInv
<1>1. ASSUME NEW p \in Partitions, NEW o \in DOMAIN Topic[p], Deliver(p, o) PROVE KafkaInv'
  <2>1. CASE Refuses(p, o)
    BY <2>1, RefusesKept
  <2>2. ASSUME NEW b \in Batches, Takes(p, o, b) PROVE KafkaInv'
    <3>1. KafkaTyped' /\ EntriesFilled' /\ CallsHold'
      BY <1>0, <2>2, TakesTyped, TakesFilled, TakesHeld
    <3>2. SettledOrHeld' /\ HistoryKept' /\ NoRecentDuplicate' /\ UnsettledKept'
      BY <1>0, <2>2, TakesPlaces, PollsHistory, PollsNoDuplicate, TakesLoses DEF Takes
    <3>3. DeadLettersPaired' /\ SettledNamed'
      BY <1>0, <2>2 DEF Takes, Polls, DeadLettersPaired, SettledNamed, Named, DeadLettered,
         MessageId, Messages, Message
    <3> QED
      BY <3>1, <3>2, <3>3 DEF KafkaInv
  <2> QED
    BY <1>0, <1>1, <2>1, <2>2, DeliverTakes
<1>2. ASSUME NEW d \in Drainers, ProcessReadyBatches(d) PROVE KafkaInv'
  <2>1. KafkaTyped' /\ EntriesFilled' /\ CallsHold'
    BY <1>0, <1>2, ProcessTyped, ProcessHeld
  <2>2. UNCHANGED <<batchAt, content, deadLetters, accepted, handled, outcome, late,
                    recent>>
    BY <1>2 DEF ProcessReadyBatches
  <2> QED
    BY <2>1, <2>2, RestKept DEF KafkaInv
<1>3. ASSUME NEW d \in Drainers, BatchAnswered(d) PROVE KafkaInv'
  <2>1. KafkaTyped' /\ EntriesFilled' /\ CallsHold'
    BY <1>0, <1>3, AnswerTyped, AnswerHeld
  <2>2. SettledOrHeld' /\ DeadLettersPaired' /\ UnsettledKept' /\ SettledNamed'
    BY <1>0, <1>3, AnswerPlaces, AnswerPairs, AnswerLoses, AnswerNames
  <2>3. recent' = recent /\ accepted' = accepted
    BY <1>3 DEF BatchAnswered
  <2>4. HistoryKept' /\ NoRecentDuplicate'
    BY <1>0, <2>3 DEF HistoryKept, HistoryOf, NoRecentDuplicate
  <2> QED
    BY <2>1, <2>2, <2>4 DEF KafkaInv
<1>4. ASSUME StartConsumer \/ StopConsumer \/ UNCHANGED kafkaVars PROVE KafkaInv'
  <2>1. running' \in BOOLEAN
    BY <1>0, <1>4 DEF StartConsumer, StopConsumer, kafkaVars, KafkaTyped, KafkaTypeOK
  <2>2. UNCHANGED <<dlq, batchAt, content, recent, retries, drainer, counters, deadLetters,
                    accepted, handled, outcome, late>>
    BY <1>4 DEF StartConsumer, StopConsumer, kafkaVars
  <2>3. KafkaTyped'
    BY <1>0, <2>1, <2>2 DEF KafkaTyped, KafkaTypeOK
  <2>4. EntriesFilled' /\ CallsHold'
    BY <1>0, <2>2 DEF EntriesFilled, EntryFilled, CallsHold, CallHolds
  <2> QED
    BY <2>2, <2>3, <2>4, RestKept DEF KafkaInv
<1> QED
  BY <1>1, <1>2, <1>3, <1>4 DEF KafkaNext

\* The inductive invariant of the consumer.
THEOREM KafkaInvariant == KafkaSpec => []KafkaInv
<1>1. KafkaInit => KafkaInv
  BY KafkaInitial
<1>2. KafkaInv /\ [KafkaNext]_kafkaVars => KafkaInv'
  BY KafkaStep
<1> QED
  BY <1>1, <1>2, PTL DEF KafkaSpec

\* HighThroughputKafkaConsumer keeps the types of its state and the limits max_size and
\* _max_offset_history.
THEOREM KafkaTypeCorrect == KafkaSpec => []KafkaTypeOK
<1>1. KafkaInv => KafkaTypeOK
  BY DEF KafkaInv, KafkaTyped
<1> QED
  BY <1>1, KafkaInvariant, PTL

\* _handle_batch_results pairs a call's predictions with the messages they were made of,
\* although other calls and the poller may have changed the batch: a dead letter carries
\* the message whose predictions failed.
THEOREM LettersArePaired == KafkaSpec => []DeadLettersPaired
<1>1. KafkaInv => DeadLettersPaired
  BY DEF KafkaInv
<1> QED
  BY <1>1, KafkaInvariant, PTL

\* batch.clear() takes a settled message from every call that still holds the batch: no
\* message is settled more often than it was polled.
THEOREM SettledOnce == KafkaSpec => []HandledOnce
<1>1. KafkaInv => HandledOnce
  <2> SUFFICES ASSUME KafkaInv, NEW m \in Messages PROVE handled[m] <= Times(m)
    BY DEF HandledOnce
  <2>1. handled[m] \in Nat /\ Times(m) \in Nat /\ Cardinality(Places(content, m)) \in Nat
    BY TimesTyped, PlacesFinite DEF KafkaInv, KafkaTyped, KafkaTypeOK
  <2>2. handled[m] + Cardinality(Places(content, m)) <= Times(m)
    BY DEF KafkaInv, SettledOrHeld
  <2> QED
    BY <2>1, <2>2
<1> QED
  BY <1>1, KafkaInvariant, PTL

\* A polled message is buffered, predicted or dead-lettered, or lost in a way the code has a
\* line for: refused by a full batch, failed and not retried, failed too often and not
\* dead-lettered, or cleared with a batch it came to while a call waited for it.  Calls of
\* _process_ready_batches that overlap lose nothing else.
THEOREM LossesHaveNames == KafkaSpec => []LossesNamed
<1>1. KafkaInv => LossesNamed
  <2> SUFFICES ASSUME KafkaInv, NEW m \in Messages, Times(m) > 0
               PROVE  \/ m \in Buffered \cup outcome.predicted \cup DeadLettered
                      \/ m \in outcome.refused \cup outcome.unretried
                                  \cup outcome.undelivered \cup late
    BY DEF LossesNamed
  <2>1. handled[m] \in Nat
    BY DEF KafkaInv, KafkaTyped, KafkaTypeOK
  <2>2. CASE handled[m] = 0
    BY <2>2 DEF KafkaInv, UnsettledKept
  <2>3. CASE handled[m] > 0
    BY <2>3 DEF KafkaInv, SettledNamed, Named
  <2> QED
    BY <2>1, <2>2, <2>3
<1> QED
  BY <1>1, KafkaInvariant, PTL

\* _is_duplicate_message lets an offset in again only after _max_offset_history others of
\* its partition.
THEOREM DuplicatesAreOld == KafkaSpec => []NoRecentDuplicate
<1>1. KafkaInv => NoRecentDuplicate
  BY DEF KafkaInv
<1> QED
  BY <1>1, KafkaInvariant, PTL
=============================================================================
