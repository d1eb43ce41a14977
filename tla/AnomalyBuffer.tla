----------------------------- MODULE AnomalyBuffer -----------------------------
(***************************************************************************)
(* BoundedAnomalyBuffer (src/app/services/anomaly_buffer.py): anomalies in *)
(* insertion order, each with a time to live, at most MaxEntries of them.  *)
(* Every method works under the lock and is one step, but add() creates    *)
(* its entry, and with it the timestamp, before it takes the lock.  An     *)
(* entry has the name of the call of add() that creates it.                *)
(***************************************************************************)
EXTENDS Integers, Sequences, SequencesExt

CONSTANTS Entries,       \* calls of add()
          Ttl,           \* Ttl[e]: ttl_seconds of e
          MaxEntries,    \* max_size
          MaxBufferTime  \* bound: the clock

ASSUME BufferAssumption ==
    /\ Ttl \in [Entries -> Nat]
    /\ MaxEntries \in Nat \ {0}
    /\ MaxBufferTime \in Nat

VARIABLES buffer,       \* the keys of _buffer, in its order
          createdAt,    \* timestamp of each entry, -1 before add() is called
          bufferClock,  \* time.time()
          inserted      \* every entry ever inserted, in order

bufferVars == <<buffer, createdAt, bufferClock, inserted>>

BufferTypeOK ==
    /\ buffer \in Seq(Entries) /\ Len(buffer) <= MaxEntries /\ IsInjective(buffer)
    /\ createdAt \in [Entries -> -1..bufferClock]
    /\ bufferClock \in Nat
    /\ inserted \in Seq(Entries) /\ IsInjective(inserted)

BufferInit ==
    /\ buffer = <<>>
    /\ createdAt = [e \in Entries |-> -1]
    /\ bufferClock = 0
    /\ inserted = <<>>

IsExpired(e) == bufferClock - createdAt[e] > Ttl[e]

-----------------------------------------------------------------------------

BufferTick ==
    /\ bufferClock < MaxBufferTime
    /\ bufferClock' = bufferClock + 1
    /\ UNCHANGED <<buffer, createdAt, inserted>>

\* add() is called and creates its entry.
CreateEntry(e) ==
    /\ createdAt[e] = -1
    /\ createdAt' = [createdAt EXCEPT ![e] = bufferClock]
    /\ UNCHANGED <<buffer, bufferClock, inserted>>

\* Fault: the newest entry makes room.
InsertedOverNewest(e) ==
    Append(IF Len(buffer) >= MaxEntries THEN SubSeq(buffer, 1, Len(buffer) - 1) ELSE buffer, e)

\* Fault: room is made one entry too late.
InsertedTooMany(e) == Append(IF Len(buffer) > MaxEntries THEN Tail(buffer) ELSE buffer, e)

\* The buffer with e at its end; a full one loses its first entry.
Inserted(e) == Append(IF Len(buffer) >= MaxEntries THEN Tail(buffer) ELSE buffer, e)

\* The rest of add(), under the lock.
AddEntry(e) ==
    /\ createdAt[e] # -1 /\ e \notin ToSet(inserted)
    /\ buffer' = Inserted(e)
    /\ inserted' = Append(inserted, e)
    /\ UNCHANGED <<createdAt, bufferClock>>

\* get() removes the entry if it has expired; otherwise it changes nothing.
GetEntry(e) ==
    /\ IsExpired(e)
    /\ \E i \in DOMAIN buffer : buffer[i] = e /\ buffer' = RemoveAt(buffer, i)
    /\ UNCHANGED <<createdAt, bufferClock, inserted>>

Unexpired == {i \in DOMAIN buffer : ~IsExpired(buffer[i])}

\* cleanup_expired() keeps the entries that have not expired, in their order.
CleanupExpiredEntries ==
    /\ \E kept \in [1..Cardinality(Unexpired) -> Unexpired] :
         /\ \A j, k \in DOMAIN kept : j < k => kept[j] < kept[k]
         /\ buffer' = [k \in DOMAIN kept |-> buffer[kept[k]]]
    /\ UNCHANGED <<createdAt, bufferClock, inserted>>

BufferNext ==
    \/ BufferTick \/ CleanupExpiredEntries
    \/ \E e \in Entries : CreateEntry(e) \/ AddEntry(e) \/ GetEntry(e)

BufferSpec == BufferInit /\ [][BufferNext]_bufferVars

-----------------------------------------------------------------------------
(* Properties.                                                               *)

\* An anomaly that has not expired can be found until MaxEntries others have been
\* inserted after it, whatever is read and cleaned up and in whatever order the entries
\* expire (anomaly_buffer.py:113, :162).
LiveEntriesKept ==
    \A k \in DOMAIN inserted :
        /\ ~IsExpired(inserted[k]) /\ Len(inserted) - k < MaxEntries
        => inserted[k] \in ToSet(buffer)
=============================================================================
