-------------------------- MODULE AnomalyBufferProofs --------------------------
(***************************************************************************)
(* Proofs about AnomalyBuffer, for any set of anomalies, any lifetimes and *)
(* any limit: what the buffer has forgotten was expired or overtaken by    *)
(* max_size newer anomalies.                                               *)
(***************************************************************************)
EXTENDS AnomalyBuffer, FiniteSetTheorems, SequenceTheorems, TLAPS

-----------------------------------------------------------------------------
(* AnomalyBuffer.                                                            *)

\* Position k of inserted is that of the buffer's entry i, and no fewer entries have been
\* inserted since than there are behind it in the buffer.
InsertedAs(i, k) == inserted[k] = buffer[i] /\ Len(inserted) - k >= Len(buffer) - i

\* An entry that is not in the buffer has expired or has made room for another one.
Gone(e, k) == IsExpired(e) \/ Len(inserted) - k >= MaxEntries

BufferInv ==
    /\ BufferTypeOK
    /\ \A k \in DOMAIN inserted : createdAt[inserted[k]] # -1
    /\ \A i \in DOMAIN buffer : \E k \in DOMAIN inserted : InsertedAs(i, k)
    /\ \A k \in DOMAIN inserted : inserted[k] \in ToSet(buffer) \/ Gone(inserted[k], k)

LEMMA BufferInitInv == BufferInit => BufferInv
  BY BufferAssumption
  DEF BufferInit, BufferInv, BufferTypeOK, IsInjective

\* The elements of s from i on move one place to the front.
Shifted(r, s, i) ==
    Len(r) = Len(s) - 1 /\ \A k \in 1..Len(s) - 1 : r[k] = s[IF k < i THEN k ELSE k + 1]

LEMMA RemovedParts ==
    ASSUME NEW S, NEW s \in Seq(S), NEW i \in 1..Len(s)
    PROVE  /\ SubSeq(s, 1, i - 1) \o SubSeq(s, i + 1, Len(s)) \in Seq(S)
           /\ Shifted(SubSeq(s, 1, i - 1) \o SubSeq(s, i + 1, Len(s)), s, i)
<1> DEFINE front == SubSeq(s, 1, i - 1)
           back == SubSeq(s, i + 1, Len(s))
           m == i - 1
           l == Len(s) - i
<1>0. Len(s) \in Nat /\ i \in Nat /\ m \in Nat /\ l \in Nat /\ i = m + 1 /\ Len(s) = m + 1 + l
  OBVIOUS
<1>1. /\ front \in Seq(S) /\ Len(front) = m /\ \A k \in 1..m : front[k] = s[k]
  BY <1>0
<1>2. /\ back \in Seq(S) /\ Len(back) = l /\ \A k \in 1..l : back[k] = s[i + k]
  <2> DEFINE n == Len(s)
             h == i + 1
  <2>1. n \in Int /\ h \in Int /\ \A j \in h..n : s[j] \in S
    BY <1>0
  <2> HIDE DEF n, h
  <2>2. /\ SubSeq(s, h, n) \in Seq(S)
        /\ Len(SubSeq(s, h, n)) = IF h <= n THEN n - h + 1 ELSE 0
        /\ \A k \in 1..(n - h + 1) : SubSeq(s, h, n)[k] = s[h + k - 1]
    BY <2>1, SubSeqProperties
  <2>3. n - h + 1 = l /\ (h <= n <=> l > 0) /\ \A k \in 1..l : h + k - 1 = i + k
    BY <1>0 DEF n, h
  <2>4. Len(SubSeq(s, h, n)) = l
    BY <1>0, <2>2, <2>3
  <2>5. \A k \in 1..l : SubSeq(s, h, n)[k] = s[i + k]
    BY <2>2, <2>3
  <2> QED
    BY <2>2, <2>4, <2>5 DEF n, h
<1> HIDE DEF front, back, m, l
<1>3. /\ front \o back \in Seq(S) /\ Len(front \o back) = m + l
  BY <1>0, <1>1, <1>2
<1>4. ASSUME NEW k \in 1..(m + l) PROVE (front \o back)[k] = s[IF k < i THEN k ELSE k + 1]
  <2>1. CASE k <= m
    BY <1>0, <1>1, <1>2, <2>1
  <2>2. CASE k > m
    <3>1. k - m \in 1..l /\ i + (k - m) = k + 1 /\ ~(k < i)
      BY <1>0, <2>2
    <3>2. (front \o back)[k] = back[k - m]
      BY <1>0, <1>1, <1>2, <2>2
    <3> QED
      BY <1>2, <3>1, <3>2
  <2>3. k <= m \/ k > m
    BY <1>0
  <2> QED
    BY <2>1, <2>2, <2>3
<1>5. Len(s) - 1 = m + l
  BY <1>0
<1> QED
  BY <1>3, <1>4, <1>5 DEF front, back, Shifted

\* A step that keeps the entries at the positions kept[1], kept[2], ... of the buffer.
Keeps(kept, n) ==
    /\ n \in 0..Len(buffer) /\ kept \in [1..n -> DOMAIN buffer]
    /\ \A j, k \in 1..n : j < k => kept[j] < kept[k]
    /\ buffer' = [k \in 1..n |-> buffer[kept[k]]]

\* Of an entry that is kept no fewer entries are behind than before.
LEMMA KeptGap ==
    ASSUME NEW n \in Nat, NEW m \in Nat, NEW f \in [1..n -> 1..m],
           \A j, k \in 1..n : j < k => f[j] < f[k], NEW i \in 1..n
    PROVE  m - f[i] >= n - i
<1> DEFINE g == [j \in i..n |-> f[j]]
<1>1. g \in Injection(i..n, f[i]..m)
  <2>1. \A j \in i..n : g[j] \in f[i]..m
    OBVIOUS
  <2>2. \A j, k \in i..n : g[j] = g[k] => j = k
    OBVIOUS
  <2> HIDE DEF g
  <2>3. g \in [i..n -> f[i]..m]
    BY <2>1 DEF g
  <2> QED
    BY <2>2, <2>3 DEF Injection, IsInjective
<1>2. Cardinality(i..n) = n - i + 1
  BY FS_Interval
<1>3. IsFiniteSet(f[i]..m) /\ Cardinality(f[i]..m) = m - f[i] + 1
  BY FS_Interval
<1> HIDE DEF g
<1>4. Cardinality(i..n) <= Cardinality(f[i]..m)
  BY <1>1, <1>3, FS_Injection
<1> QED
  BY <1>2, <1>3, <1>4

\* Expired entries can leave the buffer, whoever removes them.
LEMMA KeepStep ==
    ASSUME BufferInv, UNCHANGED <<createdAt, bufferClock, inserted>>,
           NEW n, NEW kept, Keeps(kept, n),
           \A i \in DOMAIN buffer : (\E k \in 1..n : kept[k] = i) \/ IsExpired(buffer[i])
    PROVE  BufferInv'
<1>0. /\ buffer \in Seq(Entries) /\ Len(buffer) \in Nat /\ DOMAIN buffer = 1..Len(buffer)
      /\ inserted \in Seq(Entries) /\ Len(inserted) \in Nat
      /\ n \in Nat /\ kept \in [1..n -> 1..Len(buffer)]
  <2>1. /\ buffer \in Seq(Entries) /\ inserted \in Seq(Entries)
        /\ n \in 0..Len(buffer) /\ kept \in [1..n -> DOMAIN buffer]
    BY DEF BufferInv, BufferTypeOK, Keeps
  <2>2. DOMAIN buffer = 1..Len(buffer) /\ Len(buffer) \in Nat /\ Len(inserted) \in Nat
    BY <2>1
  <2> QED
    BY <2>1, <2>2
<1>1. /\ buffer' \in Seq(Entries) /\ Len(buffer') = n
      /\ DOMAIN buffer' = 1..n /\ \A k \in 1..n : buffer'[k] = buffer[kept[k]]
  BY <1>0 DEF Keeps
<1>2. \A j, k \in 1..n : kept[j] = kept[k] => j = k
  BY <1>0 DEF Keeps
<1>3. BufferTypeOK'
  <2>1. n <= MaxEntries
    BY <1>0, BufferAssumption DEF Keeps, BufferInv, BufferTypeOK
  <2>2. IsInjective(buffer')
    BY <1>0, <1>1, <1>2 DEF BufferInv, BufferTypeOK, IsInjective
  <2> QED
    BY <1>1, <2>1, <2>2 DEF BufferInv, BufferTypeOK
<1>4. ASSUME NEW i \in 1..n PROVE (\E k \in DOMAIN inserted : InsertedAs(i, k))'
  <2>1. PICK k \in DOMAIN inserted : InsertedAs(kept[i], k)
    BY <1>0 DEF BufferInv
  <2>2. Len(buffer) - kept[i] >= n - i
    BY <1>0, KeptGap DEF Keeps
  <2>3. InsertedAs(i, k)'
    BY <1>0, <1>1, <2>1, <2>2 DEF InsertedAs
  <2> QED
    BY <2>3
<1>5. ASSUME NEW k \in DOMAIN inserted
      PROVE  (inserted[k] \in ToSet(buffer) \/ Gone(inserted[k], k))'
  <2>1. CASE inserted[k] \in ToSet(buffer)
    <3>1. PICK i \in DOMAIN buffer : buffer[i] = inserted[k]
      BY <2>1 DEF ToSet
    <3>2. CASE IsExpired(buffer[i])
      BY <3>1, <3>2 DEF Gone, IsExpired
    <3>3. ASSUME NEW j \in 1..n, kept[j] = i PROVE inserted[k] \in ToSet(buffer')
      BY <1>1, <3>1, <3>3 DEF ToSet
    <3> QED
      BY <3>1, <3>2, <3>3
  <2>2. CASE Gone(inserted[k], k)
    BY <2>2 DEF Gone, IsExpired
  <2> QED
    BY <2>1, <2>2 DEF BufferInv
<1> QED
  BY <1>1, <1>3, <1>4, <1>5 DEF BufferInv

\* add() makes room at the front and puts the new entry at the end.
LEMMA AddStep ==
    ASSUME BufferInv, NEW e \in Entries, AddEntry(e)
    PROVE  BufferInv'
<1> DEFINE old == IF Len(buffer) >= MaxEntries THEN Tail(buffer) ELSE buffer
           gone == IF Len(buffer) >= MaxEntries THEN 1 ELSE 0
<1>0. /\ buffer \in Seq(Entries) /\ Len(buffer) \in Nat /\ DOMAIN buffer = 1..Len(buffer)
      /\ inserted \in Seq(Entries) /\ Len(inserted) \in Nat
      /\ DOMAIN inserted = 1..Len(inserted)
      /\ MaxEntries \in Nat \ {0} /\ Len(buffer) <= MaxEntries
  BY BufferAssumption DEF BufferInv, BufferTypeOK
<1>1. /\ inserted' = Append(inserted, e) /\ buffer' = Append(old, e)
      /\ UNCHANGED <<createdAt, bufferClock>> /\ createdAt[e] # -1 /\ e \notin ToSet(inserted)
  BY DEF AddEntry, Inserted
<1>2. /\ old \in Seq(Entries) /\ Len(old) = Len(buffer) - gone
      /\ \A i \in 1..Len(old) : old[i] = buffer[i + gone]
  <2>1. CASE Len(buffer) >= MaxEntries
    <3>1. buffer # <<>>
      BY <1>0, <2>1
    <3> QED
      BY <1>0, <2>1, <3>1
  <2>2. CASE ~(Len(buffer) >= MaxEntries)
    BY <1>0, <2>2
  <2> QED
    BY <2>1, <2>2
<1>3. gone \in {0, 1} /\ gone <= Len(buffer) /\ Len(buffer) - gone < MaxEntries
  BY <1>0
<1>4. gone = 1 => Len(buffer) = MaxEntries
  <2>1. ASSUME Len(buffer) >= MaxEntries PROVE Len(buffer) = MaxEntries
    <3>1. Len(buffer) \in Nat /\ MaxEntries \in Nat /\ Len(buffer) <= MaxEntries
      BY <1>0
    <3> HIDE DEF old, gone
    <3> QED
      BY <2>1, <3>1
  <2>2. CASE ~(Len(buffer) >= MaxEntries)
    BY <2>2
  <2> QED
    BY <2>1, <2>2
<1> HIDE DEF old, gone
<1>5. /\ inserted' \in Seq(Entries) /\ Len(inserted') = Len(inserted) + 1
      /\ DOMAIN inserted' = 1..(Len(inserted) + 1)
      /\ inserted'[Len(inserted) + 1] = e
      /\ \A k \in 1..Len(inserted) : inserted'[k] = inserted[k]
  BY <1>0, <1>1
<1>6. /\ buffer' \in Seq(Entries) /\ Len(buffer') = Len(buffer) - gone + 1
      /\ DOMAIN buffer' = 1..(Len(buffer) - gone + 1)
      /\ buffer'[Len(buffer) - gone + 1] = e
      /\ \A i \in 1..(Len(buffer) - gone) : buffer'[i] = buffer[i + gone]
  BY <1>0, <1>1, <1>2, <1>3
<1>7. \A k \in 1..Len(inserted) : inserted[k] # e
  BY <1>0, <1>1 DEF ToSet
<1>8. \A i \in 1..Len(buffer) : buffer[i] # e
  BY <1>0, <1>7 DEF BufferInv, InsertedAs
<1>9. BufferTypeOK'
  <2>1. IsInjective(inserted')
    <3> SUFFICES ASSUME NEW i \in 1..(Len(inserted) + 1), NEW j \in 1..(Len(inserted) + 1),
                        inserted'[i] = inserted'[j]
                 PROVE  i = j
      BY <1>5 DEF IsInjective
    <3>1. Len(inserted) \in Nat
          /\ \A k, l \in 1..Len(inserted) : inserted[k] = inserted[l] => k = l
      BY <1>0 DEF BufferInv, BufferTypeOK, IsInjective
    <3>2. CASE i = Len(inserted) + 1 /\ j # Len(inserted) + 1
      <4>1. j \in 1..Len(inserted)
        BY <3>1, <3>2
      <4> QED
        BY <1>5, <1>7, <3>2, <4>1
    <3>3. CASE i # Len(inserted) + 1 /\ j = Len(inserted) + 1
      <4>1. i \in 1..Len(inserted)
        BY <3>1, <3>3
      <4> QED
        BY <1>5, <1>7, <3>3, <4>1
    <3>4. CASE i # Len(inserted) + 1 /\ j # Len(inserted) + 1
      <4>1. i \in 1..Len(inserted) /\ j \in 1..Len(inserted)
        BY <3>1, <3>4
      <4> QED
        BY <1>5, <3>1, <4>1
    <3> QED
      BY <3>2, <3>3, <3>4
  <2>2. IsInjective(buffer')
    <3> SUFFICES ASSUME NEW i \in 1..(Len(buffer) - gone + 1),
                        NEW j \in 1..(Len(buffer) - gone + 1), buffer'[i] = buffer'[j]
                 PROVE  i = j
      BY <1>6 DEF IsInjective
    <3>1. ASSUME NEW k \in 1..(Len(buffer) - gone + 1)
          PROVE  \/ k = Len(buffer) - gone + 1 /\ buffer'[k] = e
                 \/ /\ k \in 1..(Len(buffer) - gone) /\ k + gone \in 1..Len(buffer)
                    /\ buffer'[k] = buffer[k + gone] /\ buffer'[k] # e
      <4>1. CASE k = Len(buffer) - gone + 1
        BY <1>6, <4>1
      <4>2. CASE k # Len(buffer) - gone + 1
        <5>1. k \in 1..(Len(buffer) - gone) /\ k + gone \in 1..Len(buffer)
          BY <1>0, <1>3, <4>2
        <5> QED
          BY <1>6, <1>8, <5>1
      <4> QED
        BY <4>1, <4>2
    <3>2. \A k, l \in 1..Len(buffer) : buffer[k] = buffer[l] => k = l
      BY <1>0 DEF BufferInv, BufferTypeOK, IsInjective
    <3>3. CASE i = Len(buffer) - gone + 1 \/ j = Len(buffer) - gone + 1
      <4>1. (i = Len(buffer) - gone + 1) <=> buffer'[i] = e
        BY <1>6, <3>1
      <4>2. (j = Len(buffer) - gone + 1) <=> buffer'[j] = e
        BY <1>6, <3>1
      <4> QED
        BY <3>3, <4>1, <4>2
    <3>4. CASE i # Len(buffer) - gone + 1 /\ j # Len(buffer) - gone + 1
      <4>1. i + gone = j + gone
        BY <3>1, <3>2, <3>4
      <4> QED
        BY <1>0, <1>3, <4>1
    <3> QED
      BY <3>3, <3>4
  <2> QED
    BY <1>0, <1>1, <1>3, <1>5, <1>6, <2>1, <2>2 DEF BufferInv, BufferTypeOK
<1>10. ASSUME NEW i \in DOMAIN buffer' PROVE \E k \in DOMAIN inserted' : InsertedAs(i, k)'
  <2>1. CASE i = Len(buffer) - gone + 1
    <3>0. PICK k \in Nat : k = Len(inserted) + 1
      BY <1>0
    <3>1. inserted'[k] = buffer'[i]
      BY <1>5, <1>6, <2>1, <3>0
    <3>2. Len(inserted') - k >= Len(buffer') - i
      BY <1>0, <1>3, <1>5, <1>6, <2>1, <3>0
    <3>3. k \in DOMAIN inserted'
      BY <1>0, <1>5, <3>0
    <3> QED
      BY <3>1, <3>2, <3>3 DEF InsertedAs
  <2>2. CASE i \in 1..(Len(buffer) - gone)
    <3>1. i + gone \in 1..Len(buffer)
      BY <1>0, <1>3, <2>2
    <3>2. PICK k \in DOMAIN inserted : InsertedAs(i + gone, k)
      BY <1>0, <3>1 DEF BufferInv
    <3>3. inserted'[k] = buffer'[i]
      BY <1>0, <1>5, <1>6, <2>2, <3>2 DEF InsertedAs
    <3>4. Len(inserted) - k >= Len(buffer) - (i + gone) /\ k \in 1..Len(inserted)
      BY <1>0, <3>2 DEF InsertedAs
    <3>5. Len(inserted') - k >= Len(buffer') - i /\ k \in DOMAIN inserted'
      BY <1>0, <1>3, <1>5, <1>6, <2>2, <3>4
    <3> QED
      BY <3>3, <3>5 DEF InsertedAs
  <2> QED
    BY <1>0, <1>3, <1>6, <2>1, <2>2
<1>11. ASSUME NEW k \in DOMAIN inserted'
       PROVE  (inserted[k] \in ToSet(buffer) \/ Gone(inserted[k], k))'
  <2>1. CASE k = Len(inserted) + 1
    BY <1>0, <1>3, <1>5, <1>6, <2>1 DEF ToSet
  <2>2. ASSUME k \in 1..Len(inserted), Gone(inserted[k], k) PROVE Gone(inserted[k], k)'
    BY <1>0, <1>1, <1>5, <2>2 DEF Gone, IsExpired
  <2>3. ASSUME k \in 1..Len(inserted), inserted[k] \in ToSet(buffer)
        PROVE  inserted'[k] \in ToSet(buffer') \/ Len(inserted') - k >= MaxEntries
    <3>1. PICK i \in 1..Len(buffer) : buffer[i] = inserted[k]
      BY <1>0, <2>3 DEF ToSet
    <3>2. CASE i > gone
      <4>1. i - gone \in 1..(Len(buffer) - gone) /\ (i - gone) + gone = i
        BY <1>0, <1>3, <3>2
      <4>2. buffer'[i - gone] = inserted'[k]
        BY <1>5, <1>6, <2>3, <3>1, <4>1
      <4>3. i - gone \in DOMAIN buffer'
        BY <1>0, <1>3, <1>6, <4>1
      <4> QED
        BY <4>2, <4>3 DEF ToSet
    <3>3. CASE i = 1 /\ gone = 1
      <4>1. PICK j \in 1..Len(inserted) : InsertedAs(1, j)
        BY <1>0, <3>3 DEF BufferInv
      <4>2. j = k
        BY <1>0, <2>3, <3>1, <3>3, <4>1 DEF InsertedAs, BufferInv, BufferTypeOK, IsInjective
      <4> QED
        BY <1>0, <1>4, <1>5, <3>3, <4>1, <4>2 DEF InsertedAs
    <3> QED
      BY <1>0, <1>3, <3>2, <3>3
  <2>4. CASE k \in 1..Len(inserted)
    BY <1>0, <1>5, <2>2, <2>3, <2>4 DEF BufferInv, Gone
  <2> QED
    BY <1>0, <1>5, <2>1, <2>4
<1>12. \A k \in DOMAIN inserted' : createdAt'[inserted'[k]] # -1
  BY <1>0, <1>1, <1>5 DEF BufferInv
<1> QED
  BY <1>9, <1>10, <1>11, <1>12 DEF BufferInv

LEMMA BufferStepInv == BufferInv /\ [BufferNext]_bufferVars => BufferInv'
<1> SUFFICES ASSUME BufferInv, [BufferNext]_bufferVars PROVE BufferInv'
  OBVIOUS
<1>0. /\ buffer \in Seq(Entries) /\ Len(buffer) \in Nat /\ DOMAIN buffer = 1..Len(buffer)
  BY DEF BufferInv, BufferTypeOK
<1>1. CASE BufferTick
  <2>1. BufferTypeOK'
    BY <1>1 DEF BufferTick, BufferInv, BufferTypeOK
  <2>2. ASSUME NEW e \in Entries, IsExpired(e) PROVE IsExpired(e)'
    BY <1>1, <2>2, BufferAssumption DEF BufferTick, IsExpired, BufferInv, BufferTypeOK
  <2> QED
    BY <1>1, <2>1, <2>2 DEF BufferTick, BufferInv, BufferTypeOK, InsertedAs, Gone
<1>2. ASSUME NEW e \in Entries, CreateEntry(e) PROVE BufferInv'
  <2>1. BufferTypeOK'
    BY <1>2 DEF CreateEntry, BufferInv, BufferTypeOK
  <2>2. ASSUME NEW k \in DOMAIN inserted PROVE createdAt'[inserted[k]] = createdAt[inserted[k]]
    BY <1>2 DEF CreateEntry, BufferInv, BufferTypeOK
  <2> QED
    BY <1>2, <2>1, <2>2 DEF CreateEntry, BufferInv, InsertedAs, Gone, IsExpired
<1>3. ASSUME NEW e \in Entries, AddEntry(e) PROVE BufferInv'
  BY <1>3, AddStep
<1>4. ASSUME NEW e \in Entries, GetEntry(e) PROVE BufferInv'
  <2>1. PICK i \in DOMAIN buffer : buffer[i] = e /\ buffer' = RemoveAt(buffer, i)
    BY <1>4 DEF GetEntry
  <2> DEFINE n == Len(buffer) - 1
             kept == [k \in 1..n |-> IF k < i THEN k ELSE k + 1]
  <2>2. /\ n \in 0..Len(buffer) /\ kept \in [1..n -> DOMAIN buffer]
        /\ \A j, k \in 1..n : j < k => kept[j] < kept[k]
    BY <1>0
  <2>3. buffer' = [k \in 1..n |-> buffer[kept[k]]]
    <3>1. buffer' = SubSeq(buffer, 1, i - 1) \o SubSeq(buffer, i + 1, Len(buffer))
      BY <2>1 DEF RemoveAt
    <3>2. i \in 1..Len(buffer)
      BY <1>0
    <3>3. /\ Len(buffer') = n /\ buffer' \in Seq(Entries)
          /\ \A k \in 1..n : buffer'[k] = buffer[kept[k]]
      BY <1>0, <3>1, <3>2, RemovedParts DEF Shifted
    <3> HIDE DEF kept
    <3>4. buffer' = [k \in 1..n |-> buffer'[k]]
      BY <3>3
    <3> QED
      BY <3>3, <3>4
  <2>4. \A j \in DOMAIN buffer \ {i} : \E k \in 1..n : kept[k] = j
    <3> SUFFICES ASSUME NEW j \in DOMAIN buffer \ {i} PROVE \E k \in 1..n : kept[k] = j
      OBVIOUS
    <3>1. CASE j < i
      BY <1>0, <3>1
    <3>2. CASE j > i
      <4>1. j - 1 \in 1..n /\ kept[j - 1] = j
        BY <1>0, <3>2
      <4> QED
        BY <4>1
    <3> QED
      BY <1>0, <3>1, <3>2
  <2>5. IsExpired(buffer[i]) /\ UNCHANGED <<createdAt, bufferClock, inserted>>
    BY <1>4, <2>1 DEF GetEntry
  <2>6. Keeps(kept, n)
    BY <2>2, <2>3 DEF Keeps
  <2> HIDE DEF n, kept
  <2> QED
    BY <2>4, <2>5, <2>6, KeepStep
<1>5. CASE CleanupExpiredEntries
  <2> DEFINE n == Cardinality(Unexpired)
  <2>1. PICK kept \in [1..n -> Unexpired] :
            /\ \A j, k \in DOMAIN kept : j < k => kept[j] < kept[k]
            /\ buffer' = [k \in DOMAIN kept |-> buffer[kept[k]]]
    BY <1>5 DEF CleanupExpiredEntries
  <2>2. Unexpired \in SUBSET (1..Len(buffer))
    BY <1>0 DEF Unexpired
  <2>3. IsFiniteSet(1..Len(buffer)) /\ Cardinality(1..Len(buffer)) = Len(buffer)
    <3> DEFINE m == Len(buffer)
    <3>1. m \in Nat
      BY <1>0
    <3> HIDE DEF m
    <3>2. IsFiniteSet(1..m) /\ Cardinality(1..m) = m
      BY <3>1, FS_Interval
    <3> QED
      BY <3>2 DEF m
  <2>4. IsFiniteSet(Unexpired) /\ n \in Nat /\ n <= Len(buffer)
    <3>1. IsFiniteSet(Unexpired) /\ n <= Cardinality(1..Len(buffer))
      BY <2>2, <2>3, FS_Subset
    <3> QED
      BY <2>3, <3>1, FS_CardinalityType
  <2>5. Cardinality(1..n) = n
    BY <2>4, FS_Interval
  <2> HIDE DEF n
  <2>6. kept \in Injection(1..n, Unexpired)
    <3>1. \A j, k \in 1..n : j < k => kept[j] < kept[k]
      BY <2>1
    <3>2. ASSUME NEW j \in 1..n PROVE kept[j] \in Nat
      <4>1. kept[j] \in Unexpired
        BY <2>1
      <4>2. kept[j] \in 1..Len(buffer) /\ Len(buffer) \in Nat
        BY <1>0, <2>2, <4>1
      <4> QED
        BY <4>2
    <3>3. \A j, k \in 1..n : kept[j] = kept[k] => j = k
      BY <2>4, <3>1, <3>2
    <3> QED
      BY <2>1, <3>3 DEF Injection, IsInjective
  <2>7. kept \in Surjection(1..n, Unexpired)
    BY <2>4, <2>5, <2>6, FS_Injection DEF n
  <2>8. Keeps(kept, n)
    <3>1. n \in 0..Len(buffer)
      BY <1>0, <2>4
    <3>2. kept \in [1..n -> DOMAIN buffer] /\ DOMAIN kept = 1..n
      BY <1>0, <2>1, <2>2
    <3> QED
      BY <2>1, <3>1, <3>2 DEF Keeps
  <2>9. \A i \in DOMAIN buffer : (\E k \in 1..n : kept[k] = i) \/ IsExpired(buffer[i])
    BY <2>7 DEF Surjection, Unexpired
  <2>10. UNCHANGED <<createdAt, bufferClock, inserted>>
    BY <1>5 DEF CleanupExpiredEntries
  <2> QED
    BY <2>8, <2>9, <2>10, KeepStep
<1>6. CASE UNCHANGED bufferVars
  BY <1>6 DEF bufferVars, BufferInv, BufferTypeOK, InsertedAs, Gone, IsExpired
<1> QED
  BY <1>1, <1>2, <1>3, <1>4, <1>5, <1>6 DEF BufferNext

\* What every reachable state of the buffer satisfies.
THEOREM BufferInvariant == BufferSpec => []BufferInv
  BY BufferInitInv, BufferStepInv, PTL DEF BufferSpec

\* Whether get, add or the clean-up removes entries, an anomaly that has not expired stays
\* in the buffer until max_size others have been added after it (anomaly_buffer.py).
THEOREM LiveEntriesFound == BufferSpec => []LiveEntriesKept
<1>1. BufferInv => LiveEntriesKept
  BY BufferAssumption DEF BufferInv, BufferTypeOK, LiveEntriesKept, Gone
<1> QED
  BY <1>1, BufferInvariant, PTL
=============================================================================
