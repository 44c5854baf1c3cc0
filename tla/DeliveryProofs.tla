--------------------------- MODULE DeliveryProofs ----------------------------
(***************************************************************************)
(* Proofs about the payload path of a Zeus server and the confirmations it *)
(* sends, for every cache budget, burst size, channel capacity and number  *)
(* of transactions.                                                        *)
(***************************************************************************)
EXTENDS ZeusDelivery, DataLemmas

----------------------------------------------------------------------------
\* Height of the last block the committer has taken from its queue.
Taken == committed_high - Len(commit_items)

\* A value of the committer's queue.
Item == [height : Nat, resident : BOOLEAN]

StoreTyped ==
    /\ payload \in Seq(Seq(Nat)) /\ order \in Seq(Nat)
    /\ write_queue \in Seq(Nat) /\ disk \in SUBSET Nat
    /\ committed_high \in 0 .. Len(payload)
    /\ commit_items \in Seq(Item)
    /\ emitting \in Nat /\ emitted_high \in Nat

\* The cache holds the last blocks of the chain, in order.
CacheIsTail ==
    /\ Len(order) <= Len(payload)
    /\ \A i \in 1 .. Len(order) : order[i] = Len(payload) - Len(order) + i

\* The committer's queue holds the heights from Taken to committed_high, and
\* the watermark is at Taken, or one below while Taken is being emitted.
QueueIsContiguous ==
    /\ Taken \in Nat
    /\ \A i \in 1 .. Len(commit_items) : commit_items[i].height = Taken + i
    /\ IF emitting = 0 THEN emitted_high = Taken
                       ELSE emitting = Taken /\ emitted_high = Taken - 1

\* The inductive invariant of the store.
StoreInv == StoreTyped /\ CacheIsTail /\ QueueIsContiguous /\ UnemittedKept

----------------------------------------------------------------------------
PathTyped ==
    /\ tx_id \in Nat
    /\ to_server \in Seq(Seq(Nat)) /\ batch \in Seq(Nat)
    /\ registrations \in Seq(Nat) /\ ingress \in Seq(Nat) /\ batcher \in Seq(Nat)
    /\ fanout \in Seq(Seq(Nat)) /\ sink \in Seq(Nat) /\ for_confirm \in Seq(Seq(Nat))
    /\ pending \in SUBSET Nat /\ to_client \in SUBSET Nat
    /\ latency_hist \in SUBSET Nat

\* What the router was told of, confirmed or not.
Known == pending \cup ToSet(registrations) \cup to_client \cup latency_hist

\* Transactions reach the listener in the order the client made them: what it
\* has yet to register is above all it has registered.
Unregistered ==
    /\ \A t \in Known : /\ \A j \in 2 .. Len(batch) : t < batch[j]
                        /\ \A k \in DOMAIN to_server : \A j \in DOMAIN to_server[k] :
                              t < to_server[k][j]
    /\ \A i, j \in DOMAIN batch : i < j => batch[i] < batch[j]
    /\ \A i \in DOMAIN batch : \A k \in DOMAIN to_server : \A j \in DOMAIN to_server[k] :
          batch[i] < to_server[k][j]

\* The batches on the way to the server are ascending, one after the other.
BatchesAscend ==
    /\ \A k \in DOMAIN to_server : \A i, j \in DOMAIN to_server[k] :
          i < j => to_server[k][i] < to_server[k][j]
    /\ \A k, l \in DOMAIN to_server :
          k < l => \A i \in DOMAIN to_server[k], j \in DOMAIN to_server[l] :
                      to_server[k][i] < to_server[l][j]

\* Nothing is anywhere that the client did not make.
MadeByClient ==
    /\ \A t \in Known : t <= tx_id
    /\ \A i \in DOMAIN batch : batch[i] <= tx_id
    /\ \A k \in DOMAIN to_server : \A j \in DOMAIN to_server[k] : to_server[k][j] <= tx_id

\* A transaction is registered once, and stays so until it is confirmed.
RegisteredOnce ==
    /\ \A i, j \in DOMAIN registrations : registrations[i] = registrations[j] => i = j
    /\ pending \cap ToSet(registrations) = {}
    /\ (to_client \cup latency_hist) \cap (pending \cup ToSet(registrations)) = {}

\* The router hears of a committed batch after the application.
RouterAfterSink ==
    /\ \A k \in DOMAIN for_confirm : ToSet(for_confirm[k]) \subseteq ToSet(sink)
    /\ to_client \cup latency_hist \subseteq ToSet(sink)

\* The inductive invariant of the confirmations.
ConfirmInv ==
    /\ PathTyped /\ Unregistered /\ BatchesAscend /\ MadeByClient
    /\ RegisteredOnce /\ RouterAfterSink

----------------------------------------------------------------------------
\* What the application got and will get from the fan-out is the payload of the
\* blocks taken so far.
DeliveredInOrder ==
    sink \o FlattenSeq(fanout) = FlattenSeq(SubSeq(payload, 1, Taken))

\* The inductive invariant of the server.
DeliveryInv == StoreInv /\ ConfirmInv /\ DeliveredInOrder

----------------------------------------------------------------------------
\* After k evictions the rest is within the budget, or one block.
StopsAt(blocks, heights, resident, k) ==
    \/ resident - Bytes(blocks, SubSeq(heights, 1, k)) <= CapBytes
    \/ k = Len(heights) - 1

\* cache_put stops evicting while one block is left, and only then or within the
\* budget.
LEMMA EvictionsBound ==
    ASSUME NEW blocks, NEW heights \in Seq(Nat), heights # <<>>, NEW resident
    PROVE  /\ Evictions(blocks, heights, resident) \in 0 .. Len(heights) - 1
           /\ StopsAt(blocks, heights, resident, Evictions(blocks, heights, resident))
<1> DEFINE n == Len(heights) - 1
           stops == {k \in 0 .. n : \/ resident - Bytes(blocks, SubSeq(heights, 1, k)) <= CapBytes
                                    \/ k = n}
<1>1. n \in Nat
  OBVIOUS
<1>2. n \in stops /\ stops \subseteq 0 .. n /\ stops \subseteq Nat
  BY <1>1
<1>3. Evictions(blocks, heights, resident) = Min(stops)
  BY DEF Evictions
<1> HIDE DEF stops, n
<1>4. \E x \in stops : \A y \in stops : x <= y
  BY <1>2, LeastNat
<1>5. Min(stops) \in stops
  BY <1>4 DEF Min
<1>6. PICK k \in stops : k = Evictions(blocks, heights, resident)
  BY <1>3, <1>5
<1>7. /\ k \in 0 .. n
      /\ StopsAt(blocks, heights, resident, k)
  BY <1>6 DEF stops, StopsAt, n
<1> QED BY <1>6, <1>7 DEF n

\* Of an ascending sequence, Above keeps every height over the watermark.
LEMMA AboveKeeps ==
    ASSUME NEW ev \in Seq(Nat), NEW w \in Nat,
           \A i, j \in 1 .. Len(ev) : i < j => ev[i] < ev[j]
    PROVE  /\ Above(ev, w) \in Seq(Nat)
           /\ \A h \in ToSet(ev) : h > w => h \in ToSet(Above(ev, w))
<1> DEFINE n == Len(ev)
           low == {0} \cup {i \in DOMAIN ev : ev[i] <= w}
           d == Max(low)
<1>1. /\ n \in Nat /\ DOMAIN ev = 1 .. n
      /\ \A i \in 1 .. n : ev[i] \in Nat
      /\ \A i, j \in 1 .. n : i < j => ev[i] < ev[j]
  OBVIOUS
<1>2. low \subseteq Nat /\ low # {} /\ \A x \in low : x <= n
  BY <1>1
<1>3. Above(ev, w) = SubSeq(ev, d + 1, n)
  BY DEF Above
<1>4. \A i \in 1 .. n : ev[i] <= w => i \in low
  BY <1>1
<1>5. \A i \in low : i = 0 \/ (i \in 1 .. n /\ ev[i] <= w)
  BY <1>1
<1> HIDE DEF low, n
<1>6. \E x \in low : \A y \in low : x >= y
  BY <1>1, <1>2, GreatestNat
<1>7. d \in low /\ \A y \in low : d >= y
  BY <1>6 DEF Max
<1> HIDE DEF d
<1>8. d \in 0 .. n
  BY <1>1, <1>2, <1>7
<1>9. \A i \in 1 .. n : ev[i] > w => i > d
  <2> SUFFICES ASSUME NEW i \in 1 .. n, ev[i] > w, i <= d PROVE FALSE
    BY <1>1, <1>8
  <2>1. d \in 1 .. n /\ ev[d] <= w
    BY <1>5, <1>7, <1>8
  <2>2. ev[i] \in Nat /\ ev[d] \in Nat
    BY <1>1, <2>1
  <2>3. i < d
    BY <2>1, <2>2
  <2>4. ev[i] < ev[d]
    BY <1>1, <2>1, <2>3
  <2> QED BY <2>1, <2>2, <2>4
<1>10. /\ SubSeq(ev, d + 1, n) \in Seq(Nat)
       /\ Len(SubSeq(ev, d + 1, n)) = n - d
       /\ \A i \in 1 .. n - d : SubSeq(ev, d + 1, n)[i] = ev[d + i]
  <2>1. /\ SubSeq(ev, d + 1, n) \in Seq(Nat)
        /\ Len(SubSeq(ev, d + 1, n)) = n - (d + 1) + 1
        /\ \A i \in 1 .. n - (d + 1) + 1 : SubSeq(ev, d + 1, n)[i] = ev[(d + 1) + i - 1]
    <3>1. d + 1 \in Nat /\ 1 <= d + 1 /\ d + 1 <= n + 1 /\ n <= Len(ev)
      BY <1>1, <1>8 DEF n
    <3>2. IsSegment(SubSeq(ev, d + 1, n), Nat, ev, d + 1, n)
      BY <1>1, <3>1, SegmentIs
    <3> QED BY <3>2 DEF IsSegment
  <2> QED BY <1>1, <1>8, <2>1
<1>11. ASSUME NEW i \in 1 .. n, ev[i] > w PROVE ev[i] \in ToSet(SubSeq(ev, d + 1, n))
  <2>1. i - d \in 1 .. n - d /\ d + (i - d) = i
    BY <1>1, <1>8, <1>9, <1>11
  <2>2. SubSeq(ev, d + 1, n)[i - d] = ev[i]
    BY <1>10, <2>1
  <2> QED BY <1>10, <2>1, <2>2, MembersOf
<1>12. \A h \in ToSet(ev) : \E i \in 1 .. n : ev[i] = h
  BY MembersOf DEF n
<1> QED BY <1>3, <1>10, <1>11, <1>12

\* An empty server satisfies the invariant of the store.
LEMMA StoreInit == DBInit => StoreInv
<1> SUFFICES ASSUME DBInit PROVE StoreInv
  OBVIOUS
<1>1. StoreTyped
  BY DEF DBInit, StoreTyped
<1>2. CacheIsTail
  BY DEF DBInit, CacheIsTail
<1>3. QueueIsContiguous
  <2>1. Len(commit_items) = 0 /\ committed_high = 0 /\ emitting = 0 /\ emitted_high = 0
    BY DEF DBInit
  <2> QED BY <2>1 DEF QueueIsContiguous, Taken
<1>4. UnemittedKept
  BY DEF DBInit, UnemittedKept, ToSet
<1> QED BY <1>1, <1>2, <1>3, <1>4 DEF StoreInv

\* Inserting the next block, with all the evictions it causes.
LEMMA StoreInsert ==
    ASSUME StoreInv, NEW block \in Seq(Nat), Insert(block)
    PROVE  StoreInv'
<1>1. PICK h \in Nat, n \in Nat : h = Len(payload) + 1 /\ n = Len(order) /\ n <= h - 1
  BY DEF StoreInv, StoreTyped, CacheIsTail
<1>2. /\ payload \in Seq(Seq(Nat)) /\ order \in Seq(Nat)
      /\ write_queue \in Seq(Nat) /\ emitted_high \in Nat
      /\ \A i \in 1 .. n : order[i] = h - 1 - n + i
  BY <1>1 DEF StoreInv, StoreTyped, CacheIsTail
<1>3. PICK heights : heights = Append(order, h)
  OBVIOUS
<1>4. /\ heights \in Seq(Nat) /\ heights # <<>> /\ Len(heights) = n + 1
      /\ \A i \in 1 .. n + 1 : heights[i] = h - (n + 1) + i
      /\ ToSet(heights) = ToSet(order) \cup {h}
  <2>1. order \in Seq(Nat) /\ Len(order) <= h - 1
    BY <1>1, <1>2
  <2>2. \A i \in 1 .. Len(order) : order[i] = h - 1 - Len(order) + i
    BY <1>1, <1>2
  <2>3. /\ heights \in Seq(Nat) /\ heights # <<>> /\ Len(heights) = Len(order) + 1
        /\ \A i \in 1 .. Len(order) + 1 : heights[i] = h - (Len(order) + 1) + i
        /\ ToSet(heights) = ToSet(order) \cup {h}
    BY <1>3, <2>1, <2>2, AppendRun
  <2> QED BY <1>1, <2>3
<1>5. PICK k : k = Evictions(Append(payload, block), heights, resident_bytes + Size(block))
  OBVIOUS
<1>6. k \in 0 .. n + 1
  <2>1. k \in 0 .. Len(heights) - 1
    BY <1>4, <1>5, EvictionsBound
  <2> QED BY <2>1, <1>1, <1>4
<1>7. PICK evicted : evicted = SubSeq(heights, 1, k)
  OBVIOUS
<1>8. /\ payload' = Append(payload, block)
      /\ order' = SubSeq(heights, k + 1, Len(heights))
      /\ write_queue' = write_queue \o Spilled(evicted)
      /\ UNCHANGED <<disk, committed_high, commit_items, emitting, emitted_high>>
  BY <1>1, <1>3, <1>5, <1>7 DEF Insert, committerVars
<1>9. /\ evicted \in Seq(Nat)
      /\ \A i, j \in 1 .. Len(evicted) : i < j => evicted[i] < evicted[j]
      /\ order' \in Seq(Nat) /\ Len(order') = n + 1 - k
      /\ \A i \in 1 .. n + 1 - k : order'[i] = h - (n + 1 - k) + i
      /\ ToSet(heights) \subseteq ToSet(evicted) \cup ToSet(order')
  <2>1. PICK kept : kept = SubSeq(heights, k + 1, Len(heights))
    OBVIOUS
  <2>2. /\ evicted \in Seq(Nat)
        /\ \A i, j \in 1 .. Len(evicted) : i < j => evicted[i] < evicted[j]
        /\ kept \in Seq(Nat) /\ Len(kept) = Len(heights) - k
        /\ \A i \in 1 .. Len(heights) - k : kept[i] = h - (Len(heights) - k) + i
        /\ ToSet(heights) \subseteq ToSet(evicted) \cup ToSet(kept)
    <3>1. /\ heights \in Seq(Nat) /\ k \in 0 .. Len(heights)
          /\ \A i \in 1 .. Len(heights) : heights[i] = h - Len(heights) + i
      BY <1>4, <1>6
    <3> QED BY <1>7, <2>1, <3>1, CutRun
  <2>3. order' = kept
    BY <1>8, <2>1
  <2>4. PICK m \in Nat : m = Len(heights) /\ m = n + 1
    BY <1>4
  <2>5. kept \in Seq(Nat) /\ Len(kept) = n + 1 - k
    BY <1>6, <2>2, <2>4
  <2>6. \A i \in 1 .. n + 1 - k : kept[i] = h - (n + 1 - k) + i
    BY <1>6, <2>2, <2>4
  <2> QED BY <2>2, <2>3, <2>5, <2>6
<1>10. /\ Spilled(evicted) \in Seq(Nat)
       /\ \A x \in ToSet(evicted) : x > emitted_high => x \in ToSet(Spilled(evicted))
  BY <1>2, <1>9, AboveKeeps DEF Spilled
<1>11. payload' \in Seq(Seq(Nat)) /\ Len(payload') = h
  BY <1>1, <1>2, <1>8, PlacesOfAppend
<1>12. /\ write_queue' \in Seq(Nat)
       /\ ToSet(write_queue') = ToSet(write_queue) \cup ToSet(Spilled(evicted))
  BY <1>2, <1>8, <1>10, MembersOfConcat
<1>13. StoreTyped'
  <2>1. committed_high \in 0 .. h
    <3>1. committed_high \in 0 .. h - 1
      BY <1>1 DEF StoreInv, StoreTyped
    <3> QED BY <3>1
  <2> QED BY <1>8, <1>9, <1>11, <1>12, <2>1 DEF StoreInv, StoreTyped
<1>14. CacheIsTail'
  BY <1>1, <1>6, <1>9, <1>11 DEF CacheIsTail
<1>15. QueueIsContiguous'
  BY <1>8 DEF StoreInv, QueueIsContiguous, Taken
<1>16. UnemittedKept'
  <2>1. ASSUME NEW x \in emitted_high + 1 .. h,
               x \notin ToSet(order') \cup disk \cup ToSet(write_queue') \cup {emitting}
        PROVE  [height |-> x, resident |-> TRUE] \in ToSet(commit_items)
    <3>1. x > emitted_high /\ x \notin ToSet(order) \cup {h}
      <4>1. x \in Nat /\ x > emitted_high
        BY <1>2
      <4>2. x \notin ToSet(order') /\ x \notin ToSet(Spilled(evicted))
        BY <1>12, <2>1, Zenon
      <4>3. x \notin ToSet(evicted)
        BY <1>10, <4>1, <4>2, Zenon
      <4> QED BY <1>4, <1>9, <4>1, <4>2, <4>3, Zenon
    <3>2. x \in emitted_high + 1 .. Len(payload)
      <4>1. x # h /\ Len(payload) = h - 1
        BY <1>1, <1>2, <3>1
      <4> QED BY <1>1, <1>2, <2>1, <4>1
    <3>3. x \notin disk \cup ToSet(write_queue) \cup {emitting}
      BY <1>12, <2>1
    <3> QED BY <3>1, <3>2, <3>3 DEF StoreInv, UnemittedKept
  <2>2. \A item \in ToSet(commit_items) :
            item.resident \/ item.height \in disk \cup ToSet(write_queue')
    BY <1>12 DEF StoreInv, UnemittedKept
  <2> QED BY <1>8, <1>11, <2>1, <2>2 DEF UnemittedKept
<1> QED BY <1>13, <1>14, <1>15, <1>16 DEF StoreInv

\* The writer stores the oldest spilled block.
LEMMA StoreWrite ==
    ASSUME StoreInv, WriteSpilled
    PROVE  StoreInv'
<1>1. /\ write_queue # <<>> /\ disk' = disk \cup {Head(write_queue)}
      /\ write_queue' = Tail(write_queue)
      /\ UNCHANGED <<payload, order, committed_high, commit_items, emitting, emitted_high>>
  BY DEF WriteSpilled, committerVars
<1>2. /\ write_queue \in Seq(Nat) /\ disk \in SUBSET Nat
  BY DEF StoreInv, StoreTyped
<1>3. /\ Head(write_queue) \in Nat /\ write_queue' \in Seq(Nat)
      /\ ToSet(write_queue) = {Head(write_queue)} \cup ToSet(write_queue')
  BY <1>1, <1>2, MembersOfTail
<1>4. disk' \cup ToSet(write_queue') = disk \cup ToSet(write_queue)
  BY <1>1, <1>3
<1>5. StoreTyped'
  BY <1>1, <1>2, <1>3 DEF StoreInv, StoreTyped
<1>6. CacheIsTail' /\ QueueIsContiguous'
  BY <1>1 DEF StoreInv, CacheIsTail, QueueIsContiguous, Taken
<1>7. UnemittedKept'
  <2>1. UnemittedKept
    BY DEF StoreInv
  <2>2. ASSUME NEW h \in emitted_high + 1 .. Len(payload)
        PROVE  \/ h \in ToSet(order) \cup (disk' \cup ToSet(write_queue')) \cup {emitting}
               \/ [height |-> h, resident |-> TRUE] \in ToSet(commit_items)
    BY <1>4, <2>1 DEF UnemittedKept
  <2>3. \A item \in ToSet(commit_items) :
            item.resident \/ item.height \in disk' \cup ToSet(write_queue')
    BY <1>4, <2>1 DEF UnemittedKept
  <2> QED BY <1>1, <2>2, <2>3 DEF UnemittedKept
<1> QED BY <1>5, <1>6, <1>7 DEF StoreInv

\* The watermark follows the block just emitted.
LEMMA StoreRaise ==
    ASSUME StoreInv, RaiseEmitted
    PROVE  StoreInv'
<1>1. /\ emitting # 0 /\ emitting' = 0
      /\ emitted_high' = Max({emitted_high, emitting})
      /\ UNCHANGED <<payload, order, write_queue, disk, committed_high, commit_items>>
  BY DEF RaiseEmitted, cacheVars
<1>2. emitting = Taken /\ emitted_high = Taken - 1 /\ Taken \in Nat
  BY <1>1 DEF StoreInv, QueueIsContiguous
<1>3. emitted_high' = Taken
  <2>1. PICK a \in Nat, b \in Nat : a = emitted_high /\ b = emitting /\ a < b
    BY <1>1, <1>2 DEF StoreInv, StoreTyped
  <2>2. b \in {a, b} /\ \A y \in {a, b} : b >= y
    BY <2>1
  <2>3. Max({a, b}) \in {a, b} /\ Max({a, b}) >= b
    BY <2>2 DEF Max
  <2>4. Max({a, b}) = b
    BY <2>1, <2>3
  <2> QED BY <1>1, <1>2, <2>1, <2>4
<1>4. StoreTyped' /\ CacheIsTail'
  BY <1>1, <1>2, <1>3 DEF StoreInv, StoreTyped, CacheIsTail
<1>5. QueueIsContiguous'
  <2>1. Taken' = Taken
    BY <1>1 DEF Taken
  <2>2. \A i \in 1 .. Len(commit_items) : commit_items[i].height = Taken + i
    BY DEF StoreInv, QueueIsContiguous
  <2> QED BY <1>1, <1>2, <1>3, <2>1, <2>2 DEF QueueIsContiguous
<1>6. UnemittedKept'
  <2>1. UnemittedKept
    BY DEF StoreInv
  <2>2. ASSUME NEW h \in emitted_high' + 1 .. Len(payload)
        PROVE  \/ h \in ToSet(order) \cup (disk \cup ToSet(write_queue)) \cup {0}
               \/ [height |-> h, resident |-> TRUE] \in ToSet(commit_items)
    <3>1. Len(payload) \in Nat
      BY DEF StoreInv, StoreTyped
    <3>2. h \in emitted_high + 1 .. Len(payload) /\ h # emitting
      BY <1>2, <1>3, <3>1
    <3> QED BY <2>1, <3>2 DEF UnemittedKept
  <2>3. \A item \in ToSet(commit_items) :
            item.resident \/ item.height \in disk \cup ToSet(write_queue)
    BY <2>1 DEF UnemittedKept
  <2> QED BY <1>1, <2>2, <2>3 DEF UnemittedKept
<1> QED BY <1>4, <1>5, <1>6 DEF StoreInv

\* The committer takes the next item and sends its payload.
LEMMA StoreEmit ==
    ASSUME StoreInv, EmitNext
    PROVE  StoreInv' /\ emitting' \in 1 .. Len(payload)
<1>1. /\ emitting = 0 /\ commit_items # <<>>
      /\ emitting' = Head(commit_items).height /\ commit_items' = Tail(commit_items)
      /\ UNCHANGED <<payload, order, write_queue, disk, committed_high, emitted_high>>
  BY DEF EmitNext, cacheVars
<1>2. PICK c : c = commit_items
  OBVIOUS
<1>3. /\ c \in Seq(Item) /\ c # <<>> /\ committed_high \in 0 .. Len(payload)
      /\ Len(payload) \in Nat
  BY <1>1, <1>2 DEF StoreInv, StoreTyped
<1>4. PICK n \in Nat : n = Len(c) /\ n > 0
  BY <1>3
<1>5. /\ Head(c) \in Item /\ Tail(c) \in Seq(Item) /\ Len(Tail(c)) = n - 1
      /\ Head(c) = c[1] /\ \A i \in 1 .. n - 1 : Tail(c)[i] = c[i + 1]
      /\ ToSet(c) = {Head(c)} \cup ToSet(Tail(c))
  <2> HIDE DEF Item
  <2>1. ToSet(c) = {Head(c)} \cup ToSet(Tail(c))
    BY <1>3, MembersOfTail
  <2> QED BY <1>3, <1>4, <2>1
<1>6. PICK t \in Nat : t = Taken /\ emitted_high = t
  BY <1>1 DEF StoreInv, QueueIsContiguous
<1>7. /\ \A i \in 1 .. n : c[i].height = t + i
      /\ t = committed_high - n
  BY <1>2, <1>4, <1>6 DEF StoreInv, QueueIsContiguous, Taken
<1>8. emitting' = t + 1
  BY <1>1, <1>2, <1>4, <1>5, <1>7
<1>9. Taken' = t + 1
  <2>1. Len(commit_items') = n - 1 /\ committed_high' = committed_high
    BY <1>1, <1>2, <1>5
  <2> QED BY <1>3, <1>4, <1>7, <2>1 DEF Taken
<1>10. emitting' \in 1 .. Len(payload)
  BY <1>3, <1>4, <1>7, <1>8
<1>11. StoreTyped'
  <2>1. commit_items' \in Seq(Item) /\ emitting' \in Nat
    BY <1>1, <1>2, <1>5, <1>8
  <2> QED BY <1>1, <2>1 DEF StoreInv, StoreTyped
<1>12. CacheIsTail'
  BY <1>1 DEF StoreInv, CacheIsTail
<1>13. QueueIsContiguous'
  <2>1. \A i \in 1 .. n - 1 : Tail(c)[i].height = (t + 1) + i
    <3> SUFFICES ASSUME NEW i \in 1 .. n - 1 PROVE Tail(c)[i].height = (t + 1) + i
      OBVIOUS
    <3>1. i + 1 \in 1 .. n
      BY <1>4
    <3>2. c[i + 1].height = t + (i + 1)
      BY <1>7, <3>1
    <3> QED BY <1>5, <3>2
  <2>2. /\ commit_items' = Tail(c) /\ Len(commit_items') = n - 1
        /\ emitted_high' = t /\ emitting' = t + 1 /\ emitting' # 0
    BY <1>1, <1>2, <1>5, <1>6, <1>8
  <2> QED BY <1>9, <2>1, <2>2 DEF QueueIsContiguous
<1>14. UnemittedKept'
  <2>1. UnemittedKept
    BY DEF StoreInv
  <2>2. ASSUME NEW h \in emitted_high + 1 .. Len(payload)
        PROVE  \/ h \in ToSet(order) \cup (disk \cup ToSet(write_queue)) \cup {emitting'}
               \/ [height |-> h, resident |-> TRUE] \in ToSet(Tail(c))
    <3>1. h # emitting
      BY <1>1, <1>6
    <3>2. \/ h \in ToSet(order) \cup (disk \cup ToSet(write_queue))
          \/ [height |-> h, resident |-> TRUE] \in ToSet(c)
      BY <1>2, <2>1, <3>1 DEF UnemittedKept
    <3>3. [height |-> h, resident |-> TRUE] = Head(c) => h = emitting'
      <4> SUFFICES ASSUME [height |-> h, resident |-> TRUE] = Head(c) PROVE h = Head(c).height
        BY <1>1, <1>2
      <4>1. [height |-> h, resident |-> TRUE].height = h
        OBVIOUS
      <4> QED BY <4>1
    <3> QED BY <1>5, <3>2, <3>3
  <2>3. \A item \in ToSet(Tail(c)) :
            item.resident \/ item.height \in disk \cup ToSet(write_queue)
    BY <1>2, <1>5, <2>1 DEF UnemittedKept
  <2> QED BY <1>1, <1>2, <2>2, <2>3 DEF UnemittedKept
<1> QED BY <1>10, <1>11, <1>12, <1>13, <1>14 DEF StoreInv

\* A committed attestation hands over the heights up to the one it pins.
LEMMA StoreCommit ==
    ASSUME StoreInv, NEW pinned \in Nat, CommitUpTo(pinned)
    PROVE  StoreInv'
<1>1. PICK last : last = Min({pinned, Len(payload)})
  OBVIOUS
<1>2. PICK low \in Nat : low = committed_high
  BY DEF StoreInv, StoreTyped
<1>3. last \in Nat /\ last <= Len(payload) /\ Len(payload) \in Nat
  <2>1. PICK p \in Nat : p = Len(payload)
    BY DEF StoreInv, StoreTyped
  <2>2. \E x \in {pinned, p} : \A y \in {pinned, p} : x <= y
    BY LeastNat
  <2>3. Min({pinned, p}) \in {pinned, p} /\ Min({pinned, p}) <= p
    BY <2>2 DEF Min
  <2> QED BY <1>1, <2>1, <2>3
<1>4. PICK new : new = CommitItems(low, last)
  OBVIOUS
<1>5. PICK c : c = commit_items
  OBVIOUS
<1>6. /\ last > low /\ committed_high' = last /\ commit_items' = c \o new
      /\ UNCHANGED <<payload, order, write_queue, disk, emitting, emitted_high>>
  BY <1>1, <1>2, <1>4, <1>5 DEF CommitUpTo, cacheVars
<1>7. PICK m \in Nat : m = last - low
  BY <1>2, <1>3, <1>6
<1>8. /\ new \in Seq(Item) /\ Len(new) = m
      /\ \A i \in 1 .. m : new[i] = [height |-> low + i, resident |-> low + i \in ToSet(order)]
  <2>1. new = [i \in 1 .. m |-> [height |-> low + i, resident |-> low + i \in ToSet(order)]]
    BY <1>4, <1>7 DEF CommitItems, CommitItem
  <2>2. \A i \in 1 .. m :
            [height |-> low + i, resident |-> low + i \in ToSet(order)] \in Item
    BY DEF Item
  <2> HIDE DEF Item
  <2>3. new \in [1 .. m -> Item]
    BY <2>1, <2>2
  <2>4. new \in Seq(Item) /\ Len(new) = m
    BY <2>3
  <2>5. \A i \in 1 .. m : new[i] = [height |-> low + i, resident |-> low + i \in ToSet(order)]
    BY <2>1, Zenon
  <2> QED BY <2>4, <2>5
<1>9. c \in Seq(Item)
  BY <1>5 DEF StoreInv, StoreTyped
<1>10. PICK n \in Nat : n = Len(c)
  BY <1>9
<1>11. /\ c \o new \in Seq(Item) /\ ToSet(c \o new) = ToSet(c) \cup ToSet(new)
       /\ Len(c \o new) = n + m
       /\ \A i \in 1 .. n : (c \o new)[i] = c[i]
       /\ \A i \in 1 .. m : (c \o new)[n + i] = new[i]
  <2> HIDE DEF Item
  <2>1. c \o new \in Seq(Item) /\ ToSet(c \o new) = ToSet(c) \cup ToSet(new)
    BY <1>8, <1>9, MembersOfConcat
  <2>2. c \in Seq(Item) /\ new \in Seq(Item) /\ Len(c) = n /\ Len(new) = m
    BY <1>8, <1>9, <1>10
  <2>3. Len(c \o new) = n + m
    BY <2>2
  <2>4. \A i \in 1 .. n : (c \o new)[i] = c[i]
    BY <2>2
  <2>5. \A i \in 1 .. m : (c \o new)[n + i] = new[i]
    BY <2>2
  <2> QED BY <2>1, <2>3, <2>4, <2>5
<1>12. PICK t \in Nat : t = Taken
  BY DEF StoreInv, QueueIsContiguous
<1>13. t = low - n /\ \A i \in 1 .. n : c[i].height = t + i
  BY <1>2, <1>5, <1>10, <1>12 DEF StoreInv, QueueIsContiguous, Taken
<1>14. Taken' = t
  <2>1. Len(commit_items') = n + m /\ committed_high' = last
    BY <1>6, <1>11
  <2> QED BY <1>3, <1>7, <1>13, <2>1 DEF Taken
<1>15. StoreTyped'
  <2>1. committed_high' \in 0 .. Len(payload) /\ commit_items' \in Seq(Item)
    BY <1>3, <1>6, <1>11
  <2> QED BY <1>6, <2>1 DEF StoreInv, StoreTyped
<1>16. CacheIsTail'
  BY <1>6 DEF StoreInv, CacheIsTail
<1>17. QueueIsContiguous'
  <2>1. ASSUME NEW i \in 1 .. n + m PROVE (c \o new)[i].height = t + i
    <3>1. CASE i <= n
      <4>1. i \in 1 .. n
        BY <3>1
      <4> QED BY <4>1, <1>11, <1>13
    <3>2. CASE i > n
      <4>1. i - n \in 1 .. m /\ n + (i - n) = i
        BY <3>2
      <4>2. (c \o new)[i] = new[i - n]
        BY <4>1, <1>11
      <4>3. new[i - n].height = low + (i - n)
        BY <4>1, <1>8
      <4>4. low + (i - n) = t + i
        BY <1>13
      <4> QED BY <4>2, <4>3, <4>4
    <3>3. i <= n \/ i > n
      OBVIOUS
    <3> QED BY <3>1, <3>2, <3>3, Zenon
  <2>2. commit_items' = c \o new /\ Len(commit_items') = n + m
    BY <1>6, <1>11
  <2>3. IF emitting = 0 THEN emitted_high = t ELSE emitting = t /\ emitted_high = t - 1
    BY <1>12 DEF StoreInv, QueueIsContiguous
  <2> QED BY <1>6, <1>14, <2>1, <2>2, <2>3 DEF QueueIsContiguous
<1>18. UnemittedKept'
  <2>1. UnemittedKept
    BY DEF StoreInv
  <2>2. ASSUME NEW h \in emitted_high + 1 .. Len(payload)
        PROVE  \/ h \in ToSet(order) \cup (disk \cup ToSet(write_queue)) \cup {emitting}
               \/ [height |-> h, resident |-> TRUE] \in ToSet(c \o new)
    BY <1>5, <1>11, <2>1 DEF UnemittedKept
  <2>3. ASSUME NEW i \in 1 .. m
        PROVE  new[i].resident \/ new[i].height \in disk \cup ToSet(write_queue)
    <3>1. new[i].height = low + i /\ (new[i].resident <=> low + i \in ToSet(order))
      <4>1. PICK held \in BOOLEAN : held <=> low + i \in ToSet(order)
        OBVIOUS
      <4>2. new[i] = [height |-> low + i, resident |-> held]
        BY <1>8, <4>1
      <4> QED BY <4>1, <4>2
    <3>2. low + i \in emitted_high + 1 .. Len(payload) /\ low + i # emitting
      <4>1. /\ emitted_high \in Nat /\ emitting \in Nat
            /\ IF emitting = 0 THEN emitted_high = t ELSE emitting = t /\ emitted_high = t - 1
        BY <1>12 DEF StoreInv, StoreTyped, QueueIsContiguous
      <4> QED BY <1>3, <1>7, <1>13, <4>1, SMTT(20)
    <3>3. [height |-> low + i, resident |-> TRUE] \notin ToSet(c)
      <4> SUFFICES ASSUME NEW j \in 1 .. n, c[j] = [height |-> low + i, resident |-> TRUE]
                   PROVE  FALSE
        BY <1>9, <1>10, MembersOf
      <4>1. c[j].height = low + i
        OBVIOUS
      <4> QED BY <1>13, <4>1
    <3> QED BY <1>5, <2>1, <3>1, <3>2, <3>3 DEF UnemittedKept
  <2>4. \A item \in ToSet(new) :
            item.resident \/ item.height \in disk \cup ToSet(write_queue)
    <3>1. \A item \in ToSet(new) : \E i \in 1 .. m : new[i] = item
      <4> HIDE DEF Item
      <4> QED BY <1>8, MembersOf
    <3> QED BY <2>3, <3>1
  <2>5. \A item \in ToSet(c \o new) :
            item.resident \/ item.height \in disk \cup ToSet(write_queue)
    BY <1>5, <1>11, <2>1, <2>4 DEF UnemittedKept
  <2> QED BY <1>6, <2>2, <2>5 DEF UnemittedKept
<1> QED BY <1>15, <1>16, <1>17, <1>18 DEF StoreInv

\* Steps of the other tasks leave the store alone.
LEMMA StoreUntouched ==
    ASSUME StoreInv, UNCHANGED dbVars
    PROVE  StoreInv'
<1>1. UNCHANGED <<payload, order, write_queue, disk, committed_high, commit_items,
                  emitting, emitted_high>>
  BY DEF dbVars, cacheVars, committerVars
<1> QED BY <1>1 DEF StoreInv, StoreTyped, CacheIsTail, QueueIsContiguous, Taken, UnemittedKept

----------------------------------------------------------------------------
\* The client and the listener have just started.
LEMMA PathInit == ConfirmInit => ConfirmInv
<1> SUFFICES ASSUME ConfirmInit PROVE ConfirmInv
  OBVIOUS
<1>1. /\ tx_id = 0 /\ latency_hist = {} /\ pending = {} /\ to_client = {}
      /\ to_server = <<>> /\ batch = <<>> /\ registrations = <<>>
      /\ ingress = <<>> /\ batcher = <<>> /\ fanout = <<>> /\ sink = <<>>
      /\ for_confirm = <<>>
  BY DEF ConfirmInit
<1>2. Known = {}
  BY <1>1 DEF Known, ToSet
<1>3. PathTyped
  BY <1>1 DEF PathTyped
<1>4. Unregistered /\ BatchesAscend /\ MadeByClient
  BY <1>1, <1>2 DEF Unregistered, BatchesAscend, MadeByClient
<1>5. RegisteredOnce /\ RouterAfterSink
  BY <1>1 DEF RegisteredOnce, RouterAfterSink, ToSet
<1> QED BY <1>3, <1>4, <1>5 DEF ConfirmInv

\* Steps that only move transactions on behind the registration, or nothing.
LEMMA PathMoved ==
    ASSUME ConfirmInv, PathTyped',
           UNCHANGED <<tx_id, latency_hist, to_server, batch, registrations, sink,
                       for_confirm, pending, to_client>>
    PROVE  ConfirmInv'
BY DEF ConfirmInv, Known, Unregistered, BatchesAscend, MadeByClient, RegisteredOnce,
       RouterAfterSink

\* What is known is a transaction.
LEMMA KnownNat ==
    ASSUME PathTyped
    PROVE  Known \subseteq Nat /\ ToSet(registrations) \subseteq Nat
<1>1. registrations \in Seq(Nat) /\ pending \cup to_client \cup latency_hist \subseteq Nat
  BY DEF PathTyped
<1>2. ToSet(registrations) \subseteq Nat
  BY <1>1 DEF ToSet
<1> QED BY <1>1, <1>2 DEF Known

\* A burst adds fresh transactions behind all others.
LEMMA PathBurst ==
    ASSUME ConfirmInv, BurstTick
    PROVE  ConfirmInv'
<1>1. PICK cutoff : /\ tx_id' = tx_id + Len([i \in 1 .. ThisBurst(cutoff) |-> tx_id + i])
                    /\ \/ to_server' = Append(to_server,
                                         [i \in 1 .. ThisBurst(cutoff) |-> tx_id + i])
                       \/ UNCHANGED to_server
  BY DEF BurstTick
<1>2. PICK n \in Nat : n = ThisBurst(cutoff)
  BY ClientAssumption DEF ThisBurst
<1>3. PICK x \in Nat : x = tx_id
  BY DEF ConfirmInv, PathTyped
<1>4. PICK txs : txs = [i \in 1 .. n |-> x + i]
  OBVIOUS
<1>5. txs \in Seq(Nat) /\ Len(txs) = n /\ DOMAIN txs = 1 .. n
      /\ \A i \in 1 .. n : txs[i] = x + i
  <2>1. txs \in [1 .. n -> Nat]
    BY <1>4
  <2> QED BY <1>4, <2>1
<1>6. tx_id' = x + n /\ (to_server' = Append(to_server, txs) \/ to_server' = to_server)
  BY <1>1, <1>2, <1>3, <1>4, <1>5
<1>7. UNCHANGED <<latency_hist, batch, ingress, registrations, batcher,
                  fanout, sink, for_confirm, pending, to_client>>
  BY DEF BurstTick, deliveryVars
<1>8. to_server \in Seq(Seq(Nat))
  BY DEF ConfirmInv, PathTyped
<1>9. PICK m \in Nat : m = Len(to_server) /\ DOMAIN to_server = 1 .. m
  BY <1>8
<1>10. ASSUME NEW k \in DOMAIN to_server', NEW j \in DOMAIN to_server'[k]
       PROVE  \/ k \in 1 .. m /\ to_server'[k] = to_server[k]
              \/ k = m + 1 /\ to_server'[k] = txs
  <2>1. CASE to_server' = to_server
    BY <2>1, <1>9, <1>10
  <2>2. CASE to_server' = Append(to_server, txs)
    <3>1. /\ Len(Append(to_server, txs)) = m + 1
          /\ Append(to_server, txs) \in Seq(Seq(Nat))
          /\ \A i \in 1 .. m : Append(to_server, txs)[i] = to_server[i]
          /\ Append(to_server, txs)[m + 1] = txs
      BY <1>5, <1>8, <1>9, PlacesOfAppend
    <3>2. DOMAIN to_server' = 1 .. m + 1
      BY <2>2, <3>1
    <3>3. k \in 1 .. m \/ k = m + 1
      BY <1>10, <3>2
    <3> QED BY <2>2, <3>1, <3>3
  <2> QED BY <1>6, <2>1, <2>2
<1>11. to_server' \in Seq(Seq(Nat))
  <2>1. Append(to_server, txs) \in Seq(Seq(Nat))
    BY <1>5, <1>8, PlacesOfAppend
  <2> QED BY <1>6, <1>8, <2>1
<1>12. Known' = Known
  BY <1>7 DEF Known
<1>13. ASSUME NEW k \in DOMAIN to_server', NEW j \in DOMAIN to_server'[k]
       PROVE  /\ to_server'[k][j] \in Nat
              /\ to_server'[k][j] <= x + n
              /\ to_server'[k][j] > x \/ (k \in 1 .. m /\ to_server'[k] = to_server[k])
  <2>1. CASE k \in 1 .. m /\ to_server'[k] = to_server[k]
    <3>1. to_server[k] \in Seq(Nat) /\ k \in DOMAIN to_server
      BY <1>8, <1>9, <2>1
    <3>2. to_server[k][j] \in Nat /\ to_server[k][j] <= x
      BY <1>3, <1>13, <2>1, <3>1 DEF ConfirmInv, MadeByClient
    <3> QED BY <2>1, <3>2
  <2>2. CASE k = m + 1 /\ to_server'[k] = txs
    BY <1>5, <1>13, <2>2
  <2> QED BY <1>10, <1>13, <2>1, <2>2
<1>14. MadeByClient'
  <2>1. \A t \in Known : t \in Nat /\ t <= x
    <3>1. Known \subseteq Nat
      BY KnownNat DEF ConfirmInv
    <3> QED BY <1>3, <3>1 DEF ConfirmInv, MadeByClient
  <2>2. \A i \in DOMAIN batch : batch[i] \in Nat /\ batch[i] <= x
    BY <1>3 DEF ConfirmInv, PathTyped, MadeByClient
  <2>3. (\A t \in Known : t <= x + n) /\ (\A i \in DOMAIN batch : batch[i] <= x + n)
    BY <2>1, <2>2
  <2> QED BY <1>6, <1>7, <1>12, <1>13, <2>3 DEF MadeByClient
<1>15. PathTyped'
  BY <1>6, <1>7, <1>11 DEF ConfirmInv, PathTyped
<1>16. RegisteredOnce' /\ RouterAfterSink'
  BY <1>7 DEF ConfirmInv, RegisteredOnce, RouterAfterSink
<1>17. BatchesAscend'
  <2>1. ASSUME NEW k \in DOMAIN to_server', NEW i \in DOMAIN to_server'[k],
               NEW j \in DOMAIN to_server'[k], i < j
        PROVE  to_server'[k][i] < to_server'[k][j]
    <3>1. CASE k \in 1 .. m /\ to_server'[k] = to_server[k]
      BY <1>9, <2>1, <3>1 DEF ConfirmInv, BatchesAscend
    <3>2. CASE to_server'[k] = txs
      <4>1. i \in 1 .. n /\ j \in 1 .. n
        BY <1>5, <2>1, <3>2
      <4>2. txs[i] = x + i /\ txs[j] = x + j
        BY <1>5, <4>1
      <4> QED BY <2>1, <3>2, <4>1, <4>2
    <3> QED BY <1>10, <2>1, <3>1, <3>2
  <2>2. ASSUME NEW k \in DOMAIN to_server', NEW l \in DOMAIN to_server', k < l,
               NEW i \in DOMAIN to_server'[k], NEW j \in DOMAIN to_server'[l]
        PROVE  to_server'[k][i] < to_server'[l][j]
    <3>1. CASE l \in 1 .. m /\ to_server'[l] = to_server[l]
      <4>1. k \in 1 .. m /\ to_server'[k] = to_server[k]
        BY <1>10, <2>2, <3>1
      <4> QED BY <1>9, <2>2, <3>1, <4>1 DEF ConfirmInv, BatchesAscend
    <3>2. CASE l = m + 1 /\ to_server'[l] = txs
      <4>1. k \in 1 .. m /\ to_server'[k] = to_server[k] /\ k \in DOMAIN to_server
        BY <1>9, <1>10, <2>2, <3>2
      <4>2. to_server[k][i] <= x /\ to_server[k][i] \in Nat
        BY <1>3, <1>13, <2>2, <4>1 DEF ConfirmInv, MadeByClient
      <4>3. txs[j] = x + j /\ j \in 1 .. n
        BY <1>5, <2>2, <3>2
      <4> QED BY <3>2, <4>1, <4>2, <4>3
    <3> QED BY <1>10, <2>2, <3>1, <3>2
  <2> QED BY <2>1, <2>2 DEF BatchesAscend
<1>18. Unregistered'
  <2>1. ASSUME NEW t \in Known, NEW k \in DOMAIN to_server', NEW j \in DOMAIN to_server'[k]
        PROVE  t < to_server'[k][j]
    <3>1. CASE k \in 1 .. m /\ to_server'[k] = to_server[k]
      BY <1>9, <2>1, <3>1 DEF ConfirmInv, Unregistered
    <3>2. CASE to_server'[k][j] > x
      <4>1. t \in Nat /\ t <= x
        <5>1. Known \subseteq Nat
          BY KnownNat DEF ConfirmInv
        <5> QED BY <1>3, <5>1 DEF ConfirmInv, MadeByClient
      <4> QED BY <1>13, <2>1, <3>2, <4>1
    <3> QED BY <1>13, <2>1, <3>1, <3>2
  <2>2. ASSUME NEW i \in DOMAIN batch, NEW k \in DOMAIN to_server', NEW j \in DOMAIN to_server'[k]
        PROVE  batch[i] < to_server'[k][j]
    <3>1. CASE k \in 1 .. m /\ to_server'[k] = to_server[k]
      BY <1>9, <2>2, <3>1 DEF ConfirmInv, Unregistered
    <3>2. CASE to_server'[k][j] > x
      <4>1. batch[i] \in Nat /\ batch[i] <= x
        BY <1>3, <2>2 DEF ConfirmInv, PathTyped, MadeByClient
      <4> QED BY <1>13, <2>2, <3>2, <4>1
    <3> QED BY <1>13, <2>2, <3>1, <3>2
  <2>3. /\ \A t \in Known : \A j \in 2 .. Len(batch) : t < batch[j]
        /\ \A i, j \in DOMAIN batch : i < j => batch[i] < batch[j]
    BY DEF ConfirmInv, Unregistered
  <2> QED BY <1>7, <1>12, <2>1, <2>2, <2>3 DEF Unregistered
<1> QED BY <1>14, <1>15, <1>16, <1>17, <1>18 DEF ConfirmInv

\* The listener goes on to txs, whose first transaction it registers.
LEMMA PathRegister ==
    ASSUME ConfirmInv, PathTyped', NEW txs \in Seq(Nat), NEW rest,
           batch' = txs, to_server' = rest, Register(txs),
           \A t \in Known : /\ \A j \in DOMAIN txs : t < txs[j]
                            /\ \A k \in DOMAIN rest : \A j \in DOMAIN rest[k] : t < rest[k][j],
           \A i, j \in DOMAIN txs : i < j => txs[i] < txs[j],
           \A i \in DOMAIN txs : \A k \in DOMAIN rest : \A j \in DOMAIN rest[k] :
              txs[i] < rest[k][j],
           \A i \in DOMAIN txs : txs[i] <= tx_id,
           \A k \in DOMAIN rest : \A j \in DOMAIN rest[k] : rest[k][j] <= tx_id,
           BatchesAscend',
           UNCHANGED <<tx_id, latency_hist, sink, for_confirm, pending, to_client>>
    PROVE  ConfirmInv'
<1>1. registrations \in Seq(Nat) /\ Known \subseteq Nat
  BY KnownNat DEF ConfirmInv, PathTyped
<1>2. CASE txs = <<>>
  <2>1. registrations' = registrations /\ Known' = Known
    BY <1>2 DEF Register, Known
  <2>2. Unregistered'
    BY <1>2, <2>1 DEF Unregistered
  <2>3. MadeByClient'
    BY <1>2, <2>1 DEF ConfirmInv, MadeByClient
  <2>4. RegisteredOnce' /\ RouterAfterSink'
    BY <2>1 DEF ConfirmInv, RegisteredOnce, RouterAfterSink
  <2> QED BY <2>2, <2>3, <2>4 DEF ConfirmInv
<1>3. CASE txs # <<>>
  <2>1. PICK n \in Nat : n = Len(txs) /\ DOMAIN txs = 1 .. n /\ n > 0
    BY <1>3
  <2>2. PICK t \in Nat : t = txs[1] /\ t = Head(txs)
    BY <1>3
  <2>3. registrations' = Append(registrations, t)
    BY <1>3, <2>2 DEF Register
  <2>4. ToSet(registrations') = ToSet(registrations) \cup {t}
    <3>1. ToSet(Append(registrations, t)) = ToSet(registrations) \cup {t}
      BY <1>1, MembersOfAppend
    <3> QED BY <2>3, <3>1, Zenon
  <2>5. Known' = Known \cup {t}
    BY <2>4 DEF Known
  <2>6. t \notin Known
    <3>1. \A u \in Known : u < t
      BY <2>1, <2>2
    <3> QED BY <3>1, <1>1
  <2>7. Unregistered'
    <3>1. ASSUME NEW j \in 2 .. Len(txs) PROVE t < txs[j]
      BY <2>1, <2>2
    <3>2. ASSUME NEW k \in DOMAIN rest, NEW j \in DOMAIN rest[k] PROVE t < rest[k][j]
      BY <2>1, <2>2
    <3>3. ASSUME NEW u \in Known, NEW j \in 2 .. Len(txs) PROVE u < txs[j]
      BY <2>1
    <3> QED BY <2>5, <3>1, <3>2, <3>3 DEF Unregistered
  <2>8. MadeByClient'
    <3>1. t <= tx_id
      BY <2>1, <2>2
    <3> QED BY <2>5, <3>1 DEF ConfirmInv, MadeByClient
  <2>9. RegisteredOnce'
    <3>1. /\ t \notin ToSet(registrations) /\ t \notin pending
          /\ t \notin to_client \cup latency_hist
      BY <2>6 DEF Known
    <3>2. PICK r \in Seq(Nat) : r = registrations
      BY <1>1
    <3>3. PICK m \in Nat : m = Len(r) /\ DOMAIN r = 1 .. m
      BY <3>2
    <3>4. /\ Append(r, t) \in Seq(Nat) /\ Len(Append(r, t)) = m + 1
          /\ \A i \in 1 .. m : Append(r, t)[i] = r[i]
          /\ Append(r, t)[m + 1] = t
      BY <3>3, PlacesOfAppend
    <3>5. DOMAIN Append(r, t) = 1 .. m + 1
      BY <3>4
    <3>6. \A i \in 1 .. m : r[i] # t
      BY <3>1, <3>2, <3>3 DEF ToSet
    <3>7. \A i, j \in 1 .. m : r[i] = r[j] => i = j
      BY <3>2, <3>3 DEF ConfirmInv, RegisteredOnce
    <3>8. ASSUME NEW i \in 1 .. m + 1, NEW j \in 1 .. m + 1, Append(r, t)[i] = Append(r, t)[j]
          PROVE  i = j
      <4>1. (i \in 1 .. m \/ i = m + 1) /\ (j \in 1 .. m \/ j = m + 1)
        OBVIOUS
      <4> QED BY <3>4, <3>6, <3>7, <3>8, <4>1
    <3>9. \A i, j \in DOMAIN registrations' : registrations'[i] = registrations'[j] => i = j
      BY <2>3, <3>2, <3>5, <3>8
    <3>10. /\ pending \cap ToSet(registrations') = {}
           /\ (to_client \cup latency_hist) \cap (pending \cup ToSet(registrations')) = {}
      BY <2>4, <3>1 DEF ConfirmInv, RegisteredOnce
    <3> QED BY <3>9, <3>10 DEF RegisteredOnce
  <2>10. RouterAfterSink'
    BY DEF ConfirmInv, RouterAfterSink
  <2> QED BY <2>7, <2>8, <2>9, <2>10 DEF ConfirmInv
<1> QED BY <1>2, <1>3

\* The first places of a sequence of sequences go; the order of the rest stays.
LEMMA TailOfBatches ==
    ASSUME NEW s \in Seq(Seq(Nat)), s # <<>>
    PROVE  /\ Head(s) \in Seq(Nat) /\ Head(s) = s[1] /\ 1 \in DOMAIN s
           /\ Tail(s) \in Seq(Seq(Nat))
           /\ \A k \in DOMAIN Tail(s) : k \in Nat /\ k > 0 /\ k + 1 \in DOMAIN s
                                        /\ Tail(s)[k] = s[k + 1]
<1>1. PICK n \in Nat : n = Len(s) /\ n > 0
  OBVIOUS
<1>2. DOMAIN s = 1 .. n /\ Head(s) = s[1] /\ Head(s) \in Seq(Nat)
  BY <1>1
<1>3. /\ Tail(s) \in Seq(Seq(Nat)) /\ DOMAIN Tail(s) = 1 .. n - 1
      /\ \A k \in 1 .. n - 1 : Tail(s)[k] = s[k + 1]
  BY <1>1
<1> QED BY <1>1, <1>2, <1>3

\* The same for a batch.
LEMMA TailOfBatch ==
    ASSUME NEW s \in Seq(Nat), s # <<>>
    PROVE  /\ Head(s) \in Nat /\ Tail(s) \in Seq(Nat)
           /\ \A k \in DOMAIN Tail(s) : /\ k \in Nat /\ k > 0
                                        /\ k + 1 \in DOMAIN s /\ k + 1 \in 2 .. Len(s)
                                        /\ Tail(s)[k] = s[k + 1]
<1>1. PICK n \in Nat : n = Len(s) /\ n > 0 /\ DOMAIN s = 1 .. n
  OBVIOUS
<1>2. /\ Head(s) \in Nat /\ Tail(s) \in Seq(Nat) /\ DOMAIN Tail(s) = 1 .. n - 1
      /\ \A k \in 1 .. n - 1 : Tail(s)[k] = s[k + 1]
  BY <1>1
<1> QED BY <1>1, <1>2

\* The listener takes the next batch.
LEMMA PathRecv ==
    ASSUME ConfirmInv, ListenerRecv
    PROVE  ConfirmInv'
<1>1. /\ batch = <<>> /\ to_server # <<>>
      /\ batch' = Head(to_server) /\ to_server' = Tail(to_server) /\ Register(batch')
      /\ UNCHANGED <<tx_id, latency_hist, ingress, batcher, fanout, sink, for_confirm,
                     pending, to_client>>
  BY DEF ListenerRecv, clientVars, deliveryVars
<1>2. PICK s \in Seq(Seq(Nat)) : s = to_server
  BY DEF ConfirmInv, PathTyped
<1>3. /\ Head(s) \in Seq(Nat) /\ Head(s) = s[1] /\ 1 \in DOMAIN s
      /\ Tail(s) \in Seq(Seq(Nat))
      /\ \A k \in DOMAIN Tail(s) : k \in Nat /\ k > 0 /\ k + 1 \in DOMAIN s
                                   /\ Tail(s)[k] = s[k + 1]
  BY <1>1, <1>2, TailOfBatches
<1>4. PICK txs \in Seq(Nat), rest \in Seq(Seq(Nat)) : txs = s[1] /\ rest = Tail(s)
  BY <1>3
<1>5. /\ \A t \in Known : \A k \in DOMAIN s : \A j \in DOMAIN s[k] : t < s[k][j]
      /\ \A k \in DOMAIN s : \A i, j \in DOMAIN s[k] : i < j => s[k][i] < s[k][j]
      /\ \A k, l \in DOMAIN s : k < l => \A i \in DOMAIN s[k], j \in DOMAIN s[l] : s[k][i] < s[l][j]
      /\ \A k \in DOMAIN s : \A j \in DOMAIN s[k] : s[k][j] <= tx_id
  BY <1>2 DEF ConfirmInv, Unregistered, BatchesAscend, MadeByClient
<1>6. \A k \in DOMAIN rest : k \in Nat /\ k > 0 /\ k + 1 \in DOMAIN s /\ rest[k] = s[k + 1]
  BY <1>3, <1>4
<1>7. \A t \in Known : /\ \A j \in DOMAIN txs : t < txs[j]
                       /\ \A k \in DOMAIN rest : \A j \in DOMAIN rest[k] : t < rest[k][j]
  BY <1>3, <1>4, <1>5, <1>6
<1>8. \A i, j \in DOMAIN txs : i < j => txs[i] < txs[j]
  BY <1>3, <1>4, <1>5
<1>9. ASSUME NEW i \in DOMAIN txs, NEW k \in DOMAIN rest, NEW j \in DOMAIN rest[k]
      PROVE  txs[i] < rest[k][j]
  <2>1. 1 < k + 1 /\ k + 1 \in DOMAIN s /\ rest[k] = s[k + 1]
    BY <1>6
  <2> QED BY <1>3, <1>4, <1>5, <2>1
<1>10. \A i \in DOMAIN txs : txs[i] <= tx_id
  BY <1>3, <1>4, <1>5
<1>11. \A k \in DOMAIN rest : \A j \in DOMAIN rest[k] : rest[k][j] <= tx_id
  BY <1>5, <1>6
<1>12. /\ \A k \in DOMAIN rest : \A i, j \in DOMAIN rest[k] : i < j => rest[k][i] < rest[k][j]
       /\ \A k, l \in DOMAIN rest :
             k < l => \A i \in DOMAIN rest[k], j \in DOMAIN rest[l] : rest[k][i] < rest[l][j]
  <2>1. \A k \in DOMAIN rest : \A i, j \in DOMAIN rest[k] : i < j => rest[k][i] < rest[k][j]
    BY <1>5, <1>6
  <2>2. ASSUME NEW k \in DOMAIN rest, NEW l \in DOMAIN rest, k < l,
               NEW i \in DOMAIN rest[k], NEW j \in DOMAIN rest[l]
        PROVE  rest[k][i] < rest[l][j]
    <3>1. /\ k + 1 < l + 1 /\ k + 1 \in DOMAIN s /\ l + 1 \in DOMAIN s
          /\ rest[k] = s[k + 1] /\ rest[l] = s[l + 1]
      BY <1>6, <2>2
    <3> QED BY <1>5, <3>1
  <2> QED BY <2>1, <2>2
<1>13. batch' = txs /\ to_server' = rest /\ Register(txs)
  BY <1>1, <1>2, <1>3, <1>4 DEF Register
<1>14. BatchesAscend'
  BY <1>12, <1>13 DEF BatchesAscend
<1>15. PathTyped'
  <2>1. registrations' \in Seq(Nat)
    <3>1. registrations \in Seq(Nat)
      BY DEF ConfirmInv, PathTyped
    <3>2. txs # <<>> => Head(txs) \in Nat
      OBVIOUS
    <3> QED BY <1>13, <3>1, <3>2, PlacesOfAppend DEF Register
  <2> QED BY <1>1, <1>3, <1>4, <1>13, <2>1 DEF ConfirmInv, PathTyped
<1> QED BY <1>1, <1>7, <1>8, <1>9, <1>10, <1>11, <1>13, <1>14, <1>15, PathRegister

\* The listener passes a transaction on and registers the next.
LEMMA PathForward ==
    ASSUME ConfirmInv, ListenerForward
    PROVE  ConfirmInv'
<1>1. /\ batch # <<>> /\ ingress' = Append(ingress, Head(batch))
      /\ batch' = Tail(batch) /\ Register(batch')
      /\ UNCHANGED <<tx_id, latency_hist, to_server, batcher, fanout, sink, for_confirm,
                     pending, to_client>>
  BY DEF ListenerForward, clientVars, deliveryVars
<1>2. PICK b \in Seq(Nat), s \in Seq(Seq(Nat)) : b = batch /\ s = to_server
  BY DEF ConfirmInv, PathTyped
<1>3. /\ Head(b) \in Nat /\ Tail(b) \in Seq(Nat)
      /\ \A k \in DOMAIN Tail(b) : /\ k \in Nat /\ k > 0
                                   /\ k + 1 \in DOMAIN b /\ k + 1 \in 2 .. Len(b)
                                   /\ Tail(b)[k] = b[k + 1]
  BY <1>1, <1>2, TailOfBatch
<1>4. PICK txs \in Seq(Nat) : txs = Tail(b)
  BY <1>3
<1>5. /\ \A t \in Known : /\ \A j \in 2 .. Len(b) : t < b[j]
                          /\ \A k \in DOMAIN s : \A j \in DOMAIN s[k] : t < s[k][j]
      /\ \A i, j \in DOMAIN b : i < j => b[i] < b[j]
      /\ \A i \in DOMAIN b : \A k \in DOMAIN s : \A j \in DOMAIN s[k] : b[i] < s[k][j]
      /\ \A i \in DOMAIN b : b[i] <= tx_id
      /\ \A k \in DOMAIN s : \A j \in DOMAIN s[k] : s[k][j] <= tx_id
  BY <1>2 DEF ConfirmInv, Unregistered, MadeByClient
<1>6. \A k \in DOMAIN txs : /\ k \in Nat /\ k + 1 \in DOMAIN b /\ k + 1 \in 2 .. Len(b)
                            /\ txs[k] = b[k + 1]
  BY <1>3, <1>4
<1>7. \A t \in Known : /\ \A j \in DOMAIN txs : t < txs[j]
                       /\ \A k \in DOMAIN s : \A j \in DOMAIN s[k] : t < s[k][j]
  BY <1>5, <1>6
<1>8. ASSUME NEW i \in DOMAIN txs, NEW j \in DOMAIN txs, i < j PROVE txs[i] < txs[j]
  <2>1. /\ i + 1 < j + 1 /\ i + 1 \in DOMAIN b /\ j + 1 \in DOMAIN b
        /\ txs[i] = b[i + 1] /\ txs[j] = b[j + 1]
    BY <1>6, <1>8
  <2> QED BY <1>5, <2>1
<1>9. \A i \in DOMAIN txs : \A k \in DOMAIN s : \A j \in DOMAIN s[k] : txs[i] < s[k][j]
  BY <1>5, <1>6
<1>10. \A i \in DOMAIN txs : txs[i] <= tx_id
  BY <1>5, <1>6
<1>11. batch' = txs /\ to_server' = s /\ Register(txs)
  BY <1>1, <1>2, <1>4 DEF Register
<1>12. BatchesAscend'
  BY <1>1 DEF ConfirmInv, BatchesAscend
<1>13. PathTyped'
  <2>1. registrations' \in Seq(Nat)
    <3>1. registrations \in Seq(Nat)
      BY DEF ConfirmInv, PathTyped
    <3>2. txs # <<>> => Head(txs) \in Nat
      OBVIOUS
    <3> QED BY <1>11, <3>1, <3>2, PlacesOfAppend DEF Register
  <2>2. ingress' \in Seq(Nat)
    <3>1. ingress \in Seq(Nat)
      BY DEF ConfirmInv, PathTyped
    <3> QED BY <1>1, <1>2, <1>3, <3>1, PlacesOfAppend
  <2> QED BY <1>1, <1>11, <2>1, <2>2 DEF ConfirmInv, PathTyped
<1>14. \A k \in DOMAIN s : \A j \in DOMAIN s[k] : s[k][j] <= tx_id
  BY <1>5
<1> QED BY <1>1, <1>7, <1>8, <1>9, <1>10, <1>11, <1>12, <1>13, <1>14, PathRegister

\* The forwarder.
LEMMA PathForwarder ==
    ASSUME ConfirmInv, Forwarder
    PROVE  ConfirmInv'
<1>1. /\ ingress # <<>> /\ batcher' = Append(batcher, Head(ingress))
      /\ ingress' = Tail(ingress)
      /\ UNCHANGED <<tx_id, latency_hist, to_server, batch, registrations, fanout, sink,
                     for_confirm, pending, to_client>>
  BY DEF Forwarder, clientVars, deliveryVars
<1>2. ingress \in Seq(Nat) /\ batcher \in Seq(Nat)
  BY DEF ConfirmInv, PathTyped
<1>3. Head(ingress) \in Nat /\ ingress' \in Seq(Nat)
  BY <1>1, <1>2, MembersOfTail
<1>4. batcher' \in Seq(Nat)
  BY <1>1, <1>2, <1>3, PlacesOfAppend
<1>5. PathTyped'
  BY <1>1, <1>3, <1>4 DEF ConfirmInv, PathTyped
<1> QED BY <1>1, <1>5, PathMoved

\* The fan-out serves the sink first and the router second.
LEMMA PathFanOut ==
    ASSUME ConfirmInv, FanOut
    PROVE  ConfirmInv'
<1>1. /\ fanout # <<>> /\ sink' = sink \o Head(fanout)
      /\ for_confirm' = Append(for_confirm, Head(fanout)) /\ fanout' = Tail(fanout)
      /\ UNCHANGED <<tx_id, latency_hist, to_server, batch, ingress, registrations, batcher,
                     pending, to_client>>
  BY DEF FanOut, clientVars, listenerVars
<1>2. fanout \in Seq(Seq(Nat)) /\ sink \in Seq(Nat) /\ for_confirm \in Seq(Seq(Nat))
  BY DEF ConfirmInv, PathTyped
<1>3. PICK txs \in Seq(Nat) : txs = Head(fanout) /\ fanout' \in Seq(Seq(Nat))
  BY <1>1, <1>2, MembersOfTail
<1>4. sink' \in Seq(Nat) /\ ToSet(sink') = ToSet(sink) \cup ToSet(txs)
  BY <1>1, <1>2, <1>3, MembersOfConcat
<1>5. PICK f \in Seq(Seq(Nat)) : f = for_confirm
  BY <1>2
<1>6. PICK m \in Nat : m = Len(f) /\ DOMAIN f = 1 .. m
  BY <1>5
<1>7. /\ Append(f, txs) \in Seq(Seq(Nat)) /\ Len(Append(f, txs)) = m + 1
      /\ \A i \in 1 .. m : Append(f, txs)[i] = f[i]
      /\ Append(f, txs)[m + 1] = txs
  BY <1>6, PlacesOfAppend
<1>8. DOMAIN Append(f, txs) = 1 .. m + 1
  BY <1>7
<1>9. for_confirm' = Append(f, txs)
  BY <1>1, <1>3, <1>5
<1>10. ASSUME NEW k \in 1 .. m + 1 PROVE ToSet(Append(f, txs)[k]) \subseteq ToSet(sink')
  <2>1. CASE k = m + 1
    BY <1>4, <1>7, <2>1
  <2>2. CASE k # m + 1
    <3>1. k \in 1 .. m /\ k \in DOMAIN for_confirm
      BY <1>5, <1>6, <2>2
    <3>2. ToSet(f[k]) \subseteq ToSet(sink)
      BY <1>5, <3>1 DEF ConfirmInv, RouterAfterSink
    <3> QED BY <1>4, <1>7, <3>1, <3>2
  <2> QED BY <2>1, <2>2
<1>11. RouterAfterSink'
  <2>1. to_client \cup latency_hist \subseteq ToSet(sink')
    BY <1>4 DEF ConfirmInv, RouterAfterSink
  <2> QED BY <1>1, <1>8, <1>9, <1>10, <2>1 DEF RouterAfterSink
<1>12. PathTyped'
  BY <1>1, <1>3, <1>4, <1>7, <1>9 DEF ConfirmInv, PathTyped
<1> QED BY <1>1, <1>11, <1>12
        DEF ConfirmInv, Known, Unregistered, BatchesAscend, MadeByClient, RegisteredOnce

\* Steps of the router and of the client that make nothing known.
LEMMA PathKnownShrinks ==
    ASSUME ConfirmInv, PathTyped', RegisteredOnce', RouterAfterSink', Known' \subseteq Known,
           UNCHANGED <<tx_id, to_server, batch>>
    PROVE  ConfirmInv'
BY DEF ConfirmInv, Unregistered, BatchesAscend, MadeByClient

\* The router takes a registration.
LEMMA PathRouterRegister ==
    ASSUME ConfirmInv, RouterRegister
    PROVE  ConfirmInv'
<1>1. /\ registrations # <<>> /\ pending' = pending \cup {Head(registrations)}
      /\ registrations' = Tail(registrations)
      /\ UNCHANGED <<tx_id, latency_hist, to_server, batch, ingress, batcher, fanout, sink,
                     for_confirm, to_client>>
  BY DEF RouterRegister, clientVars, listenerVars, deliveryVars
<1>2. PICK r \in Seq(Nat) : r = registrations
  BY DEF ConfirmInv, PathTyped
<1>3. /\ Head(r) \in Nat /\ Tail(r) \in Seq(Nat) /\ ToSet(r) = {Head(r)} \cup ToSet(Tail(r))
  BY <1>1, <1>2, MembersOfTail
<1>4. PICK n \in Nat : n = Len(r) /\ n > 0 /\ DOMAIN r = 1 .. n
  BY <1>1, <1>2
<1>5. /\ Head(r) = r[1] /\ DOMAIN Tail(r) = 1 .. n - 1
      /\ \A k \in 1 .. n - 1 : Tail(r)[k] = r[k + 1]
  BY <1>1, <1>2, <1>4
<1>6. \A i, j \in 1 .. n : r[i] = r[j] => i = j
  BY <1>2, <1>4 DEF ConfirmInv, RegisteredOnce
<1>7. ASSUME NEW i \in 1 .. n - 1, NEW j \in 1 .. n - 1, Tail(r)[i] = Tail(r)[j] PROVE i = j
  <2>1. r[i + 1] = r[j + 1] /\ i + 1 \in 1 .. n /\ j + 1 \in 1 .. n
    BY <1>4, <1>5, <1>7
  <2>2. i + 1 = j + 1
    BY <1>6, <2>1
  <2> QED BY <2>2
<1>8. Head(r) \notin ToSet(Tail(r))
  <2> SUFFICES ASSUME NEW i \in 1 .. n - 1, Tail(r)[i] = Head(r) PROVE FALSE
    BY <1>5 DEF ToSet
  <2>1. r[i + 1] = r[1] /\ i + 1 \in 1 .. n /\ 1 \in 1 .. n
    BY <1>4, <1>5
  <2>2. i + 1 = 1
    BY <1>6, <2>1
  <2> QED BY <2>2
<1>9. Known' = Known
  BY <1>1, <1>2, <1>3 DEF Known
<1>10. RegisteredOnce'
  <2>1. \A i, j \in DOMAIN Tail(r) : Tail(r)[i] = Tail(r)[j] => i = j
    BY <1>5, <1>7
  <2>2. /\ pending \cap ToSet(r) = {}
        /\ (to_client \cup latency_hist) \cap (pending \cup ToSet(r)) = {}
    BY <1>2 DEF ConfirmInv, RegisteredOnce
  <2>3. /\ (pending \cup {Head(r)}) \cap ToSet(Tail(r)) = {}
        /\ (to_client \cup latency_hist) \cap (pending \cup {Head(r)} \cup ToSet(Tail(r))) = {}
    BY <1>3, <1>8, <2>2
  <2> QED BY <1>1, <1>2, <2>1, <2>3 DEF RegisteredOnce
<1>11. RouterAfterSink'
  BY <1>1 DEF ConfirmInv, RouterAfterSink
<1>12. PathTyped'
  <2>1. registrations' \in Seq(Nat) /\ pending' \in SUBSET Nat
    BY <1>1, <1>2, <1>3 DEF ConfirmInv, PathTyped
  <2> QED BY <1>1, <2>1 DEF ConfirmInv, PathTyped
<1> QED BY <1>1, <1>9, <1>10, <1>11, <1>12, PathKnownShrinks

\* The router answers for what it finds registered of a committed batch.
LEMMA PathRouterCommit ==
    ASSUME ConfirmInv, RouterCommit
    PROVE  ConfirmInv'
<1>f. PICK found : found = ToSet(Head(for_confirm)) \cap pending
  OBVIOUS
<1>1. PICK delivered \in SUBSET found :
          /\ pending' = pending \ found
          /\ to_client' = to_client \cup delivered
  BY <1>f DEF RouterCommit, Reply
<1>2. /\ for_confirm # <<>> /\ for_confirm' = Tail(for_confirm)
      /\ UNCHANGED <<tx_id, latency_hist, to_server, batch, ingress, registrations, batcher,
                     fanout, sink>>
  BY DEF RouterCommit, clientVars, listenerVars
<1>3. PICK f \in Seq(Seq(Nat)) : f = for_confirm
  BY DEF ConfirmInv, PathTyped
<1>4. /\ Head(f) = f[1] /\ 1 \in DOMAIN f /\ Tail(f) \in Seq(Seq(Nat))
      /\ \A k \in DOMAIN Tail(f) : k + 1 \in DOMAIN f /\ Tail(f)[k] = f[k + 1]
  BY <1>2, <1>3, TailOfBatches
<1>5. \A k \in DOMAIN f : ToSet(f[k]) \subseteq ToSet(sink)
  BY <1>3 DEF ConfirmInv, RouterAfterSink
<1>6. found \subseteq ToSet(sink) /\ found \subseteq pending /\ delivered \subseteq found
  BY <1>f, <1>1, <1>3, <1>4, <1>5
<1>7. Known' \subseteq Known
  BY <1>1, <1>2, <1>6 DEF Known
<1>8. RouterAfterSink'
  <2>1. \A k \in DOMAIN Tail(f) : ToSet(Tail(f)[k]) \subseteq ToSet(sink)
    BY <1>4, <1>5
  <2>2. to_client' \cup latency_hist \subseteq ToSet(sink)
    BY <1>1, <1>6 DEF ConfirmInv, RouterAfterSink
  <2> QED BY <1>2, <1>3, <2>1, <2>2 DEF RouterAfterSink
<1>9. RegisteredOnce'
  <2>1. /\ \A i, j \in DOMAIN registrations : registrations[i] = registrations[j] => i = j
        /\ pending \cap ToSet(registrations) = {}
        /\ (to_client \cup latency_hist) \cap (pending \cup ToSet(registrations)) = {}
    BY DEF ConfirmInv, RegisteredOnce
  <2>2. /\ pending' \cap ToSet(registrations) = {}
        /\ (to_client' \cup latency_hist) \cap (pending' \cup ToSet(registrations)) = {}
    BY <1>1, <1>6, <2>1
  <2> QED BY <1>2, <2>1, <2>2 DEF RegisteredOnce
<1>10. PathTyped'
  <2>1. /\ for_confirm' \in Seq(Seq(Nat)) /\ pending' \in SUBSET Nat
        /\ to_client' \in SUBSET Nat
    BY <1>1, <1>2, <1>3, <1>4, <1>6 DEF ConfirmInv, PathTyped
  <2> QED BY <1>2, <2>1 DEF ConfirmInv, PathTyped
<1> QED BY <1>2, <1>7, <1>8, <1>9, <1>10, PathKnownShrinks

\* The client takes a Confirmation.
LEMMA PathConfirmation ==
    ASSUME ConfirmInv, RecvConfirmation
    PROVE  ConfirmInv'
<1>1. PICK t \in to_client : /\ to_client' = to_client \ {t}
                             /\ latency_hist' = latency_hist \cup ({t} \cap DOMAIN send_ts)
  BY DEF RecvConfirmation
<1>2. UNCHANGED <<tx_id, to_server, batch, ingress, registrations, batcher, fanout, sink,
                  for_confirm, pending>>
  BY DEF RecvConfirmation, listenerVars, deliveryVars
<1>3. to_client' \cup latency_hist' \subseteq to_client \cup latency_hist
  BY <1>1
<1>4. Known' \subseteq Known
  BY <1>2, <1>3 DEF Known
<1>5. RouterAfterSink'
  BY <1>2, <1>3 DEF ConfirmInv, RouterAfterSink
<1>6. RegisteredOnce'
  BY <1>2, <1>3 DEF ConfirmInv, RegisteredOnce
<1>7. PathTyped'
  BY <1>1, <1>2 DEF ConfirmInv, PathTyped
<1> QED BY <1>2, <1>4, <1>5, <1>6, <1>7, PathKnownShrinks

----------------------------------------------------------------------------
\* Blocks taken are admitted, and their payloads are sequences.
LEMMA TakenBlocks ==
    ASSUME StoreInv
    PROVE  /\ Taken \in Nat /\ Taken <= Len(payload) /\ Taken <= committed_high
           /\ committed_high \in 0 .. Len(payload)
           /\ payload \in Seq(Seq(Nat)) /\ SubSeq(payload, 1, Taken) \in Seq(Seq(Nat))
<1>1. /\ Taken \in Nat /\ payload \in Seq(Seq(Nat)) /\ committed_high \in 0 .. Len(payload)
      /\ Len(commit_items) \in Nat /\ Len(payload) \in Nat
  BY DEF StoreInv, StoreTyped, QueueIsContiguous
<1>2. Taken <= committed_high /\ Taken <= Len(payload)
  BY <1>1 DEF Taken
<1>3. SubSeq(payload, 1, Taken) \in Seq(Seq(Nat))
  <2>1. 1 \in Nat /\ 1 <= 1 /\ 1 <= Taken + 1
    BY <1>1
  <2> QED BY <1>1, <1>2, <2>1, SegmentOf
<1> QED BY <1>1, <1>2, <1>3

\* A sealed batch is a run of transactions the batcher has.
LEMMA RunOfBatcher ==
    ASSUME DeliveryInv, NEW k \in 1 .. Min({MaxBatch, Len(batcher)})
    PROVE  /\ k \in Nat /\ 1 <= k /\ k <= Len(batcher)
           /\ SubSeq(batcher, 1, k) \in Seq(Nat)
<1>3. PICK n \in Nat : n = Len(batcher) /\ batcher \in Seq(Nat)
  BY DEF DeliveryInv, ConfirmInv, PathTyped
<1>4. k \in Nat /\ 1 <= k /\ k <= n
  <2>1. \E x \in {MaxBatch, n} : \A y \in {MaxBatch, n} : x <= y
    BY BatchAssumption, LeastNat
  <2>2. Min({MaxBatch, n}) \in {MaxBatch, n} /\ Min({MaxBatch, n}) <= n
    BY <2>1 DEF Min
  <2>3. PICK m \in Nat : m = Min({MaxBatch, n}) /\ m <= n
    BY <2>2, BatchAssumption
  <2>4. k \in 1 .. m
    BY <1>3, <2>3
  <2> QED BY <2>3, <2>4
<1>5. PICK block \in Seq(Nat) : block = SubSeq(batcher, 1, k)
  <2>1. SubSeq(batcher, 1, k) \in Seq(Nat)
    <3>1. 1 \in Nat /\ 1 <= 1 /\ 1 <= k + 1 /\ k <= Len(batcher)
      BY <1>3, <1>4
    <3> QED BY <1>3, <1>4, <3>1, SegmentOf
  <2> QED BY <2>1
<1> QED BY <1>3, <1>4, <1>5

\* A sealed batch becomes a block.
LEMMA StepPropose ==
    ASSUME DeliveryInv, Propose
    PROVE  DeliveryInv'
<1>1. PICK k \in 1 .. Min({MaxBatch, Len(batcher)}) :
          /\ Insert(SubSeq(batcher, 1, k))
          /\ batcher' = SubSeq(batcher, k + 1, Len(batcher))
  BY DEF Propose
<1>2. UNCHANGED <<tx_id, latency_hist, to_server, batch, ingress, registrations, fanout, sink,
                  for_confirm, pending, to_client>>
  BY DEF Propose, clientVars, listenerVars, deliveryVars
<1>3. PICK n \in Nat : n = Len(batcher) /\ batcher \in Seq(Nat)
  BY DEF DeliveryInv, ConfirmInv, PathTyped
<1>4. k \in Nat /\ 1 <= k /\ k <= n
  BY <1>3, RunOfBatcher
<1>5. PICK block \in Seq(Nat) : block = SubSeq(batcher, 1, k)
  BY RunOfBatcher
<1>6. StoreInv'
  BY <1>1, <1>5, StoreInsert DEF DeliveryInv
<1>7. ConfirmInv'
  <2>1. batcher' \in Seq(Nat)
    <3>1. k + 1 \in Nat /\ 1 <= k + 1 /\ k + 1 <= n + 1 /\ n <= Len(batcher)
      BY <1>3, <1>4
    <3> QED BY <1>1, <1>3, <3>1, SegmentOf
  <2>2. PathTyped'
    BY <1>2, <2>1 DEF DeliveryInv, ConfirmInv, PathTyped
  <2> QED BY <1>2, <2>2, PathMoved DEF DeliveryInv
<1>8. DeliveredInOrder'
  <2>1. payload' = Append(payload, block) /\ UNCHANGED <<committed_high, commit_items>>
    BY <1>1, <1>5 DEF Insert, committerVars
  <2>2. PICK t \in Nat, p \in Seq(Seq(Nat)) : t = Taken /\ p = payload /\ t <= Len(p)
    BY TakenBlocks DEF DeliveryInv
  <2>3. Taken' = t
    BY <2>1, <2>2 DEF Taken
  <2>4. SubSeq(Append(p, block), 1, t) = SubSeq(p, 1, t)
    BY <2>2, FirstOfAppend
  <2>5. SubSeq(payload', 1, Taken') = SubSeq(payload, 1, Taken)
    BY <2>1, <2>2, <2>3, <2>4
  <2> QED BY <1>2, <2>5 DEF DeliveryInv, DeliveredInOrder
<1> QED BY <1>6, <1>7, <1>8 DEF DeliveryInv

\* The committer sends a payload to the fan-out.
LEMMA StepEmit ==
    ASSUME DeliveryInv, Emit
    PROVE  DeliveryInv'
<1>a. \A a, b, c \in Seq(Nat) : (a \o b) \o c = a \o (b \o c)
  <2>1. Regroups(Nat)
    BY Regroup, Zenon
  <2> QED BY <2>1 DEF Regroups
<1>1. /\ EmitNext /\ fanout' = Append(fanout, payload[emitting'])
      /\ UNCHANGED <<tx_id, latency_hist, to_server, batch, ingress, registrations, batcher,
                     sink, for_confirm, pending, to_client>>
  BY DEF Emit, clientVars, listenerVars
<1>2. StoreInv' /\ emitting' \in 1 .. Len(payload)
  BY <1>1, StoreEmit DEF DeliveryInv
<1>3. /\ commit_items # <<>> /\ commit_items' = Tail(commit_items) /\ emitting = 0
      /\ UNCHANGED <<payload, committed_high>>
  BY <1>1 DEF EmitNext, cacheVars
<1>4. PICK t \in Nat, p \in Seq(Seq(Nat)) : t = Taken /\ p = payload /\ t <= Len(p)
  BY TakenBlocks DEF DeliveryInv
<1>5. Taken' = t + 1
  <2>1. Len(commit_items') = Len(commit_items) - 1 /\ Len(commit_items) \in Nat
        /\ committed_high \in Nat
    BY <1>3, HeadTailProperties DEF DeliveryInv, StoreInv, StoreTyped
  <2> QED BY <1>3, <1>4, <2>1 DEF Taken
<1>6. emitting' = t + 1
  <2>1. Head(commit_items) = commit_items[1] /\ 1 \in 1 .. Len(commit_items)
    BY <1>3 DEF DeliveryInv, StoreInv, StoreTyped
  <2> QED BY <1>1, <1>4, <2>1 DEF EmitNext, DeliveryInv, StoreInv, QueueIsContiguous
<1>7. PICK k \in 1 .. Len(p) : k = t + 1 /\ k - 1 = t /\ k = emitting'
  BY <1>2, <1>4, <1>6
<1>8. PICK x \in Seq(Nat), q \in Seq(Seq(Nat)) :
          x = p[k] /\ q = SubSeq(p, 1, t) /\ SubSeq(p, 1, k) = Append(q, x)
  <2>1. /\ p[k] \in Seq(Nat) /\ SubSeq(p, 1, k - 1) \in Seq(Seq(Nat))
        /\ SubSeq(p, 1, k) = Append(SubSeq(p, 1, k - 1), p[k])
    BY FirstAndNext
  <2> QED BY <1>7, <2>1
<1>9. PICK f \in Seq(Seq(Nat)), s \in Seq(Nat) : f = fanout /\ s = sink
  BY DEF DeliveryInv, ConfirmInv, PathTyped
<1>10. fanout' = Append(f, x)
  BY <1>1, <1>4, <1>7, <1>8, <1>9
<1>11. ConfirmInv'
  <2>1. fanout' \in Seq(Seq(Nat))
    BY <1>10, PlacesOfAppend
  <2>2. PathTyped'
    BY <1>1, <2>1 DEF DeliveryInv, ConfirmInv, PathTyped
  <2> QED BY <1>1, <2>2, PathMoved DEF DeliveryInv
<1>12. DeliveredInOrder'
  <2>1. FlattenSeq(Append(f, x)) = FlattenSeq(f) \o x
    BY FlattenAppend
  <2>2. FlattenSeq(Append(q, x)) = FlattenSeq(q) \o x
    BY FlattenAppend
  <2>3. PICK a \in Seq(Nat) : a = FlattenSeq(f)
    BY FlattenType
  <2>4. s \o (a \o x) = (s \o a) \o x
    BY <1>a
  <2>5. s \o a = FlattenSeq(q)
    BY <1>4, <1>8, <1>9, <2>3 DEF DeliveryInv, DeliveredInOrder
  <2>6. s \o FlattenSeq(Append(f, x)) = FlattenSeq(Append(q, x))
    BY <2>1, <2>2, <2>3, <2>4, <2>5, Zenon
  <2>7. SubSeq(payload', 1, Taken') = Append(q, x)
    BY <1>3, <1>4, <1>5, <1>7, <1>8
  <2>8. sink' = s /\ fanout' = Append(f, x)
    BY <1>1, <1>9, <1>10
  <2> QED BY <2>6, <2>7, <2>8, Zenon DEF DeliveredInOrder
<1> QED BY <1>2, <1>11, <1>12 DEF DeliveryInv

\* The fan-out passes a payload on.
LEMMA StepFanOut ==
    ASSUME DeliveryInv, FanOut, UNCHANGED dbVars
    PROVE  DeliveryInv'
<1>a. \A a, b, c \in Seq(Nat) : (a \o b) \o c = a \o (b \o c)
  <2>1. Regroups(Nat)
    BY Regroup, Zenon
  <2> QED BY <2>1 DEF Regroups
<1>1. StoreInv' /\ ConfirmInv'
  BY StoreUntouched, PathFanOut DEF DeliveryInv
<1>2. fanout # <<>> /\ sink' = sink \o Head(fanout) /\ fanout' = Tail(fanout)
  BY DEF FanOut
<1>3. PICK f \in Seq(Seq(Nat)), s \in Seq(Nat) : f = fanout /\ s = sink /\ f # <<>>
  BY <1>2 DEF DeliveryInv, ConfirmInv, PathTyped
<1>4. PICK x \in Seq(Nat), r \in Seq(Seq(Nat)) : x = Head(f) /\ r = Tail(f)
  BY <1>3, TailOfBatches
<1>5. PICK a \in Seq(Nat) : a = FlattenSeq(r)
  BY FlattenType
<1>6. FlattenSeq(f) = x \o a
  BY <1>3, <1>4, <1>5, FlattenHead
<1>7. (s \o x) \o a = s \o (x \o a)
  BY <1>a
<1>8. sink' \o FlattenSeq(fanout') = sink \o FlattenSeq(fanout)
  <2>1. sink' = s \o x /\ FlattenSeq(fanout') = a
    BY <1>2, <1>3, <1>4, <1>5
  <2> QED BY <1>3, <1>6, <1>7, <2>1, Zenon
<1>9. payload' = payload /\ Taken' = Taken
  BY DEF dbVars, cacheVars, committerVars, Taken
<1>10. DeliveredInOrder'
  BY <1>8, <1>9 DEF DeliveryInv, DeliveredInOrder
<1> QED BY <1>1, <1>10 DEF DeliveryInv

\* Steps that leave the sink, the fan-out and what is taken alone.
LEMMA DeliveryKept ==
    ASSUME DeliveryInv, StoreInv', ConfirmInv', Taken' = Taken,
           UNCHANGED <<payload, sink, fanout>>
    PROVE  DeliveryInv'
BY DEF DeliveryInv, DeliveredInOrder

\* A server that starts.
LEMMA DeliveryInit == Init => DeliveryInv
<1> SUFFICES ASSUME Init PROVE DeliveryInv
  OBVIOUS
<1>1. StoreInv /\ ConfirmInv
  BY StoreInit, PathInit DEF Init
<1>2. sink = <<>> /\ fanout = <<>> /\ payload = <<>>
  BY DEF Init, DBInit, ConfirmInit
<1>3. Taken = 0
  <2>1. Len(commit_items) = 0 /\ committed_high = 0
    BY DEF Init, DBInit
  <2> QED BY <2>1 DEF Taken
<1>4. SubSeq(payload, 1, 0) = <<>>
  BY SubSeqEmpty
<1>5. FlattenSeq(<<>>) = <<>> /\ <<>> \o <<>> = <<>>
  <2>1. <<>> \in Seq(Seq(Nat)) /\ <<>> \in Seq(Nat)
    BY EmptySeq
  <2>2. FlattenSeq(<<>>) = <<>>
    BY <2>1, FlattenType
  <2>3. <<>> \o <<>> = <<>>
    BY <2>1, ConcatEmptySeq
  <2> QED BY <2>2, <2>3
<1>6. DeliveredInOrder
  BY <1>2, <1>3, <1>4, <1>5, Zenon DEF DeliveredInOrder
<1> QED BY <1>1, <1>6 DEF DeliveryInv

\* Every step of every task keeps the invariant.
LEMMA DeliveryStep == DeliveryInv /\ [Next]_vars => DeliveryInv'
<1> SUFFICES ASSUME DeliveryInv, [Next]_vars PROVE DeliveryInv'
  OBVIOUS
<1>1. CASE UNCHANGED vars
  <2>1. UNCHANGED dbVars /\ UNCHANGED confirmVars
    BY <1>1 DEF vars
  <2>2. ConfirmInv'
    <3>1. UNCHANGED <<tx_id, latency_hist, to_server, batch, ingress, registrations, batcher,
                      fanout, sink, for_confirm, pending, to_client>>
      BY <2>1 DEF confirmVars, clientVars, listenerVars, deliveryVars
    <3>2. PathTyped'
      BY <3>1 DEF DeliveryInv, ConfirmInv, PathTyped
    <3> QED BY <3>1, <3>2, PathMoved DEF DeliveryInv
  <2>3. StoreInv'
    BY <2>1, StoreUntouched DEF DeliveryInv
  <2>4. Taken' = Taken /\ UNCHANGED <<payload, sink, fanout>>
    BY <2>1 DEF Taken, dbVars, cacheVars, committerVars, confirmVars, deliveryVars
  <2> QED BY <2>2, <2>3, <2>4, DeliveryKept
<1>2. CASE ClientStep
  <2>1. UNCHANGED dbVars /\ (BurstTick \/ RecvConfirmation)
    BY <1>2 DEF ClientStep
  <2>2. StoreInv' /\ ConfirmInv'
    BY <2>1, StoreUntouched, PathBurst, PathConfirmation DEF DeliveryInv
  <2>3. Taken' = Taken /\ payload' = payload
    BY <2>1 DEF Taken, dbVars, cacheVars, committerVars
  <2>4. UNCHANGED <<sink, fanout>>
    BY <2>1 DEF BurstTick, RecvConfirmation, deliveryVars
  <2> QED BY <2>2, <2>3, <2>4, DeliveryKept
<1>3. CASE ListenerStep
  <2>1. UNCHANGED dbVars /\ (ListenerRecv \/ ListenerForward \/ Forwarder)
    BY <1>3 DEF ListenerStep
  <2>2. StoreInv' /\ ConfirmInv'
    BY <2>1, StoreUntouched, PathRecv, PathForward, PathForwarder DEF DeliveryInv
  <2>3. Taken' = Taken /\ payload' = payload
    BY <2>1 DEF Taken, dbVars, cacheVars, committerVars
  <2>4. UNCHANGED <<sink, fanout>>
    BY <2>1 DEF ListenerRecv, ListenerForward, Forwarder, deliveryVars
  <2> QED BY <2>2, <2>3, <2>4, DeliveryKept
<1>4. CASE RouterStep
  <2>1. UNCHANGED dbVars /\ (FanOut \/ RouterRegister \/ RouterCommit)
    BY <1>4 DEF RouterStep
  <2>2. CASE FanOut
    BY <2>1, <2>2, StepFanOut
  <2>3. CASE RouterRegister \/ RouterCommit
    <3>1. StoreInv' /\ ConfirmInv'
      BY <2>1, <2>3, StoreUntouched, PathRouterRegister, PathRouterCommit DEF DeliveryInv
    <3>2. Taken' = Taken /\ payload' = payload
      BY <2>1 DEF Taken, dbVars, cacheVars, committerVars
    <3>3. UNCHANGED <<sink, fanout>>
      BY <2>3 DEF RouterRegister, RouterCommit, deliveryVars
    <3> QED BY <3>1, <3>2, <3>3, DeliveryKept
  <2> QED BY <2>1, <2>2, <2>3
<1>5. CASE Propose
  BY <1>5, StepPropose
<1>6. CASE Emit
  BY <1>6, StepEmit
<1>7. CASE Commit \/ StoreStep
  <2>1. UNCHANGED confirmVars
    BY <1>7 DEF Commit, StoreStep
  <2>2. UNCHANGED <<tx_id, latency_hist, to_server, batch, ingress, registrations, batcher,
                    fanout, sink, for_confirm, pending, to_client>>
    BY <2>1 DEF confirmVars, clientVars, listenerVars, deliveryVars
  <2>3. ConfirmInv'
    <3>1. PathTyped'
      BY <2>2 DEF DeliveryInv, ConfirmInv, PathTyped
    <3> QED BY <2>2, <3>1, PathMoved DEF DeliveryInv
  <2>4. StoreInv'
    <3>1. CASE Commit
      <4>1. PICK pinned \in committed_high + 1 .. Len(payload) : CommitUpTo(pinned)
        BY <3>1 DEF Commit
      <4>2. pinned \in Nat
        <5>1. committed_high \in Nat /\ Len(payload) \in Nat
          BY DEF DeliveryInv, StoreInv, StoreTyped
        <5> QED BY <4>1, <5>1
      <4> QED BY <4>1, <4>2, StoreCommit DEF DeliveryInv
    <3>2. CASE StoreStep
      BY <3>2, StoreWrite, StoreRaise DEF StoreStep, DeliveryInv
    <3> QED BY <1>7, <3>1, <3>2
  <2>5. Taken' = Taken /\ payload' = payload
    <3>1. CASE StoreStep
      BY <3>1 DEF StoreStep, WriteSpilled, RaiseEmitted, committerVars, cacheVars, Taken
    <3>2. CASE Commit
      <4>1. PICK pinned : CommitUpTo(pinned)
        BY <3>2 DEF Commit
      <4>2. payload' = payload /\ UNCHANGED <<emitting, emitted_high>>
        BY <4>1 DEF CommitUpTo, cacheVars
      <4>3. /\ StoreInv /\ Taken \in Nat /\ Taken' \in Nat
            /\ emitting = 0 => emitted_high = Taken
            /\ emitting # 0 => emitting = Taken
        BY <2>4 DEF DeliveryInv, StoreInv, QueueIsContiguous
      <4>4. /\ emitting' = 0 => emitted_high' = Taken'
            /\ emitting' # 0 => emitting' = Taken'
        BY <2>4 DEF StoreInv, QueueIsContiguous
      <4> QED BY <4>2, <4>3, <4>4
    <3> QED BY <1>7, <3>1, <3>2
  <2> QED BY <2>2, <2>3, <2>4, <2>5, DeliveryKept
<1> QED BY <1>1, <1>2, <1>3, <1>4, <1>5, <1>6, <1>7 DEF Next

\* The invariant holds at all times, whatever the order of the tasks' steps.
LEMMA DeliveryInvariant == Spec => []DeliveryInv
BY DeliveryInit, DeliveryStep, PTL DEF Spec

\* Whatever is evicted, spilled, committed and emitted in between, a block that
\* is not emitted can be had, and one handed over by name is, or will be, on disk:
\* cache_put, the writer, on_committed_attestation and the committer.
THEOREM NothingUnemittedLost == Spec => []UnemittedKept
<1>1. DeliveryInv => UnemittedKept
  BY DEF DeliveryInv, StoreInv
<1> QED BY <1>1, DeliveryInvariant, PTL

\* The application gets the payloads of the chain in order, each once, and none
\* that is not committed.
THEOREM DeliveryInOrder == Spec => []SinkFollowsChain
<1>1. DeliveryInv => SinkFollowsChain
  <2> SUFFICES ASSUME DeliveryInv PROVE SinkFollowsChain
    OBVIOUS
  <2>1. PICK t \in Nat, c \in Nat, p \in Seq(Seq(Nat)) :
            t = Taken /\ c = committed_high /\ p = payload
    BY TakenBlocks DEF DeliveryInv
  <2>2. t \in 0 .. Len(p) /\ c \in t .. Len(p)
    <3>1. /\ Taken \in Nat /\ Taken <= Len(payload) /\ Taken <= committed_high
          /\ committed_high \in 0 .. Len(payload) /\ Len(payload) \in Nat
      BY TakenBlocks DEF DeliveryInv
    <3> QED BY <2>1, <3>1
  <2>3. PICK b \in Seq(Nat) :
            FlattenSeq(SubSeq(p, 1, c)) = FlattenSeq(SubSeq(p, 1, t)) \o b
    BY <2>2, FlattenGrows
  <2>4. PICK a \in Seq(Nat) : a = FlattenSeq(SubSeq(p, 1, t))
    <3>1. SubSeq(p, 1, t) \in Seq(Seq(Nat))
      BY <2>1, TakenBlocks DEF DeliveryInv
    <3> QED BY <3>1, FlattenType
  <2>5. sink \o FlattenSeq(fanout) = a
    BY <2>1, <2>4 DEF DeliveryInv, DeliveredInOrder
  <2>6. IsPrefix(a, a \o b)
    BY PrefixOfConcat
  <2> QED BY <2>1, <2>3, <2>4, <2>5, <2>6, Zenon DEF SinkFollowsChain
<1> QED BY <1>1, DeliveryInvariant, PTL

\* A confirmed transaction was delivered to the application, and its
\* registration is gone for good.
THEOREM ConfirmedOnceDelivered == Spec => []ConfirmedWasDelivered
<1>1. DeliveryInv => ConfirmedWasDelivered
  BY DEF DeliveryInv, ConfirmInv, RouterAfterSink, RegisteredOnce, ConfirmedWasDelivered
<1> QED BY <1>1, DeliveryInvariant, PTL
----------------------------------------------------------------------------
\* w gives the sizes of the blocks at heights.
Weighs(w, blocks, heights) == \A x \in ToSet(heights) : w[x] = Size(blocks[x])

\* Bytes sums the sizes of a finite set of blocks, which a longer chain leaves alone.
LEMMA BytesIs ==
    ASSUME NEW blocks \in Seq(Seq(Nat)), NEW heights \in Seq(Nat),
           ToSet(heights) \subseteq 1 .. Len(blocks),
           NEW w, Weighs(w, blocks, heights)
    PROVE  /\ IsFiniteSet(ToSet(heights))
           /\ \A x \in ToSet(heights) : w[x] \in Nat
           /\ Bytes(blocks, heights) = SumFunctionOnSet(w, ToSet(heights))
<1> DEFINE H == ToSet(heights)
           f == [x \in H |-> Size(blocks[x])]
<1>1. IsFiniteSet(H)
  <2>1. Len(blocks) \in Int /\ IsFiniteSet(1 .. Len(blocks))
    BY FS_Interval
  <2> QED BY <2>1, FS_Subset
<1>2. \A x \in H : w[x] \in Nat
  <2>1. \A x \in 1 .. Len(blocks) : blocks[x] \in Seq(Nat) /\ Size(blocks[x]) \in Nat
    BY DEF Size
  <2> QED BY <2>1 DEF Weighs
<1>3. \A x \in H : f[x] = w[x]
  BY DEF Weighs
<1>4. Bytes(blocks, heights) = SumFunctionOnSet(f, H)
  BY DEF Bytes
<1> HIDE DEF H, f
<1>5. SumFunctionOnSet(f, H) = SumFunctionOnSet(w, H)
  BY <1>1, <1>3, SumAgree
<1> QED BY <1>1, <1>2, <1>4, <1>5 DEF H

\* r is a run of the heights after c.
RunsFrom(r, c) == \A i \in 1 .. Len(r) : r[i] = c + i

\* s lists the heights from lo to hi.
Covers(s, lo, hi) == s \in Seq(Nat) /\ ToSet(s) = lo .. hi

\* A piece of a run of consecutive heights holds an interval of them.
LEMMA PieceOfRun ==
    ASSUME NEW r \in Seq(Nat), NEW c \in Nat, RunsFrom(r, c),
           NEW a \in Nat, NEW b \in Nat, 1 <= a, a <= b + 1, b <= Len(r)
    PROVE  Covers(SubSeq(r, a, b), c + a, c + b)
<1>1. PICK s : s = SubSeq(r, a, b)
  OBVIOUS
<1>2. /\ s \in Seq(Nat) /\ Len(s) = b - a + 1
      /\ \A i \in 1 .. b - a + 1 : s[i] = r[a + i - 1]
  <2>1. IsSegment(SubSeq(r, a, b), Nat, r, a, b)
    BY SegmentIs, Zenon
  <2> QED BY <1>1, <2>1 DEF IsSegment
<1>3. PICK n \in Nat : n = Len(r) /\ \A i \in 1 .. n : r[i] = c + i
  BY DEF RunsFrom
<1>4. ASSUME NEW x \in ToSet(s) PROVE x \in c + a .. c + b
  <2>1. PICK i \in 1 .. b - a + 1 : x = s[i]
    BY <1>2 DEF ToSet
  <2>2. a + i - 1 \in 1 .. n /\ a + i - 1 \in a .. b
    BY <1>3
  <2>3. x = c + (a + i - 1)
    BY <1>2, <1>3, <2>1, <2>2
  <2> QED BY <2>2, <2>3
<1>5. ASSUME NEW x \in c + a .. c + b PROVE x \in ToSet(s)
  <2>1. PICK i \in 1 .. b - a + 1 : x = c + (a + i - 1) /\ a + i - 1 \in 1 .. n
    <3>1. x - c - a + 1 \in 1 .. b - a + 1 /\ x = c + (a + (x - c - a + 1) - 1)
      OBVIOUS
    <3>2. \A i \in 1 .. b - a + 1 : a + i - 1 \in 1 .. n
      BY <1>3
    <3> QED BY <3>1, <3>2
  <2>2. s[i] = r[a + i - 1] /\ i \in DOMAIN s
    <3>1. DOMAIN s = 1 .. Len(s)
      BY <1>2
    <3> QED BY <1>2, <3>1, Zenon
  <2>3. s[i] = x
    BY <1>3, <2>1, <2>2
  <2> QED BY <2>2, <2>3 DEF ToSet
<1> QED BY <1>1, <1>2, <1>4, <1>5 DEF Covers

\* The cache before and after a block joins it and k blocks leave it, as intervals.
LEMMA CacheIntervals ==
    ASSUME NEW held \in Seq(Nat), NEW c \in Nat, RunsFrom(held, c), NEW k \in 0 .. Len(held),
           NEW heights, heights = Append(held, c + Len(held) + 1)
    PROVE  /\ Len(SubSeq(heights, k + 1, Len(heights))) = Len(held) + 1 - k
           /\ Covers(held, c + 1, c + Len(held))
           /\ Covers(SubSeq(heights, 1, k), c + 1, c + k)
           /\ Covers(SubSeq(heights, k + 1, Len(heights)), c + (k + 1), c + Len(heights))
<1>1. PICK n \in Nat : n = Len(held)
  OBVIOUS
<1>2. PICK h \in Nat : h = c + (n + 1) /\ heights = Append(held, h)
  BY <1>1
<1>3. /\ heights \in Seq(Nat) /\ heights # <<>> /\ Len(heights) = n + 1
      /\ \A i \in 1 .. n : heights[i] = held[i]
      /\ heights[n + 1] = h
  BY <1>1, <1>2, PlacesOfAppend
<1>4. RunsFrom(heights, c)
  <2>1. \A i \in 1 .. n : held[i] = c + i
    BY <1>1 DEF RunsFrom
  <2>2. \A i \in 1 .. n + 1 : i \in 1 .. n \/ i = n + 1
    OBVIOUS
  <2> QED BY <1>2, <1>3, <2>1, <2>2 DEF RunsFrom
<1>5. /\ 1 \in Nat /\ 1 <= 1 /\ 1 <= n + 1 /\ n <= Len(held)
      /\ k \in Nat /\ 1 <= k + 1 /\ k <= Len(heights)
      /\ k + 1 \in Nat /\ Len(heights) \in Nat /\ k + 1 <= Len(heights) + 1
      /\ Len(heights) <= Len(heights)
  BY <1>1, <1>3
<1>6. SubSeq(held, 1, n) = held
  BY <1>1
<1>7. Covers(SubSeq(held, 1, n), c + 1, c + n)
  BY <1>5, PieceOfRun
<1>8. Covers(SubSeq(heights, 1, k), c + 1, c + k)
  BY <1>3, <1>4, <1>5, PieceOfRun
<1>9. Covers(SubSeq(heights, k + 1, Len(heights)), c + (k + 1), c + Len(heights))
  BY <1>3, <1>4, <1>5, PieceOfRun
<1>10. Len(SubSeq(heights, k + 1, Len(heights))) = n + 1 - k
  BY <1>1, <1>3
<1> QED BY <1>1, <1>3, <1>6, <1>7, <1>8, <1>9, <1>10

\* The sums of w over three intervals, and how they relate.
SumsBalance(w, c, n, k) ==
    \E a, b, d \in Nat : /\ a = SumFunctionOnSet(w, c + 1 .. c + n)
                         /\ b = SumFunctionOnSet(w, c + 1 .. c + k)
                         /\ d = SumFunctionOnSet(w, c + (k + 1) .. c + (n + 1))
                         /\ d = a + w[c + (n + 1)] - b

\* The sizes of blocks given by a weight: what stays, with what goes, is what was
\* there with the new one.
LEMMA IntervalsBalance ==
    ASSUME NEW c \in Nat, NEW n \in Nat, NEW k \in Nat, k <= n,
           NEW w \in [1 .. c + (n + 1) -> Nat]
    PROVE  SumsBalance(w, c, n, k)
<1> DEFINE Sum(X) == SumFunctionOnSet(w, X)
<1>1. PICK S, H, O, K, h : /\ S = c + 1 .. c + (n + 1) /\ H = c + 1 .. c + n
                           /\ O = c + 1 .. c + k /\ K = c + (k + 1) .. c + (n + 1)
                           /\ h = c + (n + 1)
  OBVIOUS
<1>2. /\ h \in S /\ S \ {h} = H /\ O \in SUBSET S /\ S \ O = K
      /\ S \subseteq 1 .. c + (n + 1)
  <2>1. /\ \A x \in Int : /\ x \in S <=> c + 1 <= x /\ x <= h
                          /\ x \in H <=> c + 1 <= x /\ x < h
                          /\ x \in O <=> c + 1 <= x /\ x <= c + k
                          /\ x \in K <=> c + k < x /\ x <= h
        /\ S \cup H \cup O \cup K \subseteq Int /\ h \in Int
    BY <1>1
  <2>2. c + 1 <= h /\ c + k < h /\ c + 1 <= c + (k + 1)
    BY <1>1
  <2>3. h \in S /\ O \in SUBSET S
    BY <2>1, <2>2
  <2>4. S \ {h} = H
    BY <2>1
  <2>5. S \ O = K
    BY <2>1, <2>2
  <2>6. S \subseteq 1 .. c + (n + 1)
    BY <1>1
  <2> QED BY <2>3, <2>4, <2>5, <2>6
<1>3. IsFiniteSet(S)
  BY <1>1, FS_Interval
<1>4. \A x \in S : w[x] \in Nat
  BY <1>2
<1>5. Sum(S \ {h}) \in Nat /\ Sum(S) = w[h] + Sum(S \ {h})
  BY <1>2, <1>3, <1>4, SumRemove
<1>6. Sum(O) \in Nat /\ Sum(S \ O) \in Nat /\ Sum(S) = Sum(O) + Sum(S \ O)
  BY <1>2, <1>3, <1>4, SumParts
<1>7. /\ Sum(H) \in Nat /\ Sum(O) \in Nat /\ Sum(K) \in Nat
      /\ Sum(K) = Sum(H) + w[h] - Sum(O)
  <2>1. w[h] \in Nat
    BY <1>2, <1>4
  <2>2. PICK a \in Nat, b \in Nat, d \in Nat, e \in Nat :
            /\ a = Sum(H) /\ b = Sum(O) /\ d = Sum(K) /\ e = w[h] /\ e + a = b + d
    BY <1>2, <1>5, <1>6, <2>1
  <2>3. e + a = b + d
    BY <2>2
  <2>4. d = a + e - b
    BY <2>3
  <2> QED BY <2>2, <2>4
<1> QED BY <1>1, <1>7 DEF SumsBalance

\* The sizes of held and block are those of out and kept.
Balances(p, block, held, out, kept) ==
    /\ Bytes(p, held) \in Nat /\ Bytes(Append(p, block), out) \in Nat
    /\ Size(block) \in Nat
    /\ Bytes(Append(p, block), kept)
         = Bytes(p, held) + Size(block) - Bytes(Append(p, block), out)

\* cache_put's books: with the new block in and the evicted ones out, what is left
\* takes what was there, and the new block, without the evicted ones.
LEMMA BooksBalance ==
    ASSUME NEW p \in Seq(Seq(Nat)), NEW block \in Seq(Nat),
           NEW c \in Nat, NEW n \in Nat, Len(p) = c + n, NEW k \in Nat, k <= n,
           NEW held, Covers(held, c + 1, c + n),
           NEW out, Covers(out, c + 1, c + k),
           NEW kept, Covers(kept, c + (k + 1), c + (n + 1))
    PROVE  Balances(p, block, held, out, kept)
<1>1. PICK h \in Nat : h = c + (n + 1)
  OBVIOUS
<1>2. PICK blocks : blocks = Append(p, block)
  OBVIOUS
<1>3. /\ blocks \in Seq(Seq(Nat)) /\ Len(blocks) = h /\ blocks[h] = block
      /\ \A x \in 1 .. Len(p) : blocks[x] = p[x]
  <2>1. /\ Append(p, block) \in Seq(Seq(Nat)) /\ Len(Append(p, block)) = Len(p) + 1
        /\ Append(p, block)[Len(p) + 1] = block
        /\ \A x \in 1 .. Len(p) : Append(p, block)[x] = p[x]
    <3>1. PICK T : T = Seq(Nat)
      OBVIOUS
    <3>2. p \in Seq(T) /\ block \in T
      BY <3>1
    <3>3. /\ Append(p, block) \in Seq(T) /\ Len(Append(p, block)) = Len(p) + 1
          /\ Append(p, block)[Len(p) + 1] = block
          /\ \A x \in 1 .. Len(p) : Append(p, block)[x] = p[x]
      BY <3>2, PlacesOfAppend
    <3> QED BY <3>1, <3>3, Zenon
  <2>2. h = Len(p) + 1
    BY <1>1
  <2> QED BY <1>2, <2>1, <2>2
<1>4. PICK w : w = [x \in 1 .. h |-> Size(blocks[x])]
  OBVIOUS
<1>5. /\ ToSet(held) \subseteq 1 .. Len(p) /\ ToSet(held) \subseteq 1 .. h
      /\ ToSet(out) \subseteq 1 .. h /\ ToSet(kept) \subseteq 1 .. h
  BY <1>1 DEF Covers
<1>6. held \in Seq(Nat) /\ out \in Seq(Nat) /\ kept \in Seq(Nat)
  BY DEF Covers
<1>7. Weighs(w, p, held) /\ Weighs(w, blocks, out) /\ Weighs(w, blocks, kept)
  BY <1>3, <1>4, <1>5 DEF Weighs
<1>8. /\ Bytes(p, held) = SumFunctionOnSet(w, ToSet(held))
      /\ Bytes(blocks, out) = SumFunctionOnSet(w, ToSet(out))
      /\ Bytes(blocks, kept) = SumFunctionOnSet(w, ToSet(kept))
  BY <1>3, <1>5, <1>6, <1>7, BytesIs
<1>9. h \in 1 .. h /\ \A x \in 1 .. h : Size(blocks[x]) \in Nat
  <2>1. \A x \in 1 .. h : blocks[x] \in Seq(Nat)
    BY <1>3
  <2> QED BY <1>1, <2>1 DEF Size
<1>10. w \in [1 .. c + (n + 1) -> Nat] /\ w[c + (n + 1)] = Size(block)
  BY <1>1, <1>3, <1>4, <1>9
<1>11. PICK a, b, d \in Nat : /\ a = SumFunctionOnSet(w, c + 1 .. c + n)
                              /\ b = SumFunctionOnSet(w, c + 1 .. c + k)
                              /\ d = SumFunctionOnSet(w, c + (k + 1) .. c + (n + 1))
                              /\ d = a + w[c + (n + 1)] - b
  <2>1. SumsBalance(w, c, n, k)
    BY <1>10, IntervalsBalance
  <2> QED BY <2>1 DEF SumsBalance
<1>12. Bytes(p, held) = a /\ Bytes(blocks, out) = b /\ Bytes(blocks, kept) = d
  BY <1>8, <1>11 DEF Covers
<1>13. Size(block) \in Nat
  BY <1>1, <1>3, <1>9
<1> QED BY <1>2, <1>10, <1>11, <1>12, <1>13 DEF Balances

\* insert keeps the books and the budget.
LEMMA BudgetInsert ==
    ASSUME StoreInv, CacheWithinBudget, NEW block \in Seq(Nat), Insert(block)
    PROVE  CacheWithinBudget'
<1>1. PICK p \in Seq(Seq(Nat)), held \in Seq(Nat) :
          /\ p = payload /\ held = order /\ Len(held) <= Len(p)
          /\ RunsFrom(held, Len(p) - Len(held))
  BY DEF StoreInv, StoreTyped, CacheIsTail, RunsFrom
<1>2. PICK c \in Nat, n \in Nat : n = Len(held) /\ Len(p) = c + n /\ RunsFrom(held, c)
  <2>1. PICK m \in Nat, n \in Nat : n = Len(held) /\ m = Len(p) /\ n <= m
    BY <1>1
  <2>2. m - n \in Nat /\ m = (m - n) + n
    BY <2>1
  <2> QED BY <1>1, <2>1, <2>2
<1>3. PICK heights, blocks : heights = Append(held, Len(p) + 1) /\ blocks = Append(p, block)
  OBVIOUS
<1>h. heights = Append(held, c + Len(held) + 1)
  BY <1>2, <1>3
<1>4. PICK k : k = Evictions(blocks, heights, resident_bytes + Size(block))
  OBVIOUS
<1>5. /\ k \in 0 .. Len(heights) - 1
      /\ StopsAt(blocks, heights, resident_bytes + Size(block), k)
  <2>1. heights \in Seq(Nat) /\ heights # <<>>
    BY <1>2, <1>h, PlacesOfAppend
  <2> QED BY <1>4, <2>1, EvictionsBound
<1>6. k \in Nat /\ k <= n /\ k \in 0 .. Len(held) /\ Len(heights) = n + 1
  <2>1. Len(heights) = Len(held) + 1
    BY <1>h, PlacesOfAppend
  <2> QED BY <1>2, <1>5, <2>1
<1>7. /\ payload' = blocks /\ order' = SubSeq(heights, k + 1, Len(heights))
      /\ resident_bytes' = resident_bytes + Size(block) - Bytes(blocks, SubSeq(heights, 1, k))
  BY <1>1, <1>3, <1>4 DEF Insert
<1>i. PICK out, kept :
          /\ out = SubSeq(heights, 1, k) /\ kept = SubSeq(heights, k + 1, Len(heights))
          /\ Len(kept) = Len(held) + 1 - k /\ Covers(held, c + 1, c + Len(held))
          /\ Covers(out, c + 1, c + k) /\ Covers(kept, c + (k + 1), c + Len(heights))
  <2>1. /\ Len(SubSeq(heights, k + 1, Len(heights))) = Len(held) + 1 - k
        /\ Covers(held, c + 1, c + Len(held))
        /\ Covers(SubSeq(heights, 1, k), c + 1, c + k)
        /\ Covers(SubSeq(heights, k + 1, Len(heights)), c + (k + 1), c + Len(heights))
    BY <1>2, <1>6, <1>h, CacheIntervals
  <2> QED BY <2>1
<1>8. /\ Bytes(p, held) \in Nat /\ Bytes(blocks, out) \in Nat /\ Size(block) \in Nat
      /\ Bytes(blocks, kept) = Bytes(p, held) + Size(block) - Bytes(blocks, out)
  <2>1. Covers(held, c + 1, c + n) /\ Covers(kept, c + (k + 1), c + (n + 1))
    BY <1>2, <1>6, <1>i
  <2>2. Balances(p, block, held, out, kept)
    BY <1>2, <1>6, <1>i, <2>1, BooksBalance
  <2> QED BY <1>3, <2>2 DEF Balances
<1>9. resident_bytes = Bytes(p, held)
  BY <1>1 DEF CacheWithinBudget
<1>10. resident_bytes' = Bytes(payload', order')
  BY <1>7, <1>8, <1>9, <1>i
<1>11. k = n => Len(order') = 1
  BY <1>2, <1>6, <1>7, <1>i
<1>12. k = n \/ resident_bytes' <= CapBytes
  <2>1. k = Len(heights) - 1 => k = n
    BY <1>6
  <2>2. PICK x \in Int, y \in Int, z \in Int :
            x = resident_bytes /\ y = Size(block) /\ z = Bytes(blocks, SubSeq(heights, 1, k))
    BY <1>8, <1>9, <1>i
  <2> QED BY <1>5, <1>7, <2>1, <2>2 DEF StopsAt
<1> QED BY <1>10, <1>11, <1>12 DEF CacheWithinBudget

\* Only a proposal touches the cache.
LEMMA BudgetStep ==
    ASSUME DeliveryInv, CacheWithinBudget, [Next]_vars
    PROVE  CacheWithinBudget'
<1>1. CASE Propose
  <2>1. PICK k \in 1 .. Min({MaxBatch, Len(batcher)}) : Insert(SubSeq(batcher, 1, k))
    BY <1>1 DEF Propose
  <2>2. PICK block \in Seq(Nat) : block = SubSeq(batcher, 1, k)
    BY <2>1, RunOfBatcher
  <2> QED BY <2>1, <2>2, BudgetInsert DEF DeliveryInv
<1>2. CASE ~ Propose
  <2>1. UNCHANGED <<payload, order, resident_bytes>>
    BY <1>2 DEF Next, vars, dbVars, cacheVars, ClientStep, ListenerStep, RouterStep, Commit,
                CommitUpTo, StoreStep, WriteSpilled, RaiseEmitted, Emit, EmitNext
  <2> QED BY <2>1 DEF CacheWithinBudget
<1> QED BY <1>1, <1>2

\* resident_bytes is what the resident blocks take, and within the budget unless a
\* single block is over it: insert and cache_put.
THEOREM BudgetKept == Spec => []CacheWithinBudget
<1>1. Init => CacheWithinBudget
  <2> SUFFICES ASSUME Init PROVE CacheWithinBudget
    OBVIOUS
  <2>1. payload = <<>> /\ order = <<>> /\ resident_bytes = 0
    BY DEF Init, DBInit
  <2>2. ToSet(order) = {}
    BY <2>1 DEF ToSet
  <2>3. SumFunctionOnSet([h \in {} |-> Size(payload[h])], {}) = 0
    BY FS_EmptySet, SumRemove
  <2>4. Bytes(payload, order) = 0
    BY <2>2, <2>3 DEF Bytes
  <2> QED BY <2>1, <2>4, CapAssumption DEF CacheWithinBudget
<1>2. DeliveryInv /\ CacheWithinBudget /\ [Next]_vars => CacheWithinBudget'
  BY BudgetStep
<1> QED BY <1>1, <1>2, DeliveryInvariant, PTL DEF Spec
==============================================================================
