----------------------------- MODULE DataBlockDB -----------------------------
(***************************************************************************)
(* The payload store of a Zeus server and the committer that reads it.     *)
(*                                                                         *)
(* Three tasks share it.  The consensus loop inserts admitted blocks and   *)
(* walks the chain when an attestation commits; the background writer      *)
(* moves spilled blocks to RocksDB; the committer emits payloads and then  *)
(* raises the watermark emitted_high, which the consensus loop reads when  *)
(* it evicts.  A block is named by its height: the store is used on one    *)
(* chain (an equivocation is refused before insert), and each block of it  *)
(* is inserted once, because admission looks it up first.                  *)
(***************************************************************************)
EXTENDS Integers, Sequences, FiniteSetsExt, SequencesExt

CONSTANT CapBytes           \* cap_bytes, in units of 64 bytes

ASSUME CapAssumption == CapBytes \in Nat \ {0}

VARIABLES
    payload,                \* meta: the transactions of each admitted height
    order, resident_bytes,  \* the resident cache, oldest first, and its size
    write_queue, disk,      \* spilled blocks: on their way to RocksDB, in it
    committed_high,         \* zeus_committed_high
    commit_items,           \* items handed to the committer, still to do
    emitting,               \* height sent to the sink, watermark not raised yet
    emitted_high            \* the shared watermark

cacheVars == <<payload, order, resident_bytes, write_queue>>
committerVars == <<commit_items, emitting, emitted_high>>
dbVars == <<cacheVars, disk, committed_high, committerVars>>

DBInit ==
    /\ payload = <<>> /\ order = <<>> /\ resident_bytes = 0
    /\ write_queue = <<>> /\ disk = {}
    /\ committed_high = 0 /\ commit_items = <<>>
    /\ emitting = 0 /\ emitted_high = 0

----------------------------------------------------------------------------
\* The size insert accounts for a block: (payload.len() + 1) * 64.
Size(block) == Len(block) + 1

Bytes(blocks, heights) ==
    SumFunctionOnSet([h \in ToSet(heights) |-> Size(blocks[h])], ToSet(heights))

EvictionsOnce(blocks, heights, resident) ==
    IF resident > CapBytes /\ Len(heights) > 1 THEN 1 ELSE 0

\* How many of the oldest blocks cache_put evicts: until the rest is within
\* the budget, or only one is left.
Evictions(blocks, heights, resident) ==
    Min({k \in 0 .. Len(heights) - 1 :
            \/ resident - Bytes(blocks, SubSeq(heights, 1, k)) <= CapBytes
            \/ k = Len(heights) - 1})

\* The blocks of evicted above the watermark w.  Blocks enter and leave the
\* cache in the order of their heights, so these are the last ones.
Above(evicted, w) ==
    LET dropped == Max({0} \cup {i \in DOMAIN evicted : evicted[i] <= w})
    IN SubSeq(evicted, dropped + 1, Len(evicted))

SpilledOffByOne(evicted) == Above(evicted, emitted_high + 1)

\* An evicted block is spilled if it is not emitted yet, and dropped otherwise.
Spilled(evicted) == Above(evicted, emitted_high)

\* insert and cache_put of the next block of the chain.
Insert(block) ==
    LET h       == Len(payload) + 1
        blocks  == Append(payload, block)
        heights == Append(order, h)
        k       == Evictions(blocks, heights, resident_bytes + Size(block))
        evicted == SubSeq(heights, 1, k)
    IN /\ payload' = blocks
       /\ order' = SubSeq(heights, k + 1, Len(heights))
       /\ resident_bytes' = resident_bytes + Size(block) - Bytes(blocks, evicted)
       /\ write_queue' = write_queue \o Spilled(evicted)
       /\ UNCHANGED <<disk, committed_high, committerVars>>

\* The background writer.
WriteSpilled ==
    /\ write_queue # <<>>
    /\ disk' = disk \cup {Head(write_queue)}
    /\ write_queue' = Tail(write_queue)
    /\ UNCHANGED <<payload, order, resident_bytes, committed_high, committerVars>>

\* What the walk of on_committed_attestation hands over for height h: the
\* block itself if it is resident, else its name, for the committer to read.
CommitItem(h) == [height |-> h, resident |-> h \in ToSet(order)]

CommitItemsFromCursor(low, high) ==
    LET first == Max({low, 1}) IN [i \in 1 .. high - first + 1 |-> CommitItem(first + i - 1)]

CommitItems(low, high) == [i \in 1 .. high - low |-> CommitItem(low + i)]

\* on_committed_attestation for a pinned height: the walk ends there, or at
\* the last block this server has admitted.
CommitUpTo(pinned) ==
    LET last == Min({pinned, Len(payload)}) IN
    /\ last > committed_high
    /\ committed_high' = last
    /\ commit_items' = commit_items \o CommitItems(committed_high, last)
    /\ UNCHANGED <<cacheVars, disk, emitting, emitted_high>>

\* The committer can emit its next item: notify_read waits for a spilled block
\* until the writer has stored it.
Readable(item) == item.resident \/ item.height \in disk

\* The committer sends the payload of its next item to the sink ...
EmitNext ==
    /\ emitting = 0 /\ commit_items # <<>>
    /\ Readable(Head(commit_items))
    /\ emitting' = Head(commit_items).height
    /\ commit_items' = Tail(commit_items)
    /\ UNCHANGED <<cacheVars, disk, committed_high, emitted_high>>

\* ... and then raises the watermark.
RaiseEmitted ==
    /\ emitting # 0
    /\ emitted_high' = Max({emitted_high, emitting})
    /\ emitting' = 0
    /\ UNCHANGED <<cacheVars, disk, committed_high, commit_items>>

----------------------------------------------------------------------------
\* cache_put keeps the books: resident_bytes is what the resident blocks take,
\* and it is within the budget unless a single block is over it.
CacheWithinBudget ==
    /\ resident_bytes = Bytes(payload, order)
    /\ resident_bytes <= CapBytes \/ Len(order) = 1

\* Eviction, spilling, the commit walk and the committer together: a block
\* that is not emitted can always be had, from the cache, from disk, from the
\* writer's queue or as a value already handed to the committer; and a block
\* handed over by name will be found on disk.
UnemittedKept ==
    LET stored == disk \cup ToSet(write_queue)
        items  == ToSet(commit_items)
    IN /\ \A h \in emitted_high + 1 .. Len(payload) :
             \/ h \in ToSet(order) \cup stored \cup {emitting}
             \/ [height |-> h, resident |-> TRUE] \in items
       /\ \A item \in items : item.resident \/ item.height \in stored
=============================================================================
