----------------------------- MODULE MCZeusFork -----------------------------
(***************************************************************************)
(* One schedule of Zeus, too long for a search in breadth: server 2 misses *)
(* the first two blocks of the first epoch, catches up after two changes   *)
(* of the eleader, and commits other blocks than server 0.                 *)
(***************************************************************************)
EXTENDS Zeus

VARIABLE pc     \* the step of the schedule

MCLeaderOf == [r \in 1 .. (MaxRound + 1) |-> (r - 1) % Cardinality(Ids)]

\* The blocks of the first epoch, in order, and the block of the third one.
A == <<<<1, 1>>>>
B == Append(A, <<1, 2>>)
C == Append(B, <<1, 3>>)
X == Append(A, <<3, 1>>)

GetsBlock(i, b) ==
    \E m \in inbox[i] : m.type = "DataPropose" /\ m.block = b /\ Dispatch(i, m)
GetsBlame(i, j, e) ==
    \E m \in inbox[i] : /\ m.type = "EleaderBlame"
                        /\ m.blame.signer = j /\ m.blame.epoch = e
                        /\ Dispatch(i, m)
GetsQC(i, e) ==
    \E m \in inbox[i] : m.type = "EleaderChangeQC" /\ m.epoch = e /\ Dispatch(i, m)
GetsSig(i, r) ==
    \E m \in inbox[i] : m.type = "SigPropose" /\ m.round = r /\ HandleSigOrdered(i, m)

Step ==
    \* Server 1 proposes; round 1 pins A and round 2 pins B on servers 0 and 1.
    CASE pc = 1  -> OnDataTimerExpired(0)
      [] pc = 2  -> OnEleaderPropose(1)
      [] pc = 3  -> GetsBlock(0, A)
      [] pc = 4  -> GetsBlock(1, A)
      [] pc = 5  -> GetsSig(0, 1)
      [] pc = 6  -> OnEleaderPropose(1)
      [] pc = 7  -> GetsBlock(1, B)
      [] pc = 8  -> GetsSig(1, 1)
      [] pc = 9  -> GetsBlock(0, B)
      [] pc = 10 -> OnEleaderPropose(1)
      [] pc = 11 -> GetsSig(0, 2)
      [] pc = 12 -> GetsSig(1, 2)
      [] pc = 13 -> OnCommittedAttestation(0)
    \* Server 2 parks C, its first block, and asks for B.
      [] pc = 14 -> GetsBlock(2, C)
    \* Servers 0 and 1 end the epochs 1 and 2; for server 0 D* is A.
      [] pc = 15 -> OnDataTimerExpired(1)
      [] pc = 16 -> GetsBlame(1, 0, 1)
      [] pc = 17 -> GetsQC(0, 1)
      [] pc = 18 -> OnDataTimerExpired(0)
      [] pc = 19 -> OnDataTimerExpired(1)
      [] pc = 20 -> GetsBlame(0, 1, 2)
      [] pc = 21 -> GetsQC(2, 2)
    \* Server 0 leads epoch 3.  Server 2 parks B and X, and drains both.
      [] pc = 22 -> OnEleaderPropose(0)
      [] pc = 23 -> FetchBlock(2, B)
      [] pc = 24 -> GetsBlock(2, X)
      [] pc = 25 -> FetchBlock(2, A)
    \* Rounds 1 and 2 are committed by servers 2 and 0.
      [] pc = 26 -> GetsSig(2, 1)
      [] pc = 27 -> GetsSig(2, 2)
      [] pc = 28 -> GetsSig(2, 3)
      [] pc = 29 -> OnCommittedAttestation(2)
      [] pc = 30 -> OnCommittedAttestation(2)
      [] pc = 31 -> GetsSig(0, 3)
      [] pc = 32 -> OnCommittedAttestation(0)
      [] OTHER   -> FALSE

ForkInit == Init /\ pc = 1
ForkNext == Step /\ pc' = pc + 1
ForkSpec == ForkInit /\ [][ForkNext]_<<vars, pc>>
==============================================================================
