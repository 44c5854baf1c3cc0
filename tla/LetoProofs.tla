----------------------------- MODULE LetoProofs -----------------------------
(***************************************************************************)
(* Proofs about the rounds of Leto, for any set of servers, any quorum, any*)
(* number of rounds and any schedule of leaders, and with any number of    *)
(* servers that crash: all are proved of CrashNext, whose steps include    *)
(* those of Next.                                                          *)
(*                                                                         *)
(* The invariants a run checks are not inductive: they speak of a server's *)
(* state, which a message changes.  LetoInv adds what is true of every     *)
(* message under way and of every proposal ever made.                      *)
(***************************************************************************)
EXTENDS Leto, DataLemmas, FiniteSetTheorems

----------------------------------------------------------------------------
\* A proposal's parent is older than it.
Element == [round : 1 .. MaxRound, parent : Nat]

ElementsTyped ==
    /\ elements \in Seq(Element)
    /\ \A e \in 1 .. Len(elements) : /\ elements[e].round \in 1 .. MaxRound
                                     /\ elements[e].parent \in 0 .. (e - 1)

\* The types of all variables.
Typed ==
    /\ ElementsTyped
    /\ current_round \in [Ids -> 1 .. (MaxRound + 1)]
    /\ timer_enabled \in [Ids -> BOOLEAN]
    /\ blame_map \in [Ids -> SUBSET Ids]
    /\ highest \in [Ids -> Nat]
    /\ store \in [Ids -> SUBSET Nat]
    /\ qc_map \in [Ids -> SUBSET (1 .. MaxRound)]
    /\ DOMAIN inbox = Ids
    /\ blamed \in [1 .. MaxRound -> SUBSET Ids]

\* A message under way says what is so: a proposal or relay carries an element
\* of its round, a blame was sent in its round, a QC has a quorum of blames.
Truthful(m) ==
    /\ m.round \in 1 .. MaxRound
    /\ m.from \in Ids
    /\ m.type \in {"Propose", "Relay"} =>
          m.elem \in DOMAIN elements /\ elements[m.elem].round = m.round
    /\ m.type = "Blame" => m.from \in blamed[m.round]
    /\ m.type = "BlameQC" => Cardinality(blamed[m.round]) >= QcLen

MessagesTruthful ==
    \A i \in Ids : \A m \in inbox[i] : Truthful(m) /\ m.round >= current_round[i]

\* A server stores what it extends and the parent of that, and no element that
\* was never proposed; what it extends is of an earlier round than its own.
ChainStored ==
    \A i \in Ids :
        /\ store[i] \subseteq 0 .. Len(elements)
        /\ highest[i] \in store[i]
        /\ highest[i] # Genesis => elements[highest[i]].parent \in store[i]
        /\ highest[i] # Genesis => elements[highest[i]].round < current_round[i]

\* The leader of a round in which a proposal was made has left that round.
LeadersMovedOn ==
    \A e \in DOMAIN elements : current_round[LeaderOf[elements[e].round]] > elements[e].round

\* Blames that a server counts were sent in the round it is in.
BlamesCounted ==
    \A i \in Ids : current_round[i] <= MaxRound => blame_map[i] \subseteq blamed[current_round[i]]

\* No round has a quorum of blames.
NoQuorumBlame == \A r \in 1 .. MaxRound : Cardinality(blamed[r]) < QcLen

\* Then every proposal extends the one of the round before.
Linear ==
    NoQuorumBlame =>
        \A e \in DOMAIN elements : elements[e].round = e /\ elements[e].parent = e - 1

LetoInv ==
    /\ Typed
    /\ MessagesTruthful
    /\ ChainStored
    /\ LeadersMovedOn
    /\ BlamesCounted
    /\ OneProposalPerRound
    /\ QCForEverySkippedRound
    /\ QCsAreEarned
    /\ Linear

----------------------------------------------------------------------------
\* A set of blames of one round has a cardinality, and a larger one a larger.
LEMMA BlameCount ==
    ASSUME NEW S \in SUBSET Ids, NEW T \in SUBSET S
    PROVE  /\ Cardinality(S) \in Nat /\ Cardinality(T) \in Nat
           /\ Cardinality(T) <= Cardinality(S)
<1>1. IsFiniteSet(S)
  BY FS_Subset, LetoAssumption
<1>2. IsFiniteSet(T) /\ Cardinality(T) <= Cardinality(S)
  BY <1>1, FS_Subset
<1> QED BY <1>1, <1>2, FS_CardinalityType

\* A proposal that was made is not changed or withdrawn, and neither is a blame.
Growing ==
    /\ \A e \in DOMAIN elements : e \in DOMAIN elements' /\ elements'[e] = elements[e]
    /\ \A r \in 1 .. MaxRound : blamed[r] \subseteq blamed'[r]

\* What a message says stays true.
LEMMA TruthfulStays ==
    ASSUME Typed, Typed', Growing, NEW m, Truthful(m)
    PROVE  Truthful(m)'
<1>1. ASSUME m.type = "BlameQC" PROVE Cardinality(blamed'[m.round]) >= QcLen
  <2>1. blamed'[m.round] \in SUBSET Ids /\ blamed[m.round] \in SUBSET blamed'[m.round]
    BY DEF Typed, Growing, Truthful
  <2>2. Cardinality(blamed[m.round]) >= QcLen
    BY <1>1 DEF Truthful
  <2> QED BY <2>1, <2>2, BlameCount, LetoAssumption
<1> QED BY <1>1 DEF Truthful, Growing, Typed

\* So does that a round has a quorum of blames.
LEMMA QuorumStays ==
    ASSUME Typed, Typed', Growing, NEW r \in 1 .. MaxRound, Cardinality(blamed[r]) >= QcLen
    PROVE  Cardinality(blamed'[r]) >= QcLen
<1>1. blamed'[r] \in SUBSET Ids /\ blamed[r] \in SUBSET blamed'[r]
  BY DEF Typed, Growing
<1> QED BY <1>1, BlameCount, LetoAssumption

\* If no round has one after a step, none had one before.
LEMMA NoQuorumBefore ==
    ASSUME Typed, Typed', Growing, NoQuorumBlame'
    PROVE  NoQuorumBlame
<1> SUFFICES ASSUME NEW r \in 1 .. MaxRound PROVE Cardinality(blamed[r]) < QcLen
  BY DEF NoQuorumBlame
<1>1. blamed'[r] \in SUBSET Ids /\ blamed[r] \in SUBSET blamed'[r]
  BY DEF Typed, Growing
<1>2. Cardinality(blamed'[r]) < QcLen
  BY DEF NoQuorumBlame
<1> QED BY <1>1, <1>2, BlameCount, LetoAssumption

\* What a send puts in an inbox was there before or is the message sent, which
\* is not of an earlier round than the server that gets it.
LEMMA Sent ==
    ASSUME NEW boxes, NEW js, NEW m, NEW j \in Ids, NEW x \in SendToAll(boxes, js, m)[j]
    PROVE  x \in boxes[j] \/ (x = m /\ m.round >= current_round[j])
BY DEF SendToAll

----------------------------------------------------------------------------
\* The invariant holds at start.
LEMMA LetoInit == Init => LetoInv
<1> SUFFICES ASSUME Init PROVE LetoInv OBVIOUS
<1>1. Typed
  BY LetoAssumption DEF Init, Typed, ElementsTyped, Genesis
<1>2. MessagesTruthful /\ ChainStored /\ LeadersMovedOn /\ BlamesCounted
  BY LetoAssumption DEF Init, MessagesTruthful, ChainStored, LeadersMovedOn, BlamesCounted, Genesis
<1>3. OneProposalPerRound /\ QCForEverySkippedRound /\ QCsAreEarned /\ Linear
  BY LetoAssumption DEF Init, OneProposalPerRound, QCForEverySkippedRound, QCsAreEarned,
                        Linear, RoundOf, Genesis
<1> QED BY <1>1, <1>2, <1>3 DEF LetoInv

----------------------------------------------------------------------------
\* The end of a round leaves only messages of later rounds to the server that
\* ends it.
LEMMA AdvanceMessages ==
    ASSUME Typed, Typed', NEW i \in Ids, NEW boxes, DOMAIN boxes = Ids,
           AdvanceRound(i, boxes),
           \A j \in Ids : \A x \in boxes[j] : Truthful(x)' /\ x.round >= current_round[j]
    PROVE  MessagesTruthful'
<1> SUFFICES ASSUME NEW j \in Ids, NEW x \in inbox'[j]
             PROVE  Truthful(x)' /\ x.round >= current_round'[j]
  BY DEF MessagesTruthful
<1>1. x \in boxes[j] /\ (j = i => x.round > current_round[i])
  BY DEF AdvanceRound, LaterThan
<1>2. Truthful(x)' /\ x.round >= current_round[j] /\ x.round \in Nat
  BY <1>1, LetoAssumption DEF Truthful
<1>3. current_round[i] \in Nat /\ current_round' = [current_round EXCEPT ![i] = @ + 1]
  BY LetoAssumption DEF Typed, AdvanceRound
<1> QED BY <1>1, <1>2, <1>3 DEF Typed

\* A server that adopts the proposal of its round keeps the invariant; the
\* proposal may have been made in the same step, by the server itself.
LEMMA AdoptStep ==
    ASSUME LetoInv, NEW i \in Ids, NEW r \in 1 .. MaxRound, r = current_round[i],
           NEW e \in Nat \ {0}, e <= Len(elements'),
           NEW boxes, DOMAIN boxes = Ids,
           ElementsTyped',
           blamed' = blamed, Growing, Len(elements) <= Len(elements'),
           OnCorrectProposal(i, e, boxes),
           elements'[e].round = r,
           elements'[e].parent \in store[i],
           \A j \in Ids : \A x \in boxes[j] : Truthful(x)' /\ x.round >= current_round[j]
    PROVE  Typed' /\ MessagesTruthful' /\ ChainStored' /\ BlamesCounted'
               /\ QCForEverySkippedRound' /\ QCsAreEarned'
<1> USE LetoAssumption
<1>1. PICK relayed : relayed = Relayed(boxes, i, e, r) OBVIOUS
<1>2. /\ highest' = [highest EXCEPT ![i] = e]
      /\ store' = [store EXCEPT ![i] = @ \cup {e}]
      /\ current_round' = [current_round EXCEPT ![i] = @ + 1]
      /\ timer_enabled' = [timer_enabled EXCEPT ![i] = TRUE]
      /\ blame_map' = [blame_map EXCEPT ![i] = {}]
      /\ qc_map' = qc_map
      /\ AdvanceRound(i, relayed)
  BY <1>1 DEF OnCorrectProposal, AdvanceRound
<1>3. Typed /\ ElementsTyped /\ e \in DOMAIN elements'
  <2>1. Typed /\ ElementsTyped
    BY DEF LetoInv, Typed
  <2>2. DOMAIN elements' = 1 .. Len(elements') /\ Len(elements') \in Nat
    BY DEF ElementsTyped
  <2> QED BY <2>1, <2>2
<1>4. DOMAIN relayed = Ids
  BY <1>1 DEF Relayed, SendToAll
<1>5. Typed'
  <2>1. DOMAIN inbox' = Ids
    BY <1>2, <1>4 DEF AdvanceRound
  <2>2. current_round' \in [Ids -> 1 .. (MaxRound + 1)]
    <3>1. r + 1 \in 1 .. (MaxRound + 1)
      OBVIOUS
    <3>2. current_round \in [Ids -> 1 .. (MaxRound + 1)]
      BY <1>3 DEF Typed
    <3>3. current_round' = [current_round EXCEPT ![i] = r + 1]
      BY <1>2
    <3> QED BY <3>1, <3>2, <3>3
  <2>3. /\ highest' \in [Ids -> Nat]
        /\ store' \in [Ids -> SUBSET Nat]
    BY <1>2, <1>3 DEF Typed
  <2>4. /\ timer_enabled' \in [Ids -> BOOLEAN]
        /\ blame_map' \in [Ids -> SUBSET Ids]
        /\ qc_map' \in [Ids -> SUBSET (1 .. MaxRound)]
        /\ blamed' \in [1 .. MaxRound -> SUBSET Ids]
    BY <1>2, <1>3 DEF Typed
  <2> QED BY <2>1, <2>2, <2>3, <2>4 DEF Typed
<1>6. \A j \in Ids : \A x \in relayed[j] : Truthful(x)' /\ x.round >= current_round[j]
  <2> SUFFICES ASSUME NEW j \in Ids, NEW x \in relayed[j]
               PROVE  Truthful(x)' /\ x.round >= current_round[j]
    OBVIOUS
  <2>1. x \in boxes[j] \/ (x = RelayMsg(e, r, i) /\ x.round >= current_round[j])
    BY <1>1, Sent DEF Relayed, RelayMsg
  <2>2. Truthful(RelayMsg(e, r, i))'
    BY <1>3 DEF Truthful, RelayMsg
  <2>3. CASE x \in boxes[j]
    BY <2>3
  <2>4. CASE x = RelayMsg(e, r, i) /\ x.round >= current_round[j]
    BY <2>2, <2>4
  <2> QED BY <2>1, <2>3, <2>4
<1>7. MessagesTruthful'
  BY <1>2, <1>3, <1>4, <1>5, <1>6, AdvanceMessages
<1>8. \A j \in Ids : highest[j] \in 0 .. Len(elements)
  BY <1>3 DEF LetoInv, ChainStored
<1>9. \A d \in 1 .. Len(elements) : elements'[d] = elements[d]
  <2>1. DOMAIN elements = 1 .. Len(elements)
    BY <1>3 DEF ElementsTyped
  <2> QED BY <2>1 DEF Growing
<1> DEFINE m == Len(elements)
           n == Len(elements')
<1>a. m \in Nat /\ n \in Nat
  BY <1>3 DEF ElementsTyped
<1>10. \A j \in Ids \ {i} : /\ store'[j] = store[j] /\ highest'[j] = highest[j]
                            /\ current_round'[j] = current_round[j]
  BY <1>2, <1>3 DEF Typed
<1>11. store'[i] = store[i] \cup {e} /\ highest'[i] = e /\ current_round'[i] = r + 1
  BY <1>2, <1>3 DEF Typed
<1>12. ChainStored'
  <2> SUFFICES ASSUME NEW j \in Ids PROVE ChainStored!(j)'
    BY DEF ChainStored
  <2>1. ChainStored!(j) /\ store[j] \subseteq 0 .. Len(elements') /\ Len(elements') \in Nat
    <3> HIDE DEF m, n
    <3>1. ChainStored!(j)
      BY DEF LetoInv, ChainStored
    <3>2. store[j] \subseteq 0 .. m
      BY DEF LetoInv, ChainStored, m
    <3>3. store[j] \subseteq 0 .. n
      BY <3>2, <1>a DEF m, n
    <3> QED BY <3>1, <3>3, <1>a DEF n
  <2>2. CASE j = i
    BY <2>1, <2>2, <1>11
  <2>3. CASE j # i
    <3>1. highest[j] # Genesis => elements'[highest[j]] = elements[highest[j]]
      BY <1>8, <1>9 DEF Genesis
    <3> QED BY <2>1, <2>3, <1>10, <3>1
  <2> QED BY <2>2, <2>3
<1>13. BlamesCounted'
  BY <1>2, <1>3, <1>10 DEF LetoInv, BlamesCounted, Typed
<1>14. QCForEverySkippedRound'
  <2> SUFFICES ASSUME NEW j \in Ids, NEW q \in (RoundOf(highest[j])' + 1) .. (current_round'[j] - 1)
               PROVE  q \in qc_map'[j]
    BY DEF QCForEverySkippedRound
  <2>1. CASE j = i
    <3>1. RoundOf(highest[j])' = r
      BY <2>1, <1>11 DEF RoundOf, Genesis
    <3> QED BY <3>1, <2>1, <1>11
  <2>2. CASE j # i
    <3>1. RoundOf(highest[j])' = RoundOf(highest[j])
      BY <2>2, <1>8, <1>9, <1>10 DEF RoundOf, Genesis
    <3> QED BY <2>2, <3>1, <1>2, <1>10 DEF LetoInv, QCForEverySkippedRound
  <2> QED BY <2>1, <2>2
<1>15. QCsAreEarned'
  BY <1>2 DEF LetoInv, QCsAreEarned
<1> QED BY <1>5, <1>7, <1>12, <1>13, <1>14, <1>15

\* Steps that propose nothing keep what is said of the proposals.
LEMMA NothingProposed ==
    ASSUME LetoInv, Typed', elements' = elements, Growing,
           \A j \in Ids : current_round[j] <= current_round'[j]
    PROVE  LeadersMovedOn' /\ OneProposalPerRound' /\ Linear'
<1>1. LeadersMovedOn'
  <2> SUFFICES ASSUME NEW e \in DOMAIN elements
               PROVE  current_round'[LeaderOf[elements[e].round]] > elements[e].round
    BY DEF LeadersMovedOn
  <2>1. elements[e].round \in 1 .. MaxRound
    <3>1. ElementsTyped
      BY DEF LetoInv, Typed
    <3> QED BY <3>1 DEF ElementsTyped
  <2>2. LeaderOf[elements[e].round] \in Ids
    BY <2>1, LetoAssumption
  <2>3. PICK j \in Ids : j = LeaderOf[elements[e].round]
    BY <2>2
  <2>4. current_round[j] > elements[e].round
    BY <2>3 DEF LetoInv, LeadersMovedOn
  <2>5. current_round[j] \in Nat /\ current_round'[j] \in Nat
    <3>1. /\ current_round \in [Ids -> 1 .. (MaxRound + 1)]
          /\ current_round' \in [Ids -> 1 .. (MaxRound + 1)]
      BY DEF LetoInv, Typed
    <3> QED BY <3>1, LetoAssumption
  <2> QED BY <2>1, <2>3, <2>4, <2>5
<1>2. OneProposalPerRound'
  BY DEF LetoInv, OneProposalPerRound, RoundOf
<1>3. Linear'
  <2>1. NoQuorumBlame' => NoQuorumBlame
    BY NoQuorumBefore DEF LetoInv
  <2> QED BY <2>1 DEF LetoInv, Linear
<1> QED BY <1>1, <1>2, <1>3

\* handle_proposal keeps the invariant.
LEMMA HandleProposalStep ==
    ASSUME LetoInv, NEW i \in Ids, NEW m \in inbox[i], HandleProposal(i, m)
    PROVE  LetoInv'
<1> USE LetoAssumption
<1>1. /\ m.type \in {"Propose", "Relay"} /\ m.round = current_round[i]
      /\ elements[m.elem].parent \in store[i]
      /\ OnCorrectProposal(i, m.elem, inbox)
      /\ elements' = elements /\ blamed' = blamed
  BY DEF HandleProposal, Due, Synced, ParentOf
<1>2. Truthful(m)
  BY DEF LetoInv, MessagesTruthful
<1>3. PICK r \in 1 .. MaxRound : r = current_round[i] /\ r = m.round
  BY <1>1, <1>2 DEF Truthful
<1>4. PICK e \in DOMAIN elements : e = m.elem /\ elements[e].round = r
  BY <1>1, <1>2, <1>3 DEF Truthful
<1>5. /\ e \in Nat \ {0} /\ e <= Len(elements') /\ Len(elements) <= Len(elements')
      /\ ElementsTyped'
  <2>1. ElementsTyped /\ ElementsTyped'
    BY <1>1 DEF LetoInv, Typed, ElementsTyped
  <2>2. e \in 1 .. Len(elements) /\ Len(elements) \in Nat
    BY <1>4, <2>1 DEF ElementsTyped
  <2> QED BY <2>1, <2>2, <1>1
<1>6. PICK boxes : boxes = inbox OBVIOUS
<1>7. Growing
  BY <1>1 DEF Growing
<1>8. \A j \in Ids : \A x \in boxes[j] : Truthful(x)' /\ x.round >= current_round[j]
  BY <1>1, <1>6 DEF LetoInv, MessagesTruthful, Truthful
<1>9. DOMAIN boxes = Ids
  BY <1>6 DEF LetoInv, Typed
<1>10. /\ OnCorrectProposal(i, e, boxes)
       /\ elements'[e].round = r /\ elements'[e].parent \in store[i]
  BY <1>1, <1>4, <1>6
<1>11. Typed' /\ MessagesTruthful' /\ ChainStored' /\ BlamesCounted'
               /\ QCForEverySkippedRound' /\ QCsAreEarned'
  BY <1>1, <1>3, <1>5, <1>7, <1>8, <1>9, <1>10, AdoptStep
<1>12. \A j \in Ids : current_round[j] <= current_round'[j]
  <2>1. current_round' = [current_round EXCEPT ![i] = r + 1]
    BY <1>10, <1>3 DEF OnCorrectProposal, AdvanceRound
  <2>2. current_round \in [Ids -> 1 .. (MaxRound + 1)]
    BY DEF LetoInv, Typed
  <2>3. \A j \in Ids : current_round[j] \in Nat
    BY <2>2
  <2>4. current_round'[i] = r + 1 /\ \A j \in Ids \ {i} : current_round'[j] = current_round[j]
    BY <2>1, <2>2
  <2>5. \A j \in Ids : j # i => current_round[j] <= current_round'[j]
    BY <2>3, <2>4
  <2>6. current_round[i] <= current_round'[i]
    BY <1>3, <2>4
  <2> QED BY <2>5, <2>6
<1>13. LeadersMovedOn' /\ OneProposalPerRound' /\ Linear'
  BY <1>1, <1>7, <1>11, <1>12, NothingProposed
<1> QED BY <1>11, <1>13 DEF LetoInv

\* handle_new_batch keeps the invariant: the leader of a round proposes once, on
\* the proposal of the round before if no round was given up.
LEMMA HandleNewBatchStep ==
    ASSUME LetoInv, NEW i \in Ids, HandleNewBatch(i)
    PROVE  LetoInv'
<1> USE LetoAssumption
<1>1. PICK r \in 1 .. MaxRound : r = current_round[i]
  BY DEF HandleNewBatch, Running, LetoInv, Typed
<1>2. PICK e \in Nat \ {0} : e = Len(elements) + 1
  BY DEF LetoInv, Typed, ElementsTyped
<1>3. PICK p \in Nat : p = highest[i] /\ p <= Len(elements)
  BY DEF LetoInv, Typed, ChainStored
<1>4. PICK boxes : boxes = Broadcast(inbox, i, ProposeMsg(e, r, i)) OBVIOUS
<1>5. /\ elements' = Append(elements, [round |-> r, parent |-> p])
      /\ OnCorrectProposal(i, e, boxes)
      /\ LeaderOf[r] = i
      /\ blamed' = blamed
  BY <1>1, <1>2, <1>3, <1>4 DEF HandleNewBatch
<1>6. /\ ElementsTyped /\ DOMAIN elements = 1 .. Len(elements) /\ Len(elements) \in Nat
      /\ elements \in Seq(Element)
  <2>1. ElementsTyped
    BY DEF LetoInv, Typed
  <2>2. elements \in Seq(Element)
    BY <2>1 DEF ElementsTyped
  <2>3. DOMAIN elements = 1 .. Len(elements) /\ Len(elements) \in Nat
    BY <2>2
  <2> QED BY <2>1, <2>2, <2>3
<1>7. /\ elements' \in Seq(Element)
      /\ Len(elements') = e /\ DOMAIN elements' = 1 .. e
      /\ elements'[e].round = r /\ elements'[e].parent = p
      /\ \A d \in 1 .. Len(elements) : elements'[d] = elements[d]
  <2> DEFINE new == [round |-> r, parent |-> p]
  <2>1. new \in Element /\ new.round = r /\ new.parent = p
    BY DEF Element
  <2> HIDE DEF new
  <2> QED BY <1>2, <1>5, <1>6, <2>1 DEF new
<1>8. ElementsTyped'
  <2> SUFFICES ASSUME NEW d \in 1 .. Len(elements')
               PROVE  elements'[d].round \in 1 .. MaxRound /\ elements'[d].parent \in 0 .. (d - 1)
    BY <1>7 DEF ElementsTyped
  <2>1. CASE d = e
    BY <2>1, <1>2, <1>3, <1>7, <1>6
  <2>2. CASE d # e
    <3>1. d \in 1 .. Len(elements)
      BY <2>2, <1>2, <1>6, <1>7
    <3> QED BY <3>1, <1>6, <1>7 DEF ElementsTyped
  <2> QED BY <2>1, <2>2
<1>9. Growing
  BY <1>2, <1>5, <1>6, <1>7 DEF Growing
<1>10. DOMAIN boxes = Ids
  BY <1>4 DEF Broadcast, SendToAll
<1>11. \A j \in Ids : \A x \in boxes[j] : Truthful(x)' /\ x.round >= current_round[j]
  <2> SUFFICES ASSUME NEW j \in Ids, NEW x \in boxes[j]
               PROVE  Truthful(x)' /\ x.round >= current_round[j]
    OBVIOUS
  <2>1. x \in inbox[j] \/ (x = ProposeMsg(e, r, i) /\ x.round >= current_round[j])
    BY <1>4, Sent DEF Broadcast, ProposeMsg
  <2>2. CASE x \in inbox[j]
    <3>1. Truthful(x) /\ x.round >= current_round[j]
      BY <2>2 DEF LetoInv, MessagesTruthful
    <3>2. x.type \in {"Propose", "Relay"} =>
              x.elem \in DOMAIN elements' /\ elements'[x.elem].round = x.round
      <4> SUFFICES ASSUME x.type \in {"Propose", "Relay"}
                   PROVE  x.elem \in DOMAIN elements' /\ elements'[x.elem].round = x.round
        OBVIOUS
      <4>1. x.elem \in 1 .. Len(elements) /\ elements[x.elem].round = x.round
        BY <3>1, <1>6 DEF Truthful
      <4>2. x.elem \in 1 .. e
        BY <4>1, <1>2, <1>6
      <4> QED BY <4>1, <4>2, <1>7
    <3> QED BY <3>1, <3>2, <1>5 DEF Truthful
  <2>3. CASE x = ProposeMsg(e, r, i) /\ x.round >= current_round[j]
    <3>1. Truthful(ProposeMsg(e, r, i))'
      BY <1>2, <1>7 DEF Truthful, ProposeMsg
    <3> QED BY <2>3, <3>1
  <2> QED BY <2>1, <2>2, <2>3
<1>12. p \in store[i]
  BY <1>3 DEF LetoInv, ChainStored
<1>13. Typed' /\ MessagesTruthful' /\ ChainStored' /\ BlamesCounted'
               /\ QCForEverySkippedRound' /\ QCsAreEarned'
  <2>1. /\ e <= Len(elements') /\ Len(elements) <= Len(elements')
        /\ elements'[e].round = r /\ elements'[e].parent \in store[i]
    BY <1>2, <1>6, <1>7, <1>12
  <2> QED BY <2>1, <1>1, <1>2, <1>5, <1>8, <1>9, <1>10, <1>11, AdoptStep
<1>14. /\ current_round \in [Ids -> 1 .. (MaxRound + 1)]
       /\ current_round' = [current_round EXCEPT ![i] = r + 1]
  BY <1>1, <1>5 DEF LetoInv, Typed, OnCorrectProposal, AdvanceRound
<1>15. \A d \in 1 .. Len(elements) :
          elements[d].round \in 1 .. MaxRound /\ elements[d].round # r
  <2> SUFFICES ASSUME NEW d \in 1 .. Len(elements)
               PROVE  elements[d].round \in 1 .. MaxRound /\ elements[d].round # r
    OBVIOUS
  <2>1. elements[d].round \in 1 .. MaxRound
    BY <1>6 DEF ElementsTyped
  <2>2. current_round[LeaderOf[elements[d].round]] > elements[d].round
    BY <1>6 DEF LetoInv, LeadersMovedOn
  <2> QED BY <2>1, <2>2, <1>1, <1>5
<1>16. LeadersMovedOn'
  <2> SUFFICES ASSUME NEW d \in 1 .. e
               PROVE  current_round'[LeaderOf[elements'[d].round]] > elements'[d].round
    BY <1>7 DEF LeadersMovedOn
  <2>1. CASE d = e
    BY <2>1, <1>5, <1>7, <1>14
  <2>2. CASE d # e
    <3>1. d \in 1 .. Len(elements)
      BY <2>2, <1>2, <1>6
    <3>2. PICK q \in 1 .. MaxRound : q = elements[d].round /\ q = elements'[d].round
      BY <3>1, <1>15, <1>7
    <3>3. PICK j \in Ids : j = LeaderOf[q]
      OBVIOUS
    <3>4. current_round[j] > q
      BY <3>1, <3>2, <3>3, <1>6 DEF LetoInv, LeadersMovedOn
    <3>5. current_round'[j] >= current_round[j] /\ current_round'[j] \in Nat /\ current_round[j] \in Nat
      BY <1>1, <1>14
    <3>6. PICK x \in Nat, y \in Nat : x = current_round[j] /\ y = current_round'[j]
      BY <3>5
    <3>7. x > q /\ y >= x
      BY <3>4, <3>5, <3>6
    <3> QED BY <3>2, <3>3, <3>6, <3>7
  <2> QED BY <2>1, <2>2
<1>17. OneProposalPerRound'
  <2> SUFFICES ASSUME NEW c \in 1 .. e, NEW d \in 1 .. e, elements'[c].round = elements'[d].round
               PROVE  c = d
    BY <1>7 DEF OneProposalPerRound, RoundOf, Genesis
  <2>1. CASE c = e \/ d = e
    <3>1. \A a \in 1 .. e : a # e => a \in 1 .. Len(elements) /\ elements'[a].round # r
      BY <1>2, <1>6, <1>7, <1>15
    <3> QED BY <2>1, <3>1, <1>7
  <2>2. CASE c # e /\ d # e
    <3>1. c \in 1 .. Len(elements) /\ d \in 1 .. Len(elements)
      BY <2>2, <1>2, <1>6
    <3>2. elements[c].round = elements[d].round
      BY <3>1, <1>7
    <3>3. RoundOf(c) = RoundOf(d)
      BY <3>1, <3>2 DEF RoundOf, Genesis
    <3> QED BY <3>1, <3>3, <1>6 DEF LetoInv, OneProposalPerRound
  <2> QED BY <2>1, <2>2
<1>18. Linear'
  <2> SUFFICES ASSUME NoQuorumBlame'
               PROVE  \A d \in 1 .. e : elements'[d].round = d /\ elements'[d].parent = d - 1
    BY <1>7 DEF Linear
  <2>1. NoQuorumBlame
    BY <1>9, <1>13, NoQuorumBefore DEF LetoInv
  <2>2. \A d \in 1 .. Len(elements) : elements[d].round = d /\ elements[d].parent = d - 1
    BY <2>1, <1>6 DEF LetoInv, Linear
  <2>3. qc_map[i] = {}
    <3> SUFFICES ASSUME NEW q \in qc_map[i] PROVE FALSE
      OBVIOUS
    <3>1. q \in 1 .. MaxRound /\ Cardinality(blamed[q]) >= QcLen
      BY DEF LetoInv, Typed, QCsAreEarned
    <3>2. Cardinality(blamed[q]) < QcLen
      BY <3>1, <2>1 DEF NoQuorumBlame
    <3>3. blamed[q] \in SUBSET Ids
      BY <3>1 DEF LetoInv, Typed
    <3>4. Cardinality(blamed[q]) \in Nat
      BY <3>3, BlameCount
    <3> QED BY <3>1, <3>2, <3>4
  <2>4. RoundOf(p) = p /\ p < r
    BY <2>2, <1>1, <1>3, <1>6 DEF RoundOf, Genesis, LetoInv, ChainStored
  <2>5. p = r - 1
    <3>1. \A q \in (p + 1) .. (r - 1) : FALSE
      BY <2>3, <2>4, <1>1, <1>3 DEF LetoInv, QCForEverySkippedRound
    <3> QED BY <3>1, <2>4
  <2>6. Len(elements) = r - 1
    <3>1. ~ (r \in 1 .. Len(elements))
      BY <2>2, <1>15
    <3> QED BY <3>1, <2>5, <1>3, <1>6
  <2>7. e = r
    BY <2>6, <1>2
  <2>8. \A d \in 1 .. e : d # e => d \in 1 .. Len(elements)
    BY <1>2, <1>6
  <2>9. elements'[e].round = e /\ elements'[e].parent = e - 1
    BY <2>5, <2>7, <1>7
  <2> QED BY <2>2, <2>8, <2>9, <1>7
<1> QED BY <1>13, <1>16, <1>17, <1>18 DEF LetoInv

\* handle_blame_qc keeps the invariant, if the round has a quorum of blames.
LEMMA BlameQCStep ==
    ASSUME LetoInv, NEW i \in Ids, NEW r \in 1 .. MaxRound, r = current_round[i],
           Cardinality(blamed[r]) >= QcLen,
           HandleBlameQC(i), elements' = elements, blamed' = blamed
    PROVE  LetoInv'
<1> USE LetoAssumption
<1>1. PICK boxes : boxes = Broadcast(inbox, i, BlameQCMsg(r, i)) OBVIOUS
<1>2. /\ qc_map' = [qc_map EXCEPT ![i] = @ \cup {r}]
      /\ current_round' = [current_round EXCEPT ![i] = r + 1]
      /\ timer_enabled' = [timer_enabled EXCEPT ![i] = TRUE]
      /\ blame_map' = [blame_map EXCEPT ![i] = {}]
      /\ highest' = highest /\ store' = store
      /\ AdvanceRound(i, boxes)
  BY <1>1 DEF HandleBlameQC, AdvanceRound
<1>3. Typed /\ ElementsTyped
  BY DEF LetoInv, Typed
<1>4. DOMAIN boxes = Ids
  BY <1>1 DEF Broadcast, SendToAll
<1>5. /\ current_round \in [Ids -> 1 .. (MaxRound + 1)]
      /\ current_round' \in [Ids -> 1 .. (MaxRound + 1)]
  <2>1. current_round \in [Ids -> 1 .. (MaxRound + 1)]
    BY <1>3 DEF Typed
  <2>2. r + 1 \in 1 .. (MaxRound + 1)
    OBVIOUS
  <2> QED BY <2>1, <2>2, <1>2
<1>6. Typed'
  <2>1. DOMAIN inbox' = Ids
    BY <1>2, <1>4 DEF AdvanceRound
  <2>2. ElementsTyped'
    BY <1>3 DEF ElementsTyped
  <2>3. qc_map' \in [Ids -> SUBSET (1 .. MaxRound)]
    BY <1>2, <1>3 DEF Typed
  <2>4. /\ timer_enabled' \in [Ids -> BOOLEAN]
        /\ blame_map' \in [Ids -> SUBSET Ids]
    BY <1>2, <1>3 DEF Typed
  <2> QED BY <1>2, <1>3, <1>5, <2>1, <2>2, <2>3, <2>4 DEF Typed
<1>7. Growing
  BY DEF Growing
<1>8. \A j \in Ids : \A x \in boxes[j] : Truthful(x)' /\ x.round >= current_round[j]
  <2> SUFFICES ASSUME NEW j \in Ids, NEW x \in boxes[j]
               PROVE  Truthful(x)' /\ x.round >= current_round[j]
    OBVIOUS
  <2>1. x \in inbox[j] \/ (x = BlameQCMsg(r, i) /\ x.round >= current_round[j])
    BY <1>1, Sent DEF Broadcast, BlameQCMsg
  <2>2. CASE x \in inbox[j]
    <3>1. Truthful(x) /\ x.round >= current_round[j]
      BY <2>2 DEF LetoInv, MessagesTruthful
    <3> QED BY <3>1 DEF Truthful
  <2>3. CASE x = BlameQCMsg(r, i) /\ x.round >= current_round[j]
    <3>1. Truthful(BlameQCMsg(r, i))'
      BY DEF Truthful, BlameQCMsg
    <3> QED BY <2>3, <3>1
  <2> QED BY <2>1, <2>2, <2>3
<1>9. MessagesTruthful'
  BY <1>2, <1>3, <1>4, <1>6, <1>8, AdvanceMessages
<1>10. /\ \A j \in Ids : current_round[j] \in Nat /\ current_round[j] <= current_round'[j]
       /\ current_round'[i] = r + 1
       /\ \A j \in Ids \ {i} : current_round'[j] = current_round[j]
  <2>1. current_round'[i] = r + 1 /\ \A j \in Ids \ {i} : current_round'[j] = current_round[j]
    BY <1>2, <1>5
  <2>2. \A j \in Ids : current_round[j] \in Nat
    BY <1>5
  <2> QED BY <2>1, <2>2
<1>11. ChainStored'
  <2> SUFFICES ASSUME NEW j \in Ids PROVE ChainStored!(j)'
    BY DEF ChainStored
  <2>1. ChainStored!(j)
    BY DEF LetoInv, ChainStored
  <2>2. highest[j] # Genesis => elements[highest[j]].round < current_round'[j]
    <3> SUFFICES ASSUME highest[j] # Genesis PROVE elements[highest[j]].round < current_round'[j]
      OBVIOUS
    <3>1. Len(elements) \in Nat
      BY <1>3 DEF ElementsTyped
    <3>2. highest[j] \in 1 .. Len(elements)
      BY <2>1, <3>1 DEF Genesis
    <3>3. elements[highest[j]].round \in Nat
      BY <3>2, <1>3 DEF ElementsTyped
    <3>4. current_round[j] \in Nat /\ current_round'[j] \in Nat
      <4>1. current_round[j] \in 1 .. (MaxRound + 1) /\ current_round'[j] \in 1 .. (MaxRound + 1)
        BY <1>5
      <4> QED BY <4>1
    <3> QED BY <2>1, <3>3, <3>4, <1>10
  <2> QED BY <2>1, <2>2, <1>2
<1>12. BlamesCounted'
  <2> SUFFICES ASSUME NEW j \in Ids, current_round'[j] <= MaxRound
               PROVE  blame_map'[j] \subseteq blamed'[current_round'[j]]
    BY DEF BlamesCounted
  <2>1. CASE j = i
    BY <2>1, <1>2, <1>3 DEF Typed
  <2>2. CASE j # i
    <3>1. blame_map'[j] = blame_map[j]
      BY <2>2, <1>2, <1>3 DEF Typed
    <3> QED BY <2>2, <3>1, <1>10 DEF LetoInv, BlamesCounted
  <2> QED BY <2>1, <2>2
<1>13. \A j \in Ids : qc_map'[j] = IF j = i THEN qc_map[j] \cup {r} ELSE qc_map[j]
  BY <1>2, <1>3 DEF Typed
<1>14. QCForEverySkippedRound'
  <2> SUFFICES ASSUME NEW j \in Ids, NEW q \in (RoundOf(highest[j]) + 1) .. (current_round'[j] - 1)
               PROVE  q \in qc_map'[j]
    BY <1>2 DEF QCForEverySkippedRound, RoundOf
  <2>1. \A k \in (RoundOf(highest[j]) + 1) .. (current_round[j] - 1) : k \in qc_map[j]
    BY DEF LetoInv, QCForEverySkippedRound
  <2>2. CASE j = i
    <3>1. q = r \/ q \in (RoundOf(highest[j]) + 1) .. (current_round[j] - 1)
      BY <2>2, <1>10
    <3> QED BY <3>1, <2>1, <2>2, <1>13
  <2>3. CASE j # i
    BY <2>1, <2>3, <1>10, <1>13
  <2> QED BY <2>2, <2>3
<1>15. QCsAreEarned'
  BY <1>13 DEF LetoInv, QCsAreEarned
<1>16. LeadersMovedOn' /\ OneProposalPerRound' /\ Linear'
  BY <1>6, <1>7, <1>10, NothingProposed
<1> QED BY <1>6, <1>9, <1>11, <1>12, <1>14, <1>15, <1>16 DEF LetoInv

\* on_blame_qc keeps the invariant.
LEMMA OnBlameQCStep ==
    ASSUME LetoInv, NEW i \in Ids, NEW m \in inbox[i], OnBlameQC(i, m)
    PROVE  LetoInv'
<1>1. Truthful(m)
  BY DEF LetoInv, MessagesTruthful
<1>2. PICK r \in 1 .. MaxRound : r = current_round[i] /\ Cardinality(blamed[r]) >= QcLen
  BY <1>1 DEF Truthful, OnBlameQC, Due
<1>3. HandleBlameQC(i) /\ elements' = elements /\ blamed' = blamed
  BY DEF OnBlameQC
<1> QED BY <1>2, <1>3, BlameQCStep

\* The blames a server counts, with one more that it received, were all sent in
\* its round.
LEMMA CountedBlames ==
    ASSUME LetoInv, NEW i \in Ids, NEW m \in inbox[i], Due(i, m, {"Blame"})
    PROVE  /\ current_round[i] \in 1 .. MaxRound
           /\ blame_map[i] \cup {m.from} \subseteq blamed[current_round[i]]
           /\ blamed[current_round[i]] \in SUBSET Ids
<1>1. Truthful(m)
  BY DEF LetoInv, MessagesTruthful
<1>2. /\ current_round[i] \in 1 .. MaxRound /\ m.round = current_round[i] /\ m.type = "Blame"
      /\ current_round[i] <= MaxRound
  BY <1>1 DEF Truthful, Due, Running
<1>3. blame_map[i] \subseteq blamed[current_round[i]]
  BY <1>2 DEF LetoInv, BlamesCounted
<1>4. m.from \in blamed[current_round[i]]
  BY <1>1, <1>2 DEF Truthful
<1>5. blamed \in [1 .. MaxRound -> SUBSET Ids]
  BY DEF LetoInv, Typed
<1> QED BY <1>2, <1>3, <1>4, <1>5

\* handle_blame with the blame that completes a QC keeps the invariant.
LEMMA CompleteBlameQCStep ==
    ASSUME LetoInv, NEW i \in Ids, NEW m \in inbox[i], CompleteBlameQC(i, m)
    PROVE  LetoInv'
<1>1. /\ Due(i, m, {"Blame"}) /\ HandleBlameQC(i) /\ elements' = elements /\ blamed' = blamed
      /\ Cardinality(blame_map[i] \cup {m.from}) = QcLen
  BY DEF CompleteBlameQC, FullBlameMap
<1>2. PICK r \in 1 .. MaxRound : r = current_round[i]
  BY <1>1, CountedBlames
<1>3. blame_map[i] \cup {m.from} \subseteq blamed[r] /\ blamed[r] \in SUBSET Ids
  BY <1>1, <1>2, CountedBlames
<1>4. Cardinality(blamed[r]) >= QcLen
  BY <1>1, <1>3, BlameCount, LetoAssumption
<1> QED BY <1>1, <1>2, <1>4, BlameQCStep

----------------------------------------------------------------------------
\* Steps in which no server proposes, adopts or ends a round keep what is said
\* of proposals, chains and QCs.
LEMMA QuietStep ==
    ASSUME LetoInv, Typed', MessagesTruthful', BlamesCounted', Growing,
           elements' = elements, current_round' = current_round,
           highest' = highest, qc_map' = qc_map,
           \A j \in Ids : store[j] \subseteq store'[j] /\ store'[j] \subseteq 0 .. Len(elements)
    PROVE  LetoInv'
<1>1. ChainStored'
  BY DEF LetoInv, ChainStored
<1>2. QCForEverySkippedRound'
  BY DEF LetoInv, QCForEverySkippedRound, RoundOf
<1>3. QCsAreEarned'
  <2> SUFFICES ASSUME NEW i \in Ids, NEW r \in qc_map[i] PROVE Cardinality(blamed'[r]) >= QcLen
    BY DEF QCsAreEarned
  <2>1. r \in 1 .. MaxRound /\ Cardinality(blamed[r]) >= QcLen /\ Typed
    BY DEF LetoInv, Typed, QCsAreEarned
  <2> QED BY <2>1, QuorumStays
<1>4. LeadersMovedOn' /\ OneProposalPerRound' /\ Linear'
  <2>1. \A j \in Ids : current_round[j] <= current_round'[j]
    <3> SUFFICES ASSUME NEW j \in Ids PROVE current_round[j] <= current_round'[j]
      OBVIOUS
    <3>1. current_round[j] \in 1 .. (MaxRound + 1)
      BY DEF LetoInv, Typed
    <3> QED BY <3>1, LetoAssumption
  <2> QED BY <2>1, NothingProposed
<1> QED BY <1>1, <1>2, <1>3, <1>4 DEF LetoInv

\* on_round_timeout keeps the invariant.
LEMMA OnRoundTimeoutStep ==
    ASSUME LetoInv, NEW i \in Ids, OnRoundTimeout(i)
    PROVE  LetoInv'
<1> USE LetoAssumption
<1>1. PICK r \in 1 .. MaxRound : r = current_round[i]
  BY DEF OnRoundTimeout, Running, LetoInv, Typed
<1>2. /\ timer_enabled' = [timer_enabled EXCEPT ![i] = FALSE]
      /\ inbox' = SendToAll(inbox, Ids, BlameMsg(r, i))
      /\ blamed' = [blamed EXCEPT ![r] = @ \cup {i}]
      /\ elements' = elements /\ current_round' = current_round /\ blame_map' = blame_map
      /\ highest' = highest /\ store' = store /\ qc_map' = qc_map
  BY <1>1 DEF OnRoundTimeout
<1>3. Typed
  BY DEF LetoInv
<1>4. Typed'
  <2>1. ElementsTyped'
    BY <1>2, <1>3 DEF Typed, ElementsTyped
  <2>2. DOMAIN inbox' = Ids
    BY <1>2 DEF SendToAll
  <2>3. /\ timer_enabled' \in [Ids -> BOOLEAN]
        /\ blamed' \in [1 .. MaxRound -> SUBSET Ids]
    BY <1>2, <1>3 DEF Typed
  <2> QED BY <1>2, <1>3, <2>1, <2>2, <2>3 DEF Typed
<1>5. \A q \in 1 .. MaxRound : blamed[q] \subseteq blamed'[q]
  BY <1>2, <1>3 DEF Typed
<1>6. Growing
  BY <1>2, <1>5 DEF Growing
<1>7. MessagesTruthful'
  <2> SUFFICES ASSUME NEW j \in Ids, NEW x \in inbox'[j]
               PROVE  Truthful(x)' /\ x.round >= current_round[j]
    BY <1>2 DEF MessagesTruthful
  <2>1. x \in inbox[j] \/ (x = BlameMsg(r, i) /\ x.round >= current_round[j])
    BY <1>2, Sent DEF BlameMsg
  <2>2. CASE x \in inbox[j]
    <3>1. Truthful(x) /\ x.round >= current_round[j]
      BY <2>2 DEF LetoInv, MessagesTruthful
    <3> QED BY <3>1, <1>3, <1>4, <1>6, TruthfulStays
  <2>3. CASE x = BlameMsg(r, i) /\ x.round >= current_round[j]
    <3>1. i \in blamed'[r]
      BY <1>2, <1>3 DEF Typed
    <3>2. Truthful(BlameMsg(r, i))'
      BY <3>1 DEF Truthful, BlameMsg
    <3> QED BY <2>3, <3>2
  <2> QED BY <2>1, <2>2, <2>3
<1>8. BlamesCounted'
  <2> SUFFICES ASSUME NEW j \in Ids, current_round[j] <= MaxRound
               PROVE  blame_map[j] \subseteq blamed'[current_round[j]]
    BY <1>2 DEF BlamesCounted
  <2>1. current_round[j] \in 1 .. MaxRound
    BY <1>3 DEF Typed
  <2> QED BY <2>1, <1>5 DEF LetoInv, BlamesCounted
<1>9. \A j \in Ids : store[j] \subseteq store'[j] /\ store'[j] \subseteq 0 .. Len(elements)
  BY <1>2 DEF LetoInv, ChainStored
<1> QED BY <1>2, <1>4, <1>6, <1>7, <1>8, <1>9, QuietStep

\* The helper of the synchronizer keeps the invariant.
LEMMA FetchParentStep ==
    ASSUME LetoInv, NEW i \in Ids, NEW m \in inbox[i], FetchParent(i, m)
    PROVE  LetoInv'
<1> USE LetoAssumption
<1>1. Truthful(m) /\ m.type \in {"Propose", "Relay"}
  BY DEF LetoInv, MessagesTruthful, FetchParent, BatchKnown
<1>2. /\ store' = [store EXCEPT ![i] = @ \cup {elements[m.elem].parent, m.elem}]
      /\ elements' = elements /\ current_round' = current_round /\ blame_map' = blame_map
      /\ highest' = highest /\ qc_map' = qc_map /\ timer_enabled' = timer_enabled
      /\ inbox' = inbox /\ blamed' = blamed
  BY DEF FetchParent, ParentOf
<1>3. Typed /\ ElementsTyped
  BY DEF LetoInv, Typed
<1>4. elements[m.elem].parent \in 0 .. Len(elements) /\ m.elem \in 0 .. Len(elements)
  <2>1. m.elem \in 1 .. Len(elements) /\ Len(elements) \in Nat
    BY <1>1, <1>3 DEF Truthful, ElementsTyped
  <2>2. elements[m.elem].parent \in 0 .. (m.elem - 1)
    BY <2>1, <1>3 DEF ElementsTyped
  <2> QED BY <2>1, <2>2
<1>5. \A j \in Ids : store[j] \subseteq store'[j] /\ store'[j] \subseteq 0 .. Len(elements)
  <2>1. \A j \in Ids : store[j] \subseteq 0 .. Len(elements)
    BY DEF LetoInv, ChainStored
  <2>2. \A j \in Ids : store'[j] = IF j = i THEN store[j] \cup {elements[m.elem].parent, m.elem}
                                   ELSE store[j]
    BY <1>2, <1>3 DEF Typed
  <2> QED BY <2>1, <2>2, <1>4
<1>6. Typed'
  <2>1. ElementsTyped'
    BY <1>2, <1>3 DEF ElementsTyped
  <2>2. store' \in [Ids -> SUBSET Nat]
    <3>1. store \in [Ids -> SUBSET Nat]
      BY <1>3 DEF Typed
    <3>2. {elements[m.elem].parent, m.elem} \subseteq Nat
      BY <1>4
    <3> QED BY <1>2, <3>1, <3>2
  <2> QED BY <1>2, <1>3, <2>1, <2>2 DEF Typed
<1>7. Growing
  BY <1>2 DEF Growing
<1>8. MessagesTruthful'
  BY <1>2 DEF LetoInv, MessagesTruthful, Truthful
<1>9. BlamesCounted'
  BY <1>2 DEF LetoInv, BlamesCounted
<1> QED BY <1>2, <1>5, <1>6, <1>7, <1>8, <1>9, QuietStep

\* handle_blame keeps the invariant.
LEMMA HandleBlameStep ==
    ASSUME LetoInv, NEW i \in Ids, NEW m \in inbox[i], HandleBlame(i, m)
    PROVE  LetoInv'
<1> USE LetoAssumption
<1>1. /\ Due(i, m, {"Blame"})
      /\ blame_map' = [blame_map EXCEPT ![i] = blame_map[i] \cup {m.from}]
      /\ inbox' = [inbox EXCEPT ![i] = @ \ {m}]
      /\ elements' = elements /\ current_round' = current_round
      /\ highest' = highest /\ qc_map' = qc_map /\ timer_enabled' = timer_enabled
      /\ store' = store /\ blamed' = blamed
  BY DEF HandleBlame
<1>2. Typed
  BY DEF LetoInv
<1>3. /\ blame_map[i] \cup {m.from} \subseteq blamed[current_round[i]]
      /\ blame_map[i] \cup {m.from} \subseteq Ids
  BY <1>1, CountedBlames
<1>4. \A j \in Ids : blame_map'[j] = IF j = i THEN blame_map[i] \cup {m.from} ELSE blame_map[j]
  BY <1>1, <1>2 DEF Typed
<1>5. Typed'
  <2>1. ElementsTyped'
    BY <1>1, <1>2 DEF Typed, ElementsTyped
  <2>2. blame_map' \in [Ids -> SUBSET Ids]
    BY <1>1, <1>2, <1>3 DEF Typed
  <2>3. DOMAIN inbox' = Ids
    BY <1>1, <1>2 DEF Typed
  <2> QED BY <1>1, <1>2, <2>1, <2>2, <2>3 DEF Typed
<1>6. Growing
  BY <1>1 DEF Growing
<1>7. MessagesTruthful'
  <2>1. \A j \in Ids : inbox'[j] \subseteq inbox[j]
    BY <1>1, <1>2 DEF Typed
  <2> QED BY <1>1, <2>1 DEF LetoInv, MessagesTruthful, Truthful
<1>8. BlamesCounted'
  BY <1>1, <1>3, <1>4 DEF LetoInv, BlamesCounted
<1>9. \A j \in Ids : store[j] \subseteq store'[j] /\ store'[j] \subseteq 0 .. Len(elements)
  BY <1>1 DEF LetoInv, ChainStored
<1> QED BY <1>1, <1>5, <1>6, <1>7, <1>8, <1>9, QuietStep

\* A crash keeps the invariant: it only takes messages away.
LEMMA CrashStep ==
    ASSUME LetoInv, NEW i \in Ids, Crash(i)
    PROVE  LetoInv'
<1>1. /\ elements' = elements /\ blamed' = blamed /\ current_round' = current_round
      /\ timer_enabled' = timer_enabled /\ blame_map' = blame_map /\ highest' = highest
      /\ store' = store /\ qc_map' = qc_map
      /\ DOMAIN inbox' = Ids /\ \A j \in Ids : inbox'[j] \subseteq inbox[j]
  BY DEF Crash, serverVars
<1>2. Typed'
  BY <1>1 DEF LetoInv, Typed, ElementsTyped
<1>3. Growing
  BY <1>1 DEF Growing
<1>4. MessagesTruthful'
  BY <1>1 DEF LetoInv, MessagesTruthful, Truthful
<1>5. BlamesCounted'
  BY <1>1 DEF LetoInv, BlamesCounted
<1>6. \A j \in Ids : store[j] \subseteq store'[j] /\ store'[j] \subseteq 0 .. Len(elements)
  BY <1>1 DEF LetoInv, ChainStored
<1> QED BY <1>1, <1>2, <1>3, <1>4, <1>5, <1>6, QuietStep

\* Every step keeps the invariant.
LEMMA LetoStep ==
    ASSUME LetoInv, [CrashNext]_vars
    PROVE  LetoInv'
<1>1. CASE UNCHANGED vars
  <2>1. Typed'
    BY <1>1 DEF vars, serverVars, LetoInv, Typed, ElementsTyped
  <2>2. MessagesTruthful' /\ BlamesCounted' /\ Growing
    BY <1>1 DEF vars, serverVars, LetoInv, MessagesTruthful, Truthful, BlamesCounted, Growing
  <2>3. \A j \in Ids : store[j] \subseteq store'[j] /\ store'[j] \subseteq 0 .. Len(elements)
    BY <1>1 DEF vars, serverVars, LetoInv, ChainStored
  <2> QED BY <1>1, <2>1, <2>2, <2>3, QuietStep DEF vars, serverVars
<1>2. ASSUME NEW i \in Ids, HandleNewBatch(i) PROVE LetoInv'
  BY <1>2, HandleNewBatchStep
<1>3. ASSUME NEW i \in Ids, OnRoundTimeout(i) PROVE LetoInv'
  BY <1>3, OnRoundTimeoutStep
<1>4. ASSUME NEW i \in Ids, Crash(i) PROVE LetoInv'
  BY <1>4, CrashStep
<1>5. ASSUME NEW i \in Ids, Receive(i) PROVE LetoInv'
  <2>1. PICK m \in inbox[i] : \/ FetchParent(i, m) \/ HandleProposal(i, m) \/ HandleBlame(i, m)
                              \/ CompleteBlameQC(i, m) \/ OnBlameQC(i, m)
    BY <1>5 DEF Receive
  <2> QED BY <2>1, FetchParentStep, HandleProposalStep, HandleBlameStep,
             CompleteBlameQCStep, OnBlameQCStep
<1> QED BY <1>1, <1>2, <1>3, <1>4, <1>5 DEF CrashNext, Next

\* LetoInv is an invariant, whatever servers crash.
LEMMA LetoInvariant == CrashSpec => []LetoInv
<1>1. LetoInv /\ [CrashNext]_vars => LetoInv'
  BY LetoStep
<1> QED BY <1>1, LetoInit, PTL DEF CrashSpec

----------------------------------------------------------------------------
\* If every proposal extends the one before it, the ancestors of a proposal are
\* all the proposals before it.
LEMMA LinearAncestors ==
    ASSUME Len(elements) \in Nat, \A e \in 1 .. Len(elements) : elements[e].parent = e - 1,
           NEW a \in 0 .. Len(elements), NEW b \in 0 .. a
    PROVE  b \in Ancestors(a)
<1> DEFINE n == Len(elements)
           Step(f) == [x \in 0 .. n |->
                          IF x = Genesis THEN {Genesis} ELSE {x} \cup f[ParentOf(x)]]
           up == CHOOSE f : f = Step(f)
           below == [x \in 0 .. n |-> 0 .. x]
<1>1. below = Step(below)
  <2>1. \A x \in 0 .. n : x # Genesis => ParentOf(x) = x - 1 /\ x - 1 \in 0 .. n
    BY DEF ParentOf, Genesis
  <2>2. \A x \in 0 .. n : 0 .. x = IF x = Genesis THEN {Genesis} ELSE {x} \cup below[ParentOf(x)]
    <3>1. ASSUME NEW x \in 0 .. n, x # Genesis PROVE 0 .. x = {x} \cup below[ParentOf(x)]
      <4>1. below[ParentOf(x)] = 0 .. (x - 1)
        BY <3>1, <2>1
      <4> QED BY <3>1, <4>1 DEF Genesis
    <3>2. 0 .. Genesis = {Genesis}
      BY DEF Genesis
    <3> HIDE DEF below, n
    <3> QED BY <3>1, <3>2
  <2> QED BY <2>2
<1>2. up = Step(up)
  BY <1>1
<1>3. up[a] = Ancestors(a)
  BY DEF Ancestors
<1> HIDE DEF up
<1>4. \A x \in 0 .. n : up[x] = IF x = Genesis THEN {Genesis} ELSE {x} \cup up[ParentOf(x)]
  BY <1>2
<1> DEFINE bad == {x \in 0 .. n : b <= x /\ b \notin up[x]}
<1>5. bad = {}
  <2> SUFFICES ASSUME bad # {} PROVE FALSE OBVIOUS
  <2>a. bad \subseteq Nat
    OBVIOUS
  <2> HIDE DEF bad
  <2>1. PICK x \in bad : \A y \in bad : x <= y
    BY <2>a, LeastNat
  <2>2. x \in 0 .. n /\ b <= x /\ b \notin up[x]
    BY <2>1 DEF bad
  <2>3. x # Genesis /\ b # x
    <3>1. up[Genesis] = {Genesis}
      <4>1. Genesis \in 0 .. n
        BY DEF Genesis
      <4> QED BY <4>1, <1>4
    <3>2. x # Genesis => x \in up[x]
      BY <2>2, <1>4
    <3> QED BY <2>2, <3>1, <3>2 DEF Genesis
  <2>4. x - 1 \in 0 .. n /\ b <= x - 1 /\ ParentOf(x) = x - 1
    BY <2>2, <2>3 DEF ParentOf, Genesis
  <2>5. x - 1 \notin bad
    BY <2>1, <2>2, <2>4
  <2>6. b \in up[x - 1]
    BY <2>4, <2>5 DEF bad
  <2> QED BY <2>2, <2>3, <2>4, <2>6, <1>4
<1> QED BY <1>3, <1>5

----------------------------------------------------------------------------
\* Without crashes the same holds.
LEMMA LetoInvariantNoCrash == Spec => []LetoInv
<1>1. LetoInv /\ [Next]_vars => LetoInv'
  <2> SUFFICES ASSUME LetoInv, [Next]_vars PROVE LetoInv' OBVIOUS
  <2>1. [CrashNext]_vars
    BY DEF CrashNext
  <2> QED BY <2>1, LetoStep
<1> QED BY <1>1, LetoInit, PTL DEF Spec

\* The rounds, inboxes and stores of all servers have their types: no message of
\* a past round is kept, and no element is stored that was never proposed.
THEOREM LetoTyped == Spec \/ CrashSpec => []TypeOK
<1>1. LetoInv => TypeOK
  <2> SUFFICES ASSUME LetoInv PROVE TypeOK OBVIOUS
  <2>1. Typed /\ ElementsTyped
    BY DEF LetoInv, Typed
  <2>2. \A e \in DOMAIN elements : RoundOf(e) \in 1 .. MaxRound /\ ParentOf(e) \in 0 .. (e - 1)
    <3>1. DOMAIN elements = 1 .. Len(elements)
      BY <2>1 DEF ElementsTyped
    <3>2. \A e \in DOMAIN elements : RoundOf(e) = elements[e].round
      BY <3>1 DEF RoundOf, Genesis
    <3> QED BY <3>1, <3>2, <2>1 DEF ElementsTyped, ParentOf
  <2>3. \A i \in Ids : \A m \in inbox[i] : m.round \in current_round[i] .. MaxRound
    <3> SUFFICES ASSUME NEW i \in Ids, NEW m \in inbox[i]
                 PROVE  m.round \in current_round[i] .. MaxRound
      OBVIOUS
    <3>1. Truthful(m) /\ m.round >= current_round[i]
      BY DEF LetoInv, MessagesTruthful
    <3>2. m.round \in 1 .. MaxRound
      BY <3>1 DEF Truthful
    <3>3. current_round[i] \in 1 .. (MaxRound + 1)
      BY <2>1 DEF Typed
    <3> QED BY <3>1, <3>2, <3>3, LetoAssumption
  <2> QED BY <2>1, <2>2, <2>3 DEF TypeOK, Typed, LetoInv, ChainStored
<1> QED BY <1>1, LetoInvariant, LetoInvariantNoCrash, PTL

\* At most one proposal is made in a round, in whatever order messages arrive,
\* also when some servers stop for good.
THEOREM ProposalsUnique == Spec \/ CrashSpec => []OneProposalPerRound
<1>1. LetoInv => OneProposalPerRound
  BY DEF LetoInv
<1> QED BY <1>1, LetoInvariant, LetoInvariantNoCrash, PTL

\* The expect() of handle_new_batch never fails: a server has the blame QC of
\* every round between its highest element and its own round.
THEOREM SkippedRoundsHaveQCs == Spec \/ CrashSpec => []QCForEverySkippedRound
<1>1. LetoInv => QCForEverySkippedRound
  BY DEF LetoInv
<1> QED BY <1>1, LetoInvariant, LetoInvariantNoCrash, PTL

\* The highest element of a server and the parent of that element are in its
\* store, so a proposal that extends highest finds its parent.  (Nothing is said
\* of other stored elements.)
THEOREM ExtendedIsStored == Spec \/ CrashSpec => []ParentsStored
<1>1. LetoInv => ParentsStored
  BY DEF LetoInv, ChainStored, ParentsStored, ParentOf
<1> QED BY <1>1, LetoInvariant, LetoInvariantNoCrash, PTL

\* Every blame QC a server holds, formed by itself or received, has a quorum of
\* blames of its very round behind it.
THEOREM BlameQCsEarned == Spec \/ CrashSpec => []QCsAreEarned
<1>1. LetoInv => QCsAreEarned
  BY DEF LetoInv
<1> QED BY <1>1, LetoInvariant, LetoInvariantNoCrash, PTL

\* Two servers' chains diverge only if a quorum of servers blamed some round.
\* Until then each proposal extends the one of the round before it.
THEOREM NoForkWithoutBlames == Spec \/ CrashSpec => []ForkNeedsQuorumBlame
<1>1. LetoInv => ForkNeedsQuorumBlame
  <2> SUFFICES ASSUME LetoInv, NoQuorumBlame, NEW i \in Ids, NEW j \in Ids
               PROVE  \/ highest[i] \in Ancestors(highest[j])
                      \/ highest[j] \in Ancestors(highest[i])
    BY DEF ForkNeedsQuorumBlame, NoQuorumBlame
  <2>1. /\ Len(elements) \in Nat
        /\ \A e \in 1 .. Len(elements) : elements[e].parent = e - 1
    <3>1. ElementsTyped
      BY DEF LetoInv, Typed
    <3> QED BY <3>1 DEF LetoInv, Linear, ElementsTyped
  <2>2. highest[i] \in 0 .. Len(elements) /\ highest[j] \in 0 .. Len(elements)
    BY DEF LetoInv, ChainStored
  <2>3. PICK a \in 0 .. Len(elements), b \in 0 .. Len(elements) : a = highest[i] /\ b = highest[j]
    BY <2>2
  <2>4. a \in 0 .. b \/ b \in 0 .. a
    BY <2>1
  <2> QED BY <2>1, <2>3, <2>4, LinearAncestors
<1> QED BY <1>1, LetoInvariant, LetoInvariantNoCrash, PTL
==============================================================================
