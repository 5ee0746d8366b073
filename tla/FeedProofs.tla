----------------------------- MODULE FeedProofs -----------------------------
(* Proofs about module StatusFeed: whatever the submissions, the numbers of
   their tests and the faults, the incremental status leaves nothing out, its
   panics are not reached, and no running row is forgotten.

   The argument is the order of the list: it is that of the epochs, the newest
   first, so that the first holder older than the epoch of a client ends what is
   new to the client.                                                        *)
EXTENDS StatusFeed, SequenceTheorems, TLAPS

\* The list has every holder once, in the order of the epochs.
NewestFirst ==
  /\ order \in Seq(Submission)
  /\ \A i \in DOMAIN order : order[i] \in DOMAIN holders
  /\ \A s \in DOMAIN holders : \E i \in DOMAIN order : order[i] = s
  /\ \A i, j \in DOMAIN order :
       i < j => holders[order[i]].lastUpdatedEpoch > holders[order[j]].lastUpdatedEpoch

HoldersAreGood ==
  /\ DOMAIN holders \subseteq Submission
  /\ \A s \in DOMAIN holders : holders[s] \in Holder
  /\ \A s \in DOMAIN holders : holders[s].lastUpdatedEpoch \in 1..clock
  /\ clock \in Nat

ListInv == HoldersAreGood /\ NewestFirst

----------------------------------------------------------------------------
(* The list of the status.                                                  *)

LEMMA ListIsInjective ==
  ASSUME ListInv
  PROVE  \A i, j \in DOMAIN order : order[i] = order[j] => i = j
  <1> SUFFICES ASSUME NEW i \in DOMAIN order, NEW j \in DOMAIN order,
                      order[i] = order[j], i < j
               PROVE  FALSE
    BY DEF ListInv, NewestFirst
  <1>1. holders[order[i]].lastUpdatedEpoch > holders[order[j]].lastUpdatedEpoch
    BY DEF ListInv, NewestFirst
  <1>2. order[i] \in DOMAIN holders
    BY DEF ListInv, NewestFirst
  <1>3. holders[order[i]].lastUpdatedEpoch \in 1..clock /\ clock \in Nat
    BY <1>2 DEF ListInv, HoldersAreGood
  <1> QED
    BY <1>1, <1>3

LEMMA Prepend ==
  ASSUME NEW S, NEW seq \in Seq(S), NEW x \in S
  PROVE  /\ <<x>> \o seq \in Seq(S)
         /\ DOMAIN (<<x>> \o seq) = 1..(Len(seq) + 1)
         /\ (<<x>> \o seq)[1] = x
         /\ \A i \in 2..(Len(seq) + 1) : (<<x>> \o seq)[i] = seq[i - 1]
  <1>1. <<x>> \in Seq(S) /\ Len(<<x>>) = 1 /\ <<x>>[1] = x
    OBVIOUS
  <1>2. /\ <<x>> \o seq \in Seq(S)
        /\ Len(<<x>> \o seq) = Len(seq) + 1
        /\ \A i \in 1..(Len(seq) + 1) :
             (<<x>> \o seq)[i] = IF i <= 1 THEN <<x>>[i] ELSE seq[i - 1]
    BY <1>1, ConcatProperties
  <1> QED
    BY <1>1, <1>2, LenProperties

LEMMA Without ==
  ASSUME order \in Seq(Submission), NEW k \in DOMAIN order
  PROVE  /\ WithoutElement(k) \in Seq(Submission)
         /\ DOMAIN WithoutElement(k) = 1..(Len(order) - 1)
         /\ Len(WithoutElement(k)) = Len(order) - 1
         /\ \A i \in 1..(Len(order) - 1) :
              WithoutElement(k)[i] = order[IF i < k THEN i ELSE i + 1]
  <1>1. DOMAIN order = 1..Len(order) /\ Len(order) \in Nat \ {0} /\ k \in 1..Len(order)
    OBVIOUS
  <1>2. \A i \in 1..(Len(order) - 1) : order[IF i < k THEN i ELSE i + 1] \in Submission
    BY <1>1
  <1> QED
    BY <1>1, <1>2 DEF WithoutElement

LEMMA AddKeeps ==
  ASSUME ListInv, NEW s \in Submission, s \notin DOMAIN holders, AddSubmission(s)
  PROVE  /\ ListInv'
         /\ DOMAIN holders' = DOMAIN holders \cup {s}
         /\ holders'[s].lastUpdatedEpoch = clock' /\ clock' > clock
         /\ \A t \in DOMAIN holders : holders'[t] = holders[t]
  <1>0. clock \in Nat /\ clock' = clock + 1 /\ clock' > clock /\ 1..clock \subseteq 1..clock'
    <2>1. clock \in Nat /\ clock' = clock + 1
      BY DEF AddSubmission, ListInv, HoldersAreGood
    <2> QED
      BY <2>1
  <1>1. /\ clock \in Nat /\ clock' = clock + 1
        /\ DOMAIN holders' = DOMAIN holders \cup {s}
        /\ holders'[s] = NewHolder(TRUE, NothingYet)
        /\ \A t \in DOMAIN holders : holders'[t] = holders[t]
    BY DEF AddSubmission, ListInv, HoldersAreGood
  <1>2. NewHolder(TRUE, NothingYet) \in Holder /\ holders'[s].lastUpdatedEpoch = clock + 1
    BY <1>1, StatusAssumption DEF NewHolder, Holder, Value, NothingYet
  <1>3. HoldersAreGood'
    <2>1. DOMAIN holders' \subseteq Submission /\ clock' \in Nat
      BY <1>1 DEF ListInv, HoldersAreGood
    <2>2. ASSUME NEW t \in DOMAIN holders'
          PROVE  holders'[t] \in Holder /\ holders'[t].lastUpdatedEpoch \in 1..clock'
      <3>1. CASE t = s
        <4>1. holders'[t] \in Holder /\ holders'[t].lastUpdatedEpoch = clock'
          BY <1>0, <1>1, <1>2, <3>1
        <4>2. clock' \in 1..clock'
          BY <1>0
        <4> QED
          BY <4>1, <4>2
      <3>2. CASE t # s
        <4>1. /\ t \in DOMAIN holders /\ holders'[t] = holders[t]
              /\ holders[t] \in Holder /\ holders[t].lastUpdatedEpoch \in 1..clock
          BY <1>1, <3>2 DEF ListInv, HoldersAreGood
        <4> QED
          BY <1>0, <4>1
      <3> QED
        BY <3>1, <3>2
    <2> QED
      BY <2>1, <2>2 DEF HoldersAreGood
  <1>4. order \in Seq(Submission) /\ DOMAIN order = 1..Len(order) /\ Len(order) \in Nat
    BY DEF ListInv, NewestFirst
  <1>5. /\ order' \in Seq(Submission) /\ DOMAIN order' = 1..(Len(order) + 1)
        /\ order'[1] = s
        /\ \A i \in 2..(Len(order) + 1) : order'[i] = order[i - 1]
    BY <1>4, Prepend DEF AddSubmission
  <1>6. \A i \in DOMAIN order : i + 1 \in 2..(Len(order) + 1) /\ order'[i + 1] = order[i]
    BY <1>4, <1>5
  <1>7. ASSUME NEW i \in DOMAIN order' PROVE order'[i] \in DOMAIN holders'
    <2>1. CASE i = 1
      BY <1>1, <1>5, <2>1
    <2>2. CASE i # 1
      <3>1. i - 1 \in DOMAIN order /\ order'[i] = order[i - 1]
        BY <1>4, <1>5, <2>2
      <3> QED
        BY <1>1, <3>1 DEF ListInv, NewestFirst
    <2> QED
      BY <2>1, <2>2
  <1>8. \A t \in DOMAIN holders' : \E i \in DOMAIN order' : order'[i] = t
    <2> TAKE t \in DOMAIN holders'
    <2>1. CASE t = s
      BY <2>1, <1>4, <1>5
    <2>2. CASE t # s
      <3>1. PICK i \in DOMAIN order : order[i] = t
        BY <2>2, <1>1 DEF ListInv, NewestFirst
      <3> QED
        BY <3>1, <1>4, <1>5, <1>6
    <2> QED
      BY <2>1, <2>2
  <1>9. ASSUME NEW i \in DOMAIN order', NEW j \in DOMAIN order', i < j
        PROVE  holders'[order'[i]].lastUpdatedEpoch > holders'[order'[j]].lastUpdatedEpoch
    <2>1. j - 1 \in DOMAIN order /\ order'[j] = order[j - 1] /\ order[j - 1] \in DOMAIN holders
      BY <1>4, <1>5, <1>9 DEF ListInv, NewestFirst
    <2>2. holders'[order'[j]].lastUpdatedEpoch \in 1..clock
      BY <1>1, <2>1 DEF ListInv, HoldersAreGood
    <2>3. CASE i = 1
      <3>1. holders'[order'[i]].lastUpdatedEpoch = clock + 1
        BY <1>2, <1>5, <2>3
      <3> QED
        BY <1>0, <2>2, <3>1
    <2>4. CASE i # 1
      <3>1. /\ i - 1 \in DOMAIN order /\ order'[i] = order[i - 1] /\ i - 1 < j - 1
            /\ order[i - 1] \in DOMAIN holders
        BY <1>4, <1>5, <1>9, <2>4 DEF ListInv, NewestFirst
      <3>2. j - 1 \in DOMAIN order /\ order'[j] = order[j - 1]
        BY <2>1
      <3>3. holders[order[i - 1]].lastUpdatedEpoch > holders[order[j - 1]].lastUpdatedEpoch
        BY <3>1, <3>2 DEF ListInv, NewestFirst
      <3>4. holders'[order[i - 1]] = holders[order[i - 1]]
        BY <1>1, <3>1
      <3>5. holders'[order[j - 1]] = holders[order[j - 1]]
        BY <1>1, <2>1
      <3> QED
        BY <3>1, <3>2, <3>3, <3>4, <3>5
    <2> QED
      BY <2>3, <2>4
  <1>10. NewestFirst'
    BY <1>5, <1>7, <1>8, <1>9 DEF NewestFirst
  <1>11. ListInv'
    BY <1>3, <1>10 DEF ListInv
  <1>12. holders'[s].lastUpdatedEpoch = clock' /\ clock' > clock
    <2>1. holders'[s].lastUpdatedEpoch = clock + 1
      BY <1>2
    <2> QED
      BY <1>0, <2>1
  <1> QED
    BY <1>1, <1>11, <1>12

LEMMA FinishKeeps ==
  ASSUME ListInv, NEW s \in DOMAIN holders, FinishSubmissionTesting(s)
  PROVE  /\ ListInv' /\ UNCHANGED clock
         /\ DOMAIN holders' = DOMAIN holders \ {s}
         /\ \A t \in DOMAIN holders' : holders'[t] = holders[t]
  <1>1. /\ UNCHANGED clock /\ DOMAIN holders' = DOMAIN holders \ {s}
        /\ \A t \in DOMAIN holders' : holders'[t] = holders[t]
    BY DEF FinishSubmissionTesting
  <1>2. HoldersAreGood'
    BY <1>1 DEF ListInv, HoldersAreGood
  <1>3. PICK k \in DOMAIN order : order[k] = s /\ order' = WithoutElement(k)
    BY DEF FinishSubmissionTesting, IsPosition
  <1>4. order \in Seq(Submission) /\ DOMAIN order = 1..Len(order) /\ Len(order) \in Nat
    BY DEF ListInv, NewestFirst
  <1>5. /\ order' \in Seq(Submission) /\ DOMAIN order' = 1..(Len(order) - 1)
        /\ \A i \in 1..(Len(order) - 1) : order'[i] = order[IF i < k THEN i ELSE i + 1]
    BY <1>3, <1>4, Without
  <1>6. \A i, j \in DOMAIN order : order[i] = order[j] => i = j
    BY ListIsInjective
  <1>7. \A i \in DOMAIN order' : order'[i] \in DOMAIN holders'
    BY <1>1, <1>3, <1>4, <1>5, <1>6 DEF ListInv, NewestFirst
  <1>8. \A t \in DOMAIN holders' : \E i \in DOMAIN order' : order'[i] = t
    <2> TAKE t \in DOMAIN holders'
    <2>1. PICK i \in DOMAIN order : order[i] = t
      BY <1>1 DEF ListInv, NewestFirst
    <2>2. i # k
      BY <1>1, <1>3, <2>1
    <2>3. CASE i < k
      BY <1>4, <1>5, <2>1, <2>3
    <2>4. CASE i > k
      <3>1. i - 1 \in DOMAIN order' /\ ~(i - 1 < k) /\ order'[i - 1] = order[i]
        BY <1>3, <1>4, <1>5, <2>4
      <3> QED
        BY <2>1, <3>1
    <2> QED
      BY <1>4, <2>2, <2>3, <2>4
  <1>9. ASSUME NEW i \in DOMAIN order', NEW j \in DOMAIN order', i < j
        PROVE  holders'[order'[i]].lastUpdatedEpoch > holders'[order'[j]].lastUpdatedEpoch
    <2>1. PICK a : a = IF i < k THEN i ELSE i + 1
      OBVIOUS
    <2>2. PICK b : b = IF j < k THEN j ELSE j + 1
      OBVIOUS
    <2>3. /\ a \in DOMAIN order /\ b \in DOMAIN order /\ a < b
          /\ order'[i] = order[a] /\ order'[j] = order[b]
      BY <1>3, <1>4, <1>5, <1>9, <2>1, <2>2
    <2>4. holders[order[a]].lastUpdatedEpoch > holders[order[b]].lastUpdatedEpoch
      BY <2>3 DEF ListInv, NewestFirst
    <2> QED
      BY <1>1, <1>7, <2>3, <2>4
  <1>10. NewestFirst'
    BY <1>5, <1>7, <1>8, <1>9 DEF NewestFirst
  <1> QED
    BY <1>1, <1>2, <1>10 DEF ListInv

\* UpdateSubmission removes the element of s and adds it in front.
LEMMA UpdateKeeps ==
  ASSUME ListInv, NEW s \in DOMAIN holders, NEW v \in Value, UpdateSubmission(s, v)
  PROVE  /\ ListInv'
         /\ DOMAIN holders' = DOMAIN holders
         /\ holders'[s].lastUpdatedEpoch = clock' /\ clock' > clock
         /\ \A t \in DOMAIN holders \ {s} : holders'[t] = holders[t]
  <1>0. clock \in Nat /\ clock' = clock + 1 /\ clock' > clock /\ 1..clock \subseteq 1..clock'
    <2>1. clock \in Nat /\ clock' = clock + 1
      BY DEF UpdateSubmission, ListInv, HoldersAreGood
    <2> QED
      BY <2>1
  <1>1. /\ clock \in Nat /\ clock' = clock + 1 /\ s \in Submission
        /\ DOMAIN holders' = DOMAIN holders
        /\ holders'[s] = NewHolder(FALSE, v)
        /\ \A t \in DOMAIN holders \ {s} : holders'[t] = holders[t]
    BY DEF UpdateSubmission, ListInv, HoldersAreGood
  <1>2. NewHolder(FALSE, v) \in Holder /\ holders'[s].lastUpdatedEpoch = clock + 1
    BY <1>1 DEF NewHolder, Holder
  <1>3. HoldersAreGood'
    <2>1. DOMAIN holders' \subseteq Submission /\ clock' \in Nat
      BY <1>1 DEF ListInv, HoldersAreGood
    <2>2. ASSUME NEW t \in DOMAIN holders'
          PROVE  holders'[t] \in Holder /\ holders'[t].lastUpdatedEpoch \in 1..clock'
      <3>1. CASE t = s
        <4>1. holders'[t] \in Holder /\ holders'[t].lastUpdatedEpoch = clock'
          BY <1>0, <1>1, <1>2, <3>1
        <4>2. clock' \in 1..clock'
          BY <1>0
        <4> QED
          BY <4>1, <4>2
      <3>2. CASE t # s
        <4>1. /\ t \in DOMAIN holders /\ holders'[t] = holders[t]
              /\ holders[t] \in Holder /\ holders[t].lastUpdatedEpoch \in 1..clock
          BY <1>1, <3>2 DEF ListInv, HoldersAreGood
        <4> QED
          BY <1>0, <4>1
      <3> QED
        BY <3>1, <3>2
    <2> QED
      BY <2>1, <2>2 DEF HoldersAreGood
  <1>4. order \in Seq(Submission) /\ DOMAIN order = 1..Len(order) /\ Len(order) \in Nat
    BY DEF ListInv, NewestFirst
  <1>5. PICK k \in DOMAIN order : order[k] = s /\ order' = <<s>> \o WithoutElement(k)
    BY DEF UpdateSubmission, IsPosition
  <1>6. \A i, j \in DOMAIN order : order[i] = order[j] => i = j
    BY ListIsInjective
  <1>7. PICK rest : rest = WithoutElement(k)
    OBVIOUS
  <1>8. /\ rest \in Seq(Submission) /\ DOMAIN rest = 1..(Len(order) - 1)
        /\ Len(rest) = Len(order) - 1
        /\ \A i \in 1..(Len(order) - 1) : rest[i] = order[IF i < k THEN i ELSE i + 1]
    BY <1>4, <1>7, Without
  <1>9. /\ order' \in Seq(Submission) /\ DOMAIN order' = 1..(Len(rest) + 1)
        /\ order'[1] = s
        /\ \A i \in 2..(Len(rest) + 1) : order'[i] = rest[i - 1]
    BY <1>1, <1>5, <1>7, <1>8, Prepend
  <1>10. /\ DOMAIN order' = DOMAIN order
         /\ \A i \in 2..Len(order) : order'[i] = order[IF i - 1 < k THEN i - 1 ELSE i]
    BY <1>4, <1>8, <1>9
  <1>11. ASSUME NEW i \in DOMAIN order' PROVE order'[i] \in DOMAIN holders'
    <2>1. CASE i = 1
      BY <1>1, <1>9, <2>1
    <2>2. CASE i # 1
      <3>1. PICK a \in DOMAIN order : order'[i] = order[a]
        BY <1>4, <1>10, <2>2
      <3> QED
        BY <1>1, <3>1 DEF ListInv, NewestFirst
    <2> QED
      BY <2>1, <2>2
  <1>12. \A t \in DOMAIN holders' : \E i \in DOMAIN order' : order'[i] = t
    <2> TAKE t \in DOMAIN holders'
    <2>1. PICK i \in DOMAIN order : order[i] = t
      BY <1>1 DEF ListInv, NewestFirst
    <2>2. CASE i = k
      <3>1. t = s
        BY <1>5, <2>1, <2>2
      <3>2. 1 \in DOMAIN order'
        <4>1. i \in 1..Len(order)
          BY <1>4
        <4>2. 1 \in 1..Len(order)
          BY <1>4, <4>1
        <4> QED
          BY <1>4, <1>10, <4>2
      <3> QED
        BY <1>9, <3>1, <3>2
    <2>3. CASE i < k
      <3>1. i + 1 \in DOMAIN order' /\ order'[i + 1] = order[i]
        BY <1>4, <1>10, <2>3
      <3> QED
        BY <2>1, <3>1
    <2>4. CASE i > k
      <3>1. i \in DOMAIN order' /\ order'[i] = order[i]
        BY <1>4, <1>10, <2>4
      <3> QED
        BY <2>1, <3>1
    <2> QED
      BY <1>4, <2>2, <2>3, <2>4
  <1>13. ASSUME NEW i \in DOMAIN order', NEW j \in DOMAIN order', i < j
         PROVE  holders'[order'[i]].lastUpdatedEpoch > holders'[order'[j]].lastUpdatedEpoch
    <2>1. PICK b : b = IF j - 1 < k THEN j - 1 ELSE j
      OBVIOUS
    <2>2. b \in DOMAIN order /\ b # k /\ order'[j] = order[b]
      BY <1>4, <1>10, <1>13, <2>1
    <2>3. order[b] \in DOMAIN holders \ {s}
      BY <1>5, <1>6, <2>2 DEF ListInv, NewestFirst
    <2>4. CASE i = 1
      <3>1. /\ holders'[order'[i]].lastUpdatedEpoch = clock + 1
            /\ holders'[order'[j]] = holders[order[b]]
        BY <1>1, <1>2, <1>9, <2>2, <2>3, <2>4
      <3>2. holders[order[b]].lastUpdatedEpoch \in 1..clock
        BY <2>3 DEF ListInv, HoldersAreGood
      <3> QED
        BY <1>1, <3>1, <3>2
    <2>5. CASE i # 1
      <3>1. PICK a : a = IF i - 1 < k THEN i - 1 ELSE i
        OBVIOUS
      <3>2. a \in DOMAIN order /\ a # k /\ a < b /\ order'[i] = order[a]
        BY <1>4, <1>10, <1>13, <2>1, <2>5, <3>1
      <3>3. order[a] \in DOMAIN holders \ {s}
        BY <1>5, <1>6, <3>2 DEF ListInv, NewestFirst
      <3>4. holders[order[a]].lastUpdatedEpoch > holders[order[b]].lastUpdatedEpoch
        BY <2>2, <3>2 DEF ListInv, NewestFirst
      <3>5. holders'[order'[i]] = holders[order[a]] /\ holders'[order'[j]] = holders[order[b]]
        BY <1>1, <2>2, <2>3, <3>2, <3>3
      <3> QED
        BY <3>4, <3>5
    <2> QED
      BY <2>4, <2>5
  <1>14. NewestFirst'
    BY <1>9, <1>11, <1>12, <1>13 DEF NewestFirst
  <1>15. ListInv'
    BY <1>3, <1>14 DEF ListInv
  <1>16. holders'[s].lastUpdatedEpoch = clock' /\ clock' > clock
    <2>1. holders'[s].lastUpdatedEpoch = clock + 1
      BY <1>2
    <2> QED
      BY <1>0, <2>1
  <1> QED
    BY <1>1, <1>15, <1>16

\* What GetStatus leaves out is older than the epoch it was asked with.
LEMMA LeftOutIsOld ==
  ASSUME ListInv, NEW e \in Nat, NEW s \in DOMAIN holders, s \notin UpdatedSince(e)
  PROVE  holders[s].lastUpdatedEpoch < e
  <1>1. PICK i \in DOMAIN order : order[i] = s
    BY DEF ListInv, NewestFirst
  <1>2. PICK j \in 1..i : ~(holders[order[j]].lastUpdatedEpoch >= e)
    BY <1>1 DEF UpdatedSince
  <1>3. i \in 1..Len(order) /\ j \in DOMAIN order /\ j <= i
    BY <1>2 DEF ListInv, NewestFirst
  <1>4. /\ order[j] \in DOMAIN holders
        /\ holders[order[j]].lastUpdatedEpoch \in Nat /\ holders[s].lastUpdatedEpoch \in Nat
    BY <1>3 DEF ListInv, NewestFirst, HoldersAreGood
  <1>5. holders[order[j]].lastUpdatedEpoch >= holders[s].lastUpdatedEpoch
    <2>1. CASE j = i
      BY <1>1, <1>4, <2>1
    <2>2. CASE j # i
      <3>1. j < i
        BY <1>3, <2>2
      <3> QED
        BY <1>1, <1>3, <1>4, <3>1 DEF ListInv, NewestFirst
    <2> QED
      BY <2>1, <2>2
  <1> QED
    BY <1>2, <1>4, <1>5

----------------------------------------------------------------------------
(* The inductive invariant.                                                 *)

\* The types of what the other parts do not fix.
FeedTypes ==
  /\ stage \in [Submission -> {"none", "row", "refused", "accepted"}]
  /\ rows \in [Submission -> {"none", "running", "stored", "removed"}]
  /\ objects \in [Submission -> Value]
  /\ result = NoResult \/ result \in [sub : Submission, before : Value]
  /\ saving \subseteq Submission /\ saved \subseteq Submission
  /\ removing \subseteq Submission /\ left \subseteq Submission
  /\ faults \in 0..MaxFaults

ApiTypes ==
  /\ DOMAIN cache \subseteq Submission
  /\ \A s \in DOMAIN cache : cache[s] \in Pointer
  /\ status \in Nat
  /\ poll = NoPoll \/ poll \in Poll

\* What is told and what is in flight; an answer in flight leaves out only what
\* is older than the epoch of the client, or newer than its own.
EpochsAreGood ==
  /\ status <= clock
  /\ poll # NoPoll => status < poll.epoch /\ poll.epoch <= clock

PollMissesNothing ==
  poll # NoPoll =>
    \A s \in DOMAIN holders :
      holders[s].lastUpdatedEpoch < poll.epoch =>
        IF s \in DOMAIN poll.updated
          THEN \/ holders[s].original
               \/ poll.updated[s] =
                    [original |-> FALSE, submission |-> holders[s].submission]
          ELSE holders[s].lastUpdatedEpoch < status

\* A submission is in the status from Submit until its result is stored.
WorkIsInStatus ==
  /\ \A s \in DOMAIN holders : stage[s] = "accepted"
  /\ \A s \in Submission :
       stage[s] = "accepted" /\ objects[s].tests < TestsNumber[s] => s \in DOMAIN holders
  /\ result # NoResult =>
       /\ result.sub \in DOMAIN holders
       /\ result.sub \notin saving \cup saved
  /\ saving \cup saved \subseteq DOMAIN holders
  /\ saving \cap saved = {}
  /\ \A s \in saving \cup saved : objects[s].tests = TestsNumber[s]

ApiInv == ApiTypes /\ EpochsAreGood /\ NothingIsMissed /\ PollMissesNothing

Inv == ListInv /\ FeedTypes /\ ApiInv /\ WorkIsInStatus /\ NoRowIsForgotten

masterVars == <<dbVars, workVars, faults>>

----------------------------------------------------------------------------
(* What the API knows, when the status changes and when it does not.        *)

\* Holders are removed, or updated under an epoch that no answer has.
LEMMA StatusStep ==
  ASSUME ListInv, ListInv', ApiInv, UNCHANGED apiVars, clock' >= clock,
         \A s \in DOMAIN holders' :
           \/ s \in DOMAIN holders /\ holders'[s] = holders[s]
           \/ holders'[s].lastUpdatedEpoch > clock
  PROVE  ApiInv'
  <1>1. /\ ApiTypes' /\ UNCHANGED <<cache, status, poll>>
        /\ status \in Nat /\ clock \in Nat /\ clock' \in Nat
    BY DEF ApiInv, ApiTypes, apiVars, ListInv, HoldersAreGood
  <1>2. poll # NoPoll => poll.epoch \in Nat
    BY DEF ApiInv, ApiTypes, Poll
  <1>3. EpochsAreGood'
    BY <1>1, <1>2 DEF ApiInv, EpochsAreGood
  <1>4. ASSUME NEW s \in DOMAIN holders', NEW e \in Nat, e <= clock,
               holders'[s].lastUpdatedEpoch < e
        PROVE  s \in DOMAIN holders /\ holders'[s] = holders[s]
    <2>1. holders'[s].lastUpdatedEpoch \in Nat
      BY DEF ListInv, HoldersAreGood
    <2> QED
      BY <1>1, <1>4, <2>1
  <1>5. NothingIsMissed'
    <2> SUFFICES ASSUME NEW s \in DOMAIN holders', holders'[s].lastUpdatedEpoch < status
                 PROVE  /\ s \in DOMAIN cache
                        /\ holders'[s].original \/ cache[s].submission = holders'[s].submission
      BY <1>1 DEF NothingIsMissed
    <2>1. s \in DOMAIN holders /\ holders'[s] = holders[s]
      BY <1>1, <1>4 DEF ApiInv, EpochsAreGood
    <2> QED
      BY <2>1 DEF ApiInv, NothingIsMissed
  <1>6. PollMissesNothing'
    <2> SUFFICES ASSUME poll # NoPoll, NEW s \in DOMAIN holders',
                        holders'[s].lastUpdatedEpoch < poll.epoch
                 PROVE  IF s \in DOMAIN poll.updated
                          THEN \/ holders'[s].original
                               \/ poll.updated[s] =
                                    [original |-> FALSE, submission |-> holders'[s].submission]
                          ELSE holders'[s].lastUpdatedEpoch < status
      BY <1>1 DEF PollMissesNothing
    <2>1. s \in DOMAIN holders /\ holders'[s] = holders[s]
      BY <1>2, <1>4 DEF ApiInv, EpochsAreGood
    <2> QED
      BY <2>1 DEF ApiInv, PollMissesNothing
  <1> QED
    BY <1>1, <1>3, <1>5, <1>6 DEF ApiInv

LEMMA StatusUnchanged ==
  ASSUME ListInv, ApiInv, UNCHANGED <<statusVars, apiVars>>
  PROVE  ListInv' /\ ApiInv'
  <1>1. UNCHANGED <<holders, order, clock, cache, status, poll>>
    BY DEF statusVars, apiVars
  <1>2. ListInv'
    BY <1>1 DEF ListInv, HoldersAreGood, NewestFirst
  <1>3. ApiInv'
    BY <1>1 DEF ApiInv, ApiTypes, EpochsAreGood, NothingIsMissed, PollMissesNothing
  <1> QED
    BY <1>2, <1>3

\* The client has no answer in flight, or is restarted.
LEMMA NoAnswer ==
  ASSUME ApiInv, UNCHANGED <<holders, cache, status>>, clock' = clock, poll' = NoPoll
  PROVE  ApiInv'
  BY DEF ApiInv, ApiTypes, EpochsAreGood, NothingIsMissed, PollMissesNothing

LEMMA GetStatusKeeps ==
  ASSUME ListInv, FeedTypes, ApiInv, GetStatus
  PROVE  ListInv' /\ ApiInv'
  <1>1. /\ UNCHANGED <<holders, order, cache, status>> /\ clock \in Nat /\ clock' = clock + 1
        /\ status \in Nat
    BY DEF GetStatus, ListInv, HoldersAreGood, ApiInv, ApiTypes
  <1>2. PICK U : U = UpdatedSince(status)
    OBVIOUS
  <1>3. PICK sent : sent = [s \in U |-> PointerTo(s)]
    OBVIOUS
  <1>4. poll' = [epoch |-> clock + 1, updated |-> sent]
    BY <1>2, <1>3 DEF GetStatus
  <1>5. U \subseteq DOMAIN holders /\ U \subseteq Submission
    BY <1>2 DEF UpdatedSince, ListInv, HoldersAreGood
  <1>6. sent \in [U -> Pointer]
    <2>1. ASSUME NEW s \in U PROVE PointerTo(s) \in Pointer
      <3>1. s \in Submission /\ holders[s] \in Holder
        BY <1>5 DEF ListInv, HoldersAreGood
      <3>2. objects[s] \in Value /\ holders[s].submission \in Value
        BY <3>1 DEF FeedTypes, Holder
      <3>3. result # NoResult => result.before \in Value
        BY DEF FeedTypes
      <3> QED
        BY <3>2, <3>3 DEF PointerTo, Pointer
    <2> QED
      BY <1>3, <2>1
  <1>7. poll' \in Poll /\ poll' # NoPoll
    <2>1. sent \in UNION {[S -> Pointer] : S \in SUBSET Submission}
      BY <1>5, <1>6
    <2>2. clock + 1 \in Nat \ {0}
      BY <1>1
    <2>3. poll' # NoPoll
      BY <1>4, <2>2 DEF NoPoll
    <2> QED
      BY <1>4, <2>1, <2>2, <2>3 DEF Poll
  <1>8. ListInv'
    <2>1. ASSUME NEW s \in DOMAIN holders
          PROVE  holders[s].lastUpdatedEpoch \in 1..clock'
      <3>1. holders[s].lastUpdatedEpoch \in 1..clock
        BY DEF ListInv, HoldersAreGood
      <3> QED
        BY <1>1, <3>1
    <2>2. HoldersAreGood'
      BY <1>1, <2>1 DEF ListInv, HoldersAreGood
    <2>3. NewestFirst'
      BY <1>1 DEF ListInv, NewestFirst
    <2> QED
      BY <2>2, <2>3 DEF ListInv
  <1>9. ApiTypes'
    BY <1>1, <1>7 DEF ApiInv, ApiTypes
  <1>10. EpochsAreGood'
    BY <1>1, <1>4 DEF ApiInv, EpochsAreGood
  <1>11. NothingIsMissed'
    BY <1>1 DEF ApiInv, NothingIsMissed
  <1>12. PollMissesNothing'
    <2> SUFFICES ASSUME NEW s \in DOMAIN holders
                 PROVE  IF s \in DOMAIN sent
                          THEN \/ holders[s].original
                               \/ sent[s] =
                                    [original |-> FALSE, submission |-> holders[s].submission]
                          ELSE holders[s].lastUpdatedEpoch < status
      BY <1>1, <1>4 DEF PollMissesNothing
    <2>1. CASE s \in U
      <3>1. s \in DOMAIN sent /\ sent[s] = PointerTo(s)
        BY <1>3, <2>1
      <3> QED
        BY <3>1 DEF PointerTo
    <2>2. CASE s \notin U
      <3>1. s \notin DOMAIN sent
        BY <1>3, <2>2
      <3> QED
        BY <1>1, <1>2, <2>2, <3>1, LeftOutIsOld
    <2> QED
      BY <2>1, <2>2
  <1> QED
    BY <1>8, <1>9, <1>10, <1>11, <1>12 DEF ApiInv

LEMMA UpdateStatusKeeps ==
  ASSUME ListInv, ApiInv, UpdateStatus
  PROVE  ListInv' /\ ApiInv'
  <1>1. /\ UNCHANGED <<holders, order, clock>> /\ poll # NoPoll /\ poll' = NoPoll
        /\ status' = poll.epoch
    BY DEF UpdateStatus, statusVars
  <1>2. /\ poll \in Poll /\ DOMAIN poll.updated \subseteq Submission
        /\ \A s \in DOMAIN poll.updated : poll.updated[s] \in Pointer
        /\ poll.epoch \in Nat /\ status \in Nat
    BY <1>1 DEF ApiInv, ApiTypes, Poll
  <1>3. PICK read \in [DOMAIN poll.updated -> Value] :
          /\ IsAnswer(read)
          /\ cache' = [s \in DOMAIN cache \cup DOMAIN read |->
               IF s \in DOMAIN read
                 THEN [original |-> poll.updated[s].original, submission |-> read[s]]
                 ELSE cache[s]]
    BY DEF UpdateStatus
  <1>4. /\ DOMAIN cache' = DOMAIN cache \cup DOMAIN poll.updated
        /\ \A s \in DOMAIN poll.updated :
             cache'[s] = [original |-> poll.updated[s].original, submission |-> read[s]]
        /\ \A s \in DOMAIN cache \ DOMAIN poll.updated : cache'[s] = cache[s]
    BY <1>3
  <1>5. ListInv'
    BY <1>1 DEF ListInv, HoldersAreGood, NewestFirst
  <1>6. ApiTypes'
    <2>1. ASSUME NEW s \in DOMAIN cache' PROVE s \in Submission /\ cache'[s] \in Pointer
      <3>1. CASE s \in DOMAIN poll.updated
        <4>1. read[s] \in Value /\ poll.updated[s].original \in BOOLEAN
          BY <1>2, <1>3, <3>1 DEF Pointer
        <4>2. PICK c : c = [original |-> poll.updated[s].original, submission |-> read[s]]
          OBVIOUS
        <4>3. c \in Pointer
          BY <4>1, <4>2 DEF Pointer
        <4>4. cache'[s] = c
          BY <1>4, <3>1, <4>2
        <4> QED
          BY <1>2, <3>1, <4>3, <4>4
      <3>2. CASE s \notin DOMAIN poll.updated
        BY <1>4, <3>2 DEF ApiInv, ApiTypes
      <3> QED
        BY <3>1, <3>2
    <2> QED
      BY <1>1, <1>2, <2>1 DEF ApiTypes
  <1>7. EpochsAreGood' /\ PollMissesNothing'
    BY <1>1 DEF ApiInv, EpochsAreGood, PollMissesNothing
  <1>8. NothingIsMissed'
    <2> SUFFICES ASSUME NEW s \in DOMAIN holders, holders[s].lastUpdatedEpoch < poll.epoch
                 PROVE  /\ s \in DOMAIN cache'
                        /\ holders[s].original \/ cache'[s].submission = holders[s].submission
      BY <1>1 DEF NothingIsMissed
    <2>1. CASE s \in DOMAIN poll.updated
      <3>1. s \in DOMAIN cache' /\ cache'[s].submission = read[s]
        <4>1. PICK c : c = [original |-> poll.updated[s].original, submission |-> read[s]]
          OBVIOUS
        <4>2. c.submission = read[s]
          BY <4>1
        <4>3. cache'[s] = c
          BY <1>4, <2>1, <4>1
        <4> QED
          BY <1>4, <2>1, <4>2, <4>3
      <3>2. CASE ~holders[s].original
        <4>1. poll.updated[s] = [original |-> FALSE, submission |-> holders[s].submission]
          BY <1>1, <2>1, <3>2 DEF ApiInv, PollMissesNothing
        <4>2. read[s] = holders[s].submission
          BY <1>3, <2>1, <4>1 DEF IsAnswer
        <4> QED
          BY <3>1, <4>2
      <3> QED
        BY <3>1, <3>2
    <2>2. CASE s \notin DOMAIN poll.updated
      <3>1. holders[s].lastUpdatedEpoch < status
        BY <1>1, <2>2 DEF ApiInv, PollMissesNothing
      <3> QED
        BY <1>4, <2>2, <3>1 DEF ApiInv, NothingIsMissed
    <2> QED
      BY <2>1, <2>2
  <1> QED
    BY <1>5, <1>6, <1>7, <1>8 DEF ApiInv

LEMMA RestartAPIKeeps ==
  ASSUME ListInv, ApiInv, RestartAPI
  PROVE  ListInv' /\ ApiInv'
  <1>1. /\ UNCHANGED <<holders, order, clock>> /\ poll' = NoPoll
        /\ status' = 0 /\ cache' = [s \in {} |-> 0]
    BY DEF RestartAPI, statusVars, NoStatus
  <1>2. ListInv'
    BY <1>1 DEF ListInv, HoldersAreGood, NewestFirst
  <1>3. ApiTypes'
    BY <1>1 DEF ApiTypes
  <1>4. \A s \in DOMAIN holders : ~(holders[s].lastUpdatedEpoch < 0)
    BY DEF ListInv, HoldersAreGood
  <1>5. clock \in Nat
    BY DEF ListInv, HoldersAreGood
  <1>6. EpochsAreGood' /\ PollMissesNothing' /\ NothingIsMissed'
    BY <1>1, <1>4, <1>5 DEF EpochsAreGood, PollMissesNothing, NothingIsMissed
  <1> QED
    BY <1>2, <1>3, <1>6 DEF ApiInv

----------------------------------------------------------------------------
(* The actions of the master.                                               *)

LEMMA InsertRowKeeps ==
  ASSUME Inv, NEW s \in Submission, InsertRow(s) \/ InsertFails(s) PROVE Inv'
  <1>1. /\ UNCHANGED <<statusVars, apiVars, workVars, saving, saved, removing>>
        /\ stage[s] = "none"
        /\ stage' \in {[stage EXCEPT ![s] = "row"], [stage EXCEPT ![s] = "refused"]}
        /\ rows' \in {rows, [rows EXCEPT ![s] = "running"]}
        /\ left \subseteq left' /\ left' \subseteq left \cup {s}
    BY DEF InsertRow, InsertFails, Stage
  <1>2. ListInv' /\ ApiInv'
    BY <1>1, StatusUnchanged DEF Inv
  <1>3. FeedTypes'
    <2>1. faults' \in 0..MaxFaults
      BY FeedAssumption DEF InsertRow, InsertFails, Fault, Inv, FeedTypes
    <2> QED
      BY <1>1, <2>1 DEF Inv, FeedTypes, workVars
  <1>4. s \notin DOMAIN holders /\ UNCHANGED <<holders, objects, result>>
    BY <1>1 DEF Inv, WorkIsInStatus, statusVars, workVars
  <1>5. \A t \in Submission \ {s} : stage'[t] = stage[t] /\ rows'[t] = rows[t]
    BY <1>1 DEF Inv, FeedTypes
  <1>6. stage'[s] \in {"row", "refused"}
    BY <1>1 DEF Inv, FeedTypes
  <1>7. WorkIsInStatus'
    BY <1>1, <1>4, <1>5, <1>6 DEF Inv, WorkIsInStatus, ListInv, HoldersAreGood
  <1>8. NoRowIsForgotten'
    <2>1. rows'[s] = "running" => stage'[s] = "row" \/ s \in removing' \cup left'
      <3>1. CASE InsertRow(s)
        BY <3>1 DEF InsertRow, Stage, Inv, FeedTypes
      <3>2. CASE InsertFails(s) /\ UNCHANGED <<rows, left>>
        BY <1>1, <1>4, <3>2 DEF Inv, NoRowIsForgotten
      <3>3. CASE InsertFails(s) /\ left' = left \cup {s}
        BY <3>3
      <3> QED
        BY <3>1, <3>2, <3>3 DEF InsertFails
    <2>2. ASSUME NEW t \in Submission, t # s, rows'[t] = "running"
          PROVE  stage'[t] = "row" \/ t \in removing' \cup left' \/ t \in DOMAIN holders' \ saved'
      BY <1>1, <1>4, <1>5, <2>2 DEF Inv, NoRowIsForgotten
    <2> QED
      BY <2>1, <2>2 DEF NoRowIsForgotten
  <1> QED
    BY <1>2, <1>3, <1>7, <1>8 DEF Inv

LEMMA RefuseKeeps == ASSUME Inv, NEW s \in Submission, Refuse(s) PROVE Inv'
  <1>1. /\ UNCHANGED <<statusVars, apiVars, workVars, rows, saving, saved, left>>
        /\ stage[s] = "row" /\ stage' = [stage EXCEPT ![s] = "refused"]
        /\ removing' = removing \cup {s}
    BY DEF Refuse, Stage
  <1>2. ListInv' /\ ApiInv'
    BY <1>1, StatusUnchanged DEF Inv
  <1>3. FeedTypes'
    <2>1. faults' \in 0..MaxFaults
      BY FeedAssumption DEF Refuse, Fault, Inv, FeedTypes
    <2> QED
      BY <1>1, <2>1 DEF Inv, FeedTypes, workVars
  <1>4. s \notin DOMAIN holders /\ UNCHANGED <<holders, objects, result>>
    BY <1>1 DEF Inv, WorkIsInStatus, statusVars, workVars
  <1>5. stage'[s] = "refused" /\ \A t \in Submission \ {s} : stage'[t] = stage[t]
    BY <1>1 DEF Inv, FeedTypes
  <1>6. WorkIsInStatus'
    BY <1>1, <1>4, <1>5 DEF Inv, WorkIsInStatus, ListInv, HoldersAreGood
  <1>7. NoRowIsForgotten'
    BY <1>1, <1>4, <1>5 DEF Inv, NoRowIsForgotten
  <1> QED
    BY <1>2, <1>3, <1>6, <1>7 DEF Inv

LEMMA AcceptKeeps == ASSUME Inv, NEW s \in Submission, Accept(s) PROVE Inv'
  <1>1. /\ AddSubmission(s) /\ result = NoResult /\ stage[s] = "row"
        /\ stage' = [stage EXCEPT ![s] = "accepted"]
        /\ UNCHANGED <<objects, result, rows, saving, saved, removing, left, faults, apiVars>>
    BY DEF Accept, Stage, workVars
  <1>2. s \notin DOMAIN holders
    BY <1>1 DEF Inv, WorkIsInStatus
  <1>3. /\ ListInv' /\ DOMAIN holders' = DOMAIN holders \cup {s}
        /\ holders'[s].lastUpdatedEpoch = clock' /\ clock' > clock
        /\ \A t \in DOMAIN holders : holders'[t] = holders[t]
    BY <1>1, <1>2, AddKeeps DEF Inv
  <1>4. ApiInv'
    <2>1. clock \in Nat /\ clock' \in Nat
      BY <1>3 DEF Inv, ListInv, HoldersAreGood
    <2>2. clock' >= clock
      BY <1>3, <2>1
    <2>3. ASSUME NEW t \in DOMAIN holders'
          PROVE  \/ t \in DOMAIN holders /\ holders'[t] = holders[t]
                 \/ holders'[t].lastUpdatedEpoch > clock
      BY <1>3
    <2> QED
      BY <1>1, <1>3, <2>2, <2>3, StatusStep DEF Inv
  <1>5. FeedTypes'
    BY <1>1 DEF Inv, FeedTypes
  <1>6. stage'[s] = "accepted" /\ \A t \in Submission \ {s} : stage'[t] = stage[t]
    BY <1>1 DEF Inv, FeedTypes
  <1>7. DOMAIN holders \subseteq Submission
    BY DEF Inv, ListInv, HoldersAreGood
  <1>8. WorkIsInStatus'
    BY <1>1, <1>3, <1>6, <1>7 DEF Inv, WorkIsInStatus
  <1>9. NoRowIsForgotten'
    <2>1. s \in DOMAIN holders' \ saved'
      BY <1>1, <1>2, <1>3 DEF Inv, WorkIsInStatus
    <2> QED
      BY <1>1, <1>3, <1>6, <2>1 DEF Inv, NoRowIsForgotten
  <1> QED
    BY <1>3, <1>4, <1>5, <1>8, <1>9 DEF Inv

LEMMA RemoveRowKeeps == ASSUME Inv, NEW s \in Submission, RemoveRow(s) PROVE Inv'
  <1>1. /\ UNCHANGED <<statusVars, apiVars, workVars, stage, saving, saved, left, faults>>
        /\ removing' = removing \ {s} /\ rows' = [rows EXCEPT ![s] = "removed"]
    BY DEF RemoveRow
  <1>2. ListInv' /\ ApiInv'
    BY <1>1, StatusUnchanged DEF Inv
  <1>3. FeedTypes'
    BY <1>1 DEF Inv, FeedTypes, workVars
  <1>4. UNCHANGED <<holders, objects, result>>
    BY <1>1 DEF statusVars, workVars
  <1>5. WorkIsInStatus'
    BY <1>1, <1>4 DEF Inv, WorkIsInStatus
  <1>6. rows'[s] = "removed" /\ \A t \in Submission \ {s} : rows'[t] = rows[t]
    BY <1>1 DEF Inv, FeedTypes
  <1>7. NoRowIsForgotten'
    BY <1>1, <1>4, <1>6 DEF Inv, NoRowIsForgotten
  <1> QED
    BY <1>2, <1>3, <1>5, <1>7 DEF Inv

LEMMA WriteKeeps == ASSUME Inv, NEW s \in Submission, Write(s) PROVE Inv'
  <1>1. /\ UNCHANGED <<statusVars, dbVars, faults, apiVars>>
        /\ stage[s] = "accepted" /\ objects[s].tests < TestsNumber[s]
        /\ result' = [sub |-> s, before |-> objects[s]]
    BY DEF Write
  <1>2. PICK n \in 0..TestsNumber[s] :
          objects' = [objects EXCEPT ![s] = [compiled |-> TRUE, tests |-> n]]
    BY DEF Write
  <1>3. ListInv' /\ ApiInv'
    BY <1>1, StatusUnchanged DEF Inv
  <1>4. [compiled |-> TRUE, tests |-> n] \in Value
    BY <1>2, StatusAssumption DEF Value
  <1>5. FeedTypes'
    BY <1>1, <1>2, <1>4 DEF Inv, FeedTypes, dbVars
  <1>6. s \in DOMAIN holders /\ s \notin saving \cup saved
    <2>1. objects[s].tests # TestsNumber[s]
      BY <1>1, StatusAssumption DEF Inv, FeedTypes, Value
    <2> QED
      BY <1>1, <2>1 DEF Inv, WorkIsInStatus
  <1>7. UNCHANGED <<holders, stage, rows, saving, saved, removing, left>>
    BY <1>1 DEF statusVars, dbVars
  <1>8. result' # NoResult => result'.sub = s
    BY <1>1
  <1>9. \A t \in Submission \ {s} : objects'[t] = objects[t]
    BY <1>2 DEF Inv, FeedTypes
  <1>10. DOMAIN holders \subseteq Submission
    BY DEF Inv, ListInv, HoldersAreGood
  <1>11. WorkIsInStatus'
    BY <1>6, <1>7, <1>8, <1>9, <1>10 DEF Inv, WorkIsInStatus
  <1>12. NoRowIsForgotten'
    BY <1>7 DEF Inv, NoRowIsForgotten
  <1> QED
    BY <1>3, <1>5, <1>11, <1>12 DEF Inv

LEMMA PublishKeeps == ASSUME Inv, Publish PROVE Inv'
  <1>1. PICK s : s = result.sub
    OBVIOUS
  <1>2. /\ result # NoResult /\ result' = NoResult
        /\ UNCHANGED <<objects, stage, rows, saved, removing, left, faults, apiVars>>
        /\ \/ UpdateSubmission(s, objects[s])
           \/ UNCHANGED statusVars
        /\ \/ saving' = saving \cup {s} /\ objects[s].tests = TestsNumber[s]
           \/ saving' = saving
    BY <1>1 DEF Publish
  <1>3. /\ s \in DOMAIN holders /\ s \notin saving \cup saved /\ s \in Submission
        /\ objects[s] \in Value
    BY <1>1, <1>2 DEF Inv, WorkIsInStatus, FeedTypes
  <1>4. ListInv' /\ ApiInv' /\ DOMAIN holders' = DOMAIN holders
    <2>1. CASE UNCHANGED statusVars
      BY <1>2, <2>1, StatusUnchanged DEF Inv, statusVars
    <2>2. CASE UpdateSubmission(s, objects[s])
      <3>1. /\ ListInv' /\ DOMAIN holders' = DOMAIN holders
            /\ holders'[s].lastUpdatedEpoch = clock' /\ clock' > clock
            /\ \A t \in DOMAIN holders \ {s} : holders'[t] = holders[t]
        BY <1>3, <2>2, UpdateKeeps DEF Inv
      <3>2. clock \in Nat /\ clock' \in Nat
        BY <3>1 DEF Inv, ListInv, HoldersAreGood
      <3>3. clock' >= clock
        BY <3>1, <3>2
      <3>4. ASSUME NEW t \in DOMAIN holders'
            PROVE  \/ t \in DOMAIN holders /\ holders'[t] = holders[t]
                   \/ holders'[t].lastUpdatedEpoch > clock
        BY <3>1
      <3> QED
        BY <1>2, <3>1, <3>3, <3>4, StatusStep DEF Inv
    <2> QED
      BY <1>2, <2>1, <2>2
  <1>5. FeedTypes'
    BY <1>2, <1>3 DEF Inv, FeedTypes
  <1>6. WorkIsInStatus'
    BY <1>2, <1>3, <1>4 DEF Inv, WorkIsInStatus
  <1>7. NoRowIsForgotten'
    BY <1>2, <1>4 DEF Inv, NoRowIsForgotten
  <1> QED
    BY <1>4, <1>5, <1>6, <1>7 DEF Inv

LEMMA SaveKeeps ==
  ASSUME Inv, NEW s \in Submission, SaveResult(s) \/ SaveFails(s) PROVE Inv'
  <1>1. /\ UNCHANGED <<statusVars, apiVars, workVars, stage, removing, left>>
        /\ s \in saving /\ rows' = [rows EXCEPT ![s] = "stored"]
        /\ \/ saving' = saving \ {s} /\ saved' = saved \cup {s}
           \/ UNCHANGED <<saving, saved>>
    BY DEF SaveResult, SaveFails
  <1>2. ListInv' /\ ApiInv'
    BY <1>1, StatusUnchanged DEF Inv
  <1>3. FeedTypes'
    <2>1. faults' \in 0..MaxFaults
      BY FeedAssumption DEF SaveResult, SaveFails, Fault, Inv, FeedTypes
    <2> QED
      BY <1>1, <2>1 DEF Inv, FeedTypes, workVars
  <1>4. UNCHANGED <<holders, objects, result>>
    BY <1>1 DEF statusVars, workVars
  <1>5. /\ saving' \cup saved' = saving \cup saved /\ saving' \cap saved' = {}
        /\ saved \subseteq saved' /\ saved' \subseteq saved \cup {s}
    BY <1>1 DEF Inv, WorkIsInStatus
  <1>6. WorkIsInStatus'
    BY <1>1, <1>4, <1>5 DEF Inv, WorkIsInStatus
  <1>7. rows'[s] = "stored" /\ \A t \in Submission \ {s} : rows'[t] = rows[t]
    BY <1>1 DEF Inv, FeedTypes
  <1>8. NoRowIsForgotten'
    BY <1>1, <1>4, <1>5, <1>7 DEF Inv, NoRowIsForgotten
  <1> QED
    BY <1>2, <1>3, <1>6, <1>8 DEF Inv

LEMMA FinishStepKeeps == ASSUME Inv, NEW s \in Submission, Finish(s) PROVE Inv'
  <1>1. /\ FinishSubmissionTesting(s) /\ s \in saved /\ saved' = saved \ {s}
        /\ UNCHANGED <<objects, result, stage, rows, saving, removing, left, faults, apiVars>>
    BY DEF Finish, workVars
  <1>2. s \in DOMAIN holders /\ s \notin saving /\ objects[s].tests = TestsNumber[s]
    BY <1>1 DEF Inv, WorkIsInStatus
  <1>3. /\ ListInv' /\ UNCHANGED clock /\ DOMAIN holders' = DOMAIN holders \ {s}
        /\ \A t \in DOMAIN holders' : holders'[t] = holders[t]
    BY <1>1, <1>2, FinishKeeps DEF Inv
  <1>4. ApiInv'
    <2>1. clock \in Nat /\ clock' >= clock
      BY <1>3 DEF Inv, ListInv, HoldersAreGood
    <2>2. \A t \in DOMAIN holders' : t \in DOMAIN holders /\ holders'[t] = holders[t]
      BY <1>3
    <2> QED
      BY <1>1, <1>3, <2>1, <2>2, StatusStep DEF Inv
  <1>5. FeedTypes'
    BY <1>1 DEF Inv, FeedTypes
  <1>6. ~(objects[s].tests < TestsNumber[s])
    BY <1>2, StatusAssumption DEF Inv, FeedTypes, Value
  <1>7. WorkIsInStatus'
    BY <1>1, <1>2, <1>3, <1>6 DEF Inv, WorkIsInStatus
  <1>8. NoRowIsForgotten'
    BY <1>1, <1>3 DEF Inv, NoRowIsForgotten
  <1> QED
    BY <1>3, <1>4, <1>5, <1>7, <1>8 DEF Inv

LEMMA RestartKeeps == ASSUME Inv, Restart PROVE Inv'
  <1>1. /\ DOMAIN holders' = {} /\ order' = <<>> /\ UNCHANGED <<clock, rows, cache, status>>
        /\ objects' = [s \in Submission |-> NothingYet] /\ result' = NoResult
        /\ stage' = [s \in Submission |->
                       IF stage[s] \in {"row", "accepted"} THEN "refused" ELSE stage[s]]
        /\ saving' = {} /\ saved' = {} /\ removing' = {} /\ poll' = NoPoll
        /\ left' = {s \in Submission : rows[s] = "running"}
    BY DEF Restart
  <1>2. ListInv'
    <2>1. HoldersAreGood'
      BY <1>1 DEF Inv, ListInv, HoldersAreGood
    <2>2. NewestFirst'
      BY <1>1 DEF NewestFirst
    <2> QED
      BY <2>1, <2>2 DEF ListInv
  <1>3. ApiInv'
    BY <1>1 DEF Inv, ApiInv, ApiTypes, EpochsAreGood, NothingIsMissed, PollMissesNothing
  <1>4. FeedTypes'
    <2>1. faults' \in 0..MaxFaults
      BY FeedAssumption DEF Restart, Fault, Inv, FeedTypes
    <2>2. NothingYet \in Value
      BY StatusAssumption DEF NothingYet, Value
    <2>3. stage' \in [Submission -> {"none", "row", "refused", "accepted"}]
      BY <1>1 DEF Inv, FeedTypes
    <2> QED
      BY <1>1, <2>1, <2>2, <2>3 DEF Inv, FeedTypes
  <1>5. \A s \in Submission : stage'[s] # "accepted"
    BY <1>1 DEF Inv, FeedTypes
  <1>6. WorkIsInStatus'
    BY <1>1, <1>5 DEF WorkIsInStatus
  <1>7. NoRowIsForgotten'
    BY <1>1 DEF NoRowIsForgotten
  <1> QED
    BY <1>2, <1>3, <1>4, <1>6, <1>7 DEF Inv

----------------------------------------------------------------------------
(* The API leaves the master alone.                                         *)

LEMMA MasterUnchanged ==
  ASSUME Inv, ListInv', ApiInv', UNCHANGED <<holders, dbVars, workVars>>,
         faults' \in 0..MaxFaults
  PROVE  Inv'
  BY DEF Inv, FeedTypes, WorkIsInStatus, NoRowIsForgotten, dbVars, workVars

LEMMA ApiKeeps ==
  ASSUME Inv, GetStatus \/ UpdateStatus \/ LosePoll \/ RestartAPI PROVE Inv'
  <1>1. faults \in 0..MaxFaults
    BY DEF Inv, FeedTypes
  <1>2. CASE GetStatus
    BY <1>1, <1>2, GetStatusKeeps, MasterUnchanged DEF Inv, GetStatus
  <1>3. CASE UpdateStatus
    BY <1>1, <1>3, UpdateStatusKeeps, MasterUnchanged DEF Inv, UpdateStatus, statusVars
  <1>4. CASE LosePoll
    <2>1. /\ UNCHANGED <<holders, order, clock, cache, status, dbVars, workVars>>
          /\ poll' = NoPoll
      BY <1>4 DEF LosePoll, statusVars
    <2>2. ListInv'
      BY <2>1 DEF Inv, ListInv, HoldersAreGood, NewestFirst
    <2>3. ApiInv'
      BY <2>1, NoAnswer DEF Inv
    <2>4. faults' \in 0..MaxFaults
      BY <1>1, <1>4, FeedAssumption DEF LosePoll, Fault
    <2> QED
      BY <2>1, <2>2, <2>3, <2>4, MasterUnchanged
  <1>5. CASE RestartAPI
    <2>1. faults' \in 0..MaxFaults
      BY <1>1, <1>5, FeedAssumption DEF RestartAPI, Fault
    <2> QED
      BY <1>5, <2>1, RestartAPIKeeps, MasterUnchanged DEF Inv, RestartAPI, statusVars
  <1> QED
    BY <1>2, <1>3, <1>4, <1>5

----------------------------------------------------------------------------

LEMMA Starts == Init => Inv
  <1> SUFFICES ASSUME Init PROVE Inv
    OBVIOUS
  <1>1. ListInv
    BY DEF Init, StatusInit, ListInv, HoldersAreGood, NewestFirst
  <1>2. FeedTypes
    <2>1. NothingYet \in Value
      BY StatusAssumption DEF NothingYet, Value
    <2> QED
      BY <2>1, FeedAssumption DEF Init, FeedTypes
  <1>3. ApiInv
    BY DEF Init, StatusInit, NoStatus, ApiInv, ApiTypes, EpochsAreGood, NothingIsMissed,
           PollMissesNothing
  <1>4. WorkIsInStatus
    BY DEF Init, StatusInit, WorkIsInStatus
  <1>5. NoRowIsForgotten
    BY DEF Init, NoRowIsForgotten
  <1> QED
    BY <1>1, <1>2, <1>3, <1>4, <1>5 DEF Inv

LEMMA Steps == Inv /\ [Next]_vars => Inv'
  <1> SUFFICES ASSUME Inv, [Next]_vars PROVE Inv'
    OBVIOUS
  <1>1. CASE UNCHANGED vars
    <2>1. UNCHANGED <<statusVars, apiVars, dbVars, workVars, faults, holders>>
      BY <1>1 DEF vars, statusVars
    <2> QED
      BY <2>1, StatusUnchanged, MasterUnchanged DEF Inv, FeedTypes
  <1>2. ASSUME NEW s \in Submission, InsertRow(s) \/ InsertFails(s) PROVE Inv'
    BY <1>2, InsertRowKeeps
  <1>3. ASSUME NEW s \in Submission, Refuse(s) PROVE Inv'
    BY <1>3, RefuseKeeps
  <1>4. ASSUME NEW s \in Submission, Accept(s) PROVE Inv'
    BY <1>4, AcceptKeeps
  <1>5. ASSUME NEW s \in Submission, RemoveRow(s) PROVE Inv'
    BY <1>5, RemoveRowKeeps
  <1>6. ASSUME NEW s \in Submission, Write(s) PROVE Inv'
    BY <1>6, WriteKeeps
  <1>7. ASSUME NEW s \in Submission, SaveResult(s) \/ SaveFails(s) PROVE Inv'
    BY <1>7, SaveKeeps
  <1>8. ASSUME NEW s \in Submission, Finish(s) PROVE Inv'
    BY <1>8, FinishStepKeeps
  <1>9. CASE Publish
    BY <1>9, PublishKeeps
  <1>10. CASE Restart
    BY <1>10, RestartKeeps
  <1>11. CASE GetStatus \/ UpdateStatus \/ LosePoll \/ RestartAPI
    BY <1>11, ApiKeeps
  <1> QED
    BY <1>1, <1>2, <1>3, <1>4, <1>5, <1>6, <1>7, <1>8, <1>9, <1>10, <1>11 DEF Next

LEMMA AlwaysInv == Spec => []Inv
  BY Starts, Steps, PTL DEF Spec

\* The types of StatusFeed, among them that the list and the map of the status
\* have the same submissions, each once.
THEOREM FeedIsTyped == Spec => []TypeOK
  <1>1. Inv => TypeOK
    <2> SUFFICES ASSUME Inv PROVE TypeOK
      OBVIOUS
    <2>1. \A i, j \in DOMAIN order : order[i] = order[j] => i = j
      BY ListIsInjective DEF Inv
    <2>2. {order[i] : i \in DOMAIN order} = DOMAIN holders
      BY DEF Inv, ListInv, NewestFirst
    <2>3. StatusTypeOK
      BY <2>1, <2>2 DEF Inv, ListInv, HoldersAreGood, NewestFirst, StatusTypeOK
    <2> QED
      BY <2>3 DEF Inv, FeedTypes, ApiInv, ApiTypes, TypeOK
  <1> QED
    BY <1>1, AlwaysInv, PTL

\* Polls by epoch leave nothing out (GetStatus and updateStatus), for any number of
\* submissions, lost polls and restarts.
THEOREM NothingIsEverMissed == Spec => []NothingIsMissed
  <1>1. Inv => NothingIsMissed
    BY DEF Inv, ApiInv
  <1> QED
    BY <1>1, AlwaysInv, PTL

\* AddSubmission, UpdateSubmission and FinishSubmissionTesting never panic.
THEOREM StatusIsUsedInOrder == Spec => []StatusNeverPanics
  <1>1. Inv => StatusNeverPanics
    <2> SUFFICES ASSUME Inv PROVE StatusNeverPanics
      OBVIOUS
    <2>1. \A s \in Submission : stage[s] = "row" => s \notin DOMAIN holders
      BY DEF Inv, WorkIsInStatus
    <2> QED
      BY <2>1 DEF Inv, WorkIsInStatus, StatusNeverPanics
  <1> QED
    BY <1>1, AlwaysInv, PTL

\* A running row is worked on, or was left by a crash or a lost answer.
THEOREM RowsAreRemembered == Spec => []NoRowIsForgotten
  <1>1. Inv => NoRowIsForgotten
    BY DEF Inv
  <1> QED
    BY <1>1, AlwaysInv, PTL
=============================================================================
