------------------------ MODULE RecoveryRecorderProofs ------------------------
(***************************************************************************)
(* Proofs about RecoveryRecorder: a record is leased once, a lane that     *)
(* says written has its newest version on disk, no request touches another *)
(* document's copy, and every end is carried out as decided; for any       *)
(* number of tabs, documents and records, however far the worker lags and  *)
(* whatever fails.                                                         *)
(***************************************************************************)
EXTENDS RecoveryRecorder, TLAPS, SequenceTheorems, WellFoundedInduction

-----------------------------------------------------------------------------
(* The inductive invariant.                                                *)

(* What was sent and is not done: the worker's batch, then the channel.    *)
Sent == batch \o queue

Asks(q, k) == q.op \in {"Checkpoint", "Clear"} /\ q.key = k
Pending(k) == \E i \in DOMAIN Sent : Asks(Sent[i], k)
Latest(k, i) ==
    /\ i \in DOMAIN Sent /\ Asks(Sent[i], k)
    /\ \A j \in DOMAIN Sent : Asks(Sent[j], k) => j <= i

WellFormed(q) ==
    /\ q.op = "Stop" <=> q.key = None
    /\ q.op \in {"Checkpoint", "Clear"} => q.order >= 1 /\ q.lane \in Lanes
    /\ q.op = "Checkpoint" => q.version \in Versions
    /\ q.op = "Adopt" => q.record \in Records /\ q.order = 0 /\ q.lane \in Lanes
    /\ q.op # "Adopt" => q.record = None
    /\ q.op = "End" => q.ending \in {"Retire", "Keep"} /\ q.order = 0

(* A request is about a document that was opened, and an End says how the  *)
(* document ended.                                                         *)
SentInv ==
    \A i \in DOMAIN Sent :
        /\ WellFormed(Sent[i])
        /\ Sent[i].key # None => fate[Sent[i].key] # "unborn"
        /\ Sent[i].op = "End" => fate[Sent[i].key] = Sent[i].ending

(* The requests of one document: an Adopt first and something asked after  *)
(* it, then what was asked, the newer the later, then its End.             *)
OrderInv ==
    /\ \A i, j \in DOMAIN Sent : i < j /\ Sent[i].key = Sent[j].key /\ Sent[i].key # None =>
        /\ Sent[i].op # "End" /\ Sent[j].op # "Adopt"
        /\ Asks(Sent[i], Sent[i].key) /\ Asks(Sent[j], Sent[i].key) =>
              Sent[i].order < Sent[j].order
    /\ \A i \in DOMAIN Sent : Sent[i].op = "Adopt" => Pending(Sent[i].key)

(* A document that is open is tracked by one lane, which counted every     *)
(* request about it; one that the worker ended was ended by its lane.      *)
LaneInv ==
    /\ \A l \in Lanes :
        /\ shared[l].key = lanes[l].tracked /\ shared[l].requested = lanes[l].order
        /\ lanes[l].tracked # None => lanes[l].live /\ fate[lanes[l].tracked] = "open"
        /\ lanes[l].tracked = None => shared[l].status = "Off"
    /\ \A l, m \in Lanes : lanes[l].tracked = lanes[m].tracked /\ lanes[l].tracked # None => l = m
    /\ \A l \in Lanes : \A i \in DOMAIN Sent :
        lanes[l].tracked # None /\ Asks(Sent[i], lanes[l].tracked) => Sent[i].lane = l
    /\ \A i \in DOMAIN Sent :
        Sent[i].lane # None => Sent[i].order <= lanes[Sent[i].lane].order
    /\ \A k \in ended : fate[k] \in {"Retire", "Keep"}

(* A record is leased once: by the document that owns it, a recovered one  *)
(* that has not been observed, or the Adopt on its way to the worker. What *)
(* is not owned yet holds a copy.                                          *)
LeaseInv ==
    /\ \A k, j \in Keys : owned[k] = owned[j] /\ owned[k] # None => k = j
    /\ \A k \in Keys : claims[k] # None =>
        /\ holds[claims[k]] \in Versions /\ fate[k] = "unborn" /\ ~Owned(claims[k])
        /\ \A j \in Keys : claims[j] = claims[k] => j = k
        /\ \A i \in DOMAIN Sent : Sent[i].record # claims[k]
    /\ \A i \in DOMAIN Sent : Sent[i].record # None =>
        /\ holds[Sent[i].record] \in Versions /\ ~Owned(Sent[i].record)
        /\ \A j \in DOMAIN Sent : Sent[j].record = Sent[i].record => j = i

(* The worker remembers what a record holds, but for a failed clear.       *)
MemoryInv ==
    \A k \in Keys : owned[k] # None =>
        memory[owned[k]].current = holds[owned[k]] \/ owned[k] \in half

(* The latest request asks for what the lane observed last, and once the   *)
(* worker has taken it, it is the newest of its batch.                     *)
LatestInv ==
    \A k \in Keys : \A i \in DOMAIN Sent : Latest(k, i) =>
        IF last[k].dirty THEN Sent[i].op = "Checkpoint" /\ Sent[i].version = last[k].version
                         ELSE Sent[i].op = "Clear"
NewestInv ==
    \A k \in Keys : \A i \in DOMAIN Sent :
        Latest(k, i) /\ i <= Len(batch) => newest[k] = Sent[i].order

(* A document with nothing pending has a copy of what was observed last,   *)
(* unless its last request failed.                                         *)
UpToDate(k) ==
    last[k].dirty => owned[k] # None /\ (owned[k] \in half \/ holds[owned[k]] = last[k].version)
DoneInv ==
    running => \A k \in Keys :
        fate[k] # "unborn" /\ ~Pending(k) /\ k \notin failed /\ k \notin ended => UpToDate(k)

(* A lane that says "written", or is about to, has nothing pending.        *)
Settled(k) == last[k].dirty /\ k \notin failed /\ ~Pending(k)
WrittenInv ==
    /\ \A l \in Lanes : shared[l].status = "Written" => Settled(shared[l].key)
    /\ answer # None => answer.order <= lanes[answer.lane].order
    /\ answer # None /\ answer.result = "Written" =>
        /\ answer.order >= 1
        /\ shared[answer.lane].key = answer.key /\ answer.order = shared[answer.lane].requested
             => Settled(answer.key)

RecorderInv ==
    /\ TypeOK /\ SentInv /\ OrderInv /\ LaneInv /\ LeaseInv
    /\ MemoryInv /\ LatestInv /\ NewestInv /\ DoneInv /\ WrittenInv

-----------------------------------------------------------------------------
(* Requests, and what is sent and not done.                                *)

LEMMA GreatestIn ==
    ASSUME NEW b \in Nat, NEW S \in SUBSET (0 .. b), NEW e \in S
    PROVE  \E m \in S : \A s \in S : s <= m
<1> DEFINE T == {b - s : s \in S}
           Less == OpToRel(<, Nat)
<1>1. T \subseteq Nat /\ b - e \in T
  OBVIOUS
<1>2. IsWellFoundedOn(Less, Nat)
  BY NatLessThanWellFounded DEF OpToRel
<1>3. PICK t \in T : \A u \in T : ~(<<u, t>> \in Less)
  <2> HIDE DEF Less, T
  <2> QED BY <1>1, <1>2, WFMin
<1>4. PICK m \in S : t = b - m
  BY <1>3
<1>5. ASSUME NEW s \in S PROVE s <= m
  <2>1. b - s \in T
    OBVIOUS
  <2>2. ~(b - s < t)
    <3> HIDE DEF T
    <3> QED BY <1>1, <1>3, <2>1 DEF OpToRel
  <2> QED BY <1>4, <2>2
<1> QED BY <1>5

LEMMA SentSeq ==
    ASSUME TypeOK
    PROVE  /\ Sent \in Seq(Request) /\ Len(Sent) = Len(batch) + Len(queue)
           /\ DOMAIN Sent = 1 .. Len(Sent)
           /\ Len(batch) \in Nat /\ Len(queue) \in Nat /\ Len(Sent) \in Nat
           /\ \A i \in 1 .. Len(batch) : Sent[i] = batch[i]
           /\ \A i \in 1 .. Len(queue) : Sent[Len(batch) + i] = queue[i]
           /\ \A i \in DOMAIN Sent : Sent[i] \in Request
           /\ DOMAIN batch = 1 .. Len(batch) /\ DOMAIN queue = 1 .. Len(queue)
<1>1. batch \in Seq(Request) /\ queue \in Seq(Request)
  BY DEF TypeOK
<1>2. /\ Sent \in Seq(Request) /\ Len(Sent) = Len(batch) + Len(queue)
      /\ \A i \in 1 .. Len(batch) + Len(queue) : Sent[i] =
            IF i <= Len(batch) THEN batch[i] ELSE queue[i - Len(batch)]
  BY <1>1, ConcatProperties DEF Sent
<1>3. Len(batch) \in Nat /\ Len(queue) \in Nat /\ Len(Sent) \in Nat /\ DOMAIN Sent = 1 .. Len(Sent)
      /\ DOMAIN batch = 1 .. Len(batch) /\ DOMAIN queue = 1 .. Len(queue)
  BY <1>1, <1>2, LenProperties
<1>4. \A i \in 1 .. Len(queue) : Sent[Len(batch) + i] = queue[i]
  <2> TAKE i \in 1 .. Len(queue)
  <2>1. Len(batch) + i \in 1 .. Len(batch) + Len(queue) /\ ~(Len(batch) + i <= Len(batch))
        /\ (Len(batch) + i) - Len(batch) = i
    BY <1>3
  <2> QED BY <1>2, <2>1
<1>5. \A i \in DOMAIN Sent : Sent[i] \in Request
  BY <1>2, <1>3, ElementOfSeq
<1> QED BY <1>2, <1>3, <1>4, <1>5

LEMMA RequestFields ==
    ASSUME NEW q \in Request
    PROVE  /\ q.op \in {"Adopt", "Checkpoint", "Clear", "End", "Stop"}
           /\ q.key \in Keys \cup {None} /\ q.order \in Nat /\ q.lane \in Lanes \cup {None}
           /\ q.version \in Versions \cup {None} /\ q.record \in Records \cup {None}
           /\ q.ending \in {"Retire", "Keep", "none"}
BY DEF Request, Order

LEMMA NoneIsNobody ==
    None \notin Lanes /\ None \notin Keys /\ None \notin Records /\ None \notin Versions
    /\ Absent \notin Versions /\ None # Absent
BY RecorderAssumption

(* The worker is done with the first request.                              *)
LEMMA Dropped ==
    ASSUME TypeOK, batch # <<>>, batch' = Tail(batch), queue' = queue
    PROVE  /\ batch' \in Seq(Request) /\ Len(batch') = Len(batch) - 1
           /\ 1 \in DOMAIN Sent /\ Sent[1] = Head(batch) /\ Head(batch) \in Request
           /\ Len(batch) >= 1 /\ DOMAIN Sent' = 1 .. Len(Sent')
           /\ Len(Sent') = Len(Sent) - 1 /\ Len(Sent) \in Nat
           /\ \A i \in DOMAIN Sent' : i \in Nat /\ i >= 1 /\ i + 1 \in DOMAIN Sent /\ Sent'[i] = Sent[i + 1]
           /\ \A i \in DOMAIN Sent : i \in Nat /\ (i # 1 => i >= 1 /\ i - 1 \in DOMAIN Sent' /\ Sent'[i - 1] = Sent[i])
<1>1. batch \in Seq(Request) /\ queue \in Seq(Request)
  BY DEF TypeOK
<1>2. /\ batch' \in Seq(Request) /\ Len(batch') = Len(batch) - 1 /\ Head(batch) \in Request
      /\ \A i \in 1 .. Len(batch') : batch'[i] = batch[i + 1]
      /\ Len(batch) \in Nat \ {0} /\ Head(batch) = batch[1]
  BY <1>1, HeadTailProperties, EmptySeq
<1>3. /\ Sent' \in Seq(Request) /\ Len(Sent') = Len(batch') + Len(queue)
      /\ \A i \in 1 .. Len(batch') + Len(queue) : Sent'[i] =
            IF i <= Len(batch') THEN batch'[i] ELSE queue[i - Len(batch')]
  BY <1>1, <1>2, ConcatProperties DEF Sent
<1>4. DOMAIN Sent' = 1 .. Len(Sent')
  BY <1>3, LenProperties
<1>5. \A i \in DOMAIN Sent' : i \in Nat /\ i >= 1 /\ i + 1 \in DOMAIN Sent /\ Sent'[i] = Sent[i + 1]
  <2> TAKE i \in DOMAIN Sent'
  <2>1. i \in 1 .. Len(batch') + Len(queue) /\ Len(queue) \in Nat /\ i + 1 \in DOMAIN Sent
    BY <1>2, <1>3, <1>4, SentSeq
  <2>2. CASE i <= Len(batch')
    <3>1. Sent'[i] = batch'[i] /\ i \in 1 .. Len(batch') /\ i + 1 \in 1 .. Len(batch)
      BY SMTT(60), <1>2, <1>3, <2>1, <2>2
    <3> QED BY <1>2, <2>1, <3>1, SentSeq
  <2>3. CASE ~(i <= Len(batch'))
    <3>1. Sent'[i] = queue[i - Len(batch')]
      BY <1>3, <2>1, <2>3
    <3>2. /\ i - Len(batch') \in 1 .. Len(queue) /\ Len(batch) + (i - Len(batch')) = i + 1
      BY <1>2, <2>1, <2>3
    <3> QED BY <2>1, <3>1, <3>2, SentSeq
  <2> QED BY <2>1, <2>2, <2>3
<1>6. Len(Sent') = Len(Sent) - 1 /\ Len(Sent) \in Nat
  BY <1>2, <1>3, SentSeq
<1>7. 1 \in DOMAIN Sent /\ Sent[1] = Head(batch)
  BY <1>2, SentSeq
<1>8. \A i \in DOMAIN Sent : i \in Nat /\ (i # 1 => i >= 1 /\ i - 1 \in DOMAIN Sent' /\ Sent'[i - 1] = Sent[i])
  <2> TAKE i \in DOMAIN Sent
  <2>1. i \in 1 .. Len(Sent)
    BY SentSeq
  <2>2. ASSUME i # 1 PROVE i - 1 \in DOMAIN Sent' /\ Sent'[i - 1] = Sent[i]
    <3>1. i - 1 \in DOMAIN Sent' /\ (i - 1) + 1 = i
      BY <1>4, <1>6, <2>1, <2>2
    <3> QED BY <1>5, <3>1
  <2> QED BY <2>1, <2>2
<1> QED BY <1>2, <1>4, <1>5, <1>6, <1>7, <1>8

LEMMA DropPending ==
    ASSUME TypeOK, batch # <<>>, batch' = Tail(batch), queue' = queue
    PROVE  /\ \A k : Pending(k)' => Pending(k)
           /\ \A k : Pending(k) => Pending(k)' \/ Asks(Head(batch), k)
           /\ \A k, i : Latest(k, i)' => i \in DOMAIN Sent' /\ Latest(k, i + 1)
<1>1. ASSUME NEW k, Pending(k)' PROVE Pending(k)
  BY <1>1, Dropped DEF Pending, Asks
<1>2. ASSUME NEW k, Pending(k) PROVE Pending(k)' \/ Asks(Head(batch), k)
  <2>1. PICK i \in DOMAIN Sent : Asks(Sent[i], k)
    BY <1>2 DEF Pending
  <2>2. CASE i = 1
    BY <2>1, <2>2, Dropped
  <2>3. CASE i # 1
    <3>1. i - 1 \in DOMAIN Sent' /\ Sent'[i - 1] = Sent[i]
      BY <2>3, Dropped
    <3> QED BY <2>1, <3>1 DEF Pending, Asks
  <2> QED BY <2>2, <2>3
<1>3. ASSUME NEW k, NEW i, Latest(k, i)' PROVE i \in DOMAIN Sent' /\ Latest(k, i + 1)
  <2>1. /\ i \in DOMAIN Sent' /\ Asks(Sent'[i], k)
        /\ \A j \in DOMAIN Sent' : Asks(Sent'[j], k) => j <= i
    BY <1>3 DEF Latest, Asks
  <2>2. i \in Nat /\ i >= 1 /\ i + 1 \in DOMAIN Sent /\ Asks(Sent[i + 1], k)
    BY <2>1, Dropped
  <2>3. ASSUME NEW j \in DOMAIN Sent, Asks(Sent[j], k) PROVE j <= i + 1
    <3>1. CASE j = 1
      BY <2>2, <3>1
    <3>2. CASE j # 1
      <4>1. j \in Nat /\ j - 1 \in DOMAIN Sent' /\ Sent'[j - 1] = Sent[j]
        BY <3>2, Dropped
      <4>2. j - 1 <= i
        BY <2>1, <2>3, <4>1
      <4> QED BY <2>2, <4>1, <4>2
    <3> QED BY <3>1, <3>2
  <2> QED BY <2>1, <2>2, <2>3 DEF Latest
<1> QED BY <1>1, <1>2, <1>3

(* What of the invariant is only about what was sent and the lanes is kept *)
(* when the worker is done with a request, and nothing is sent.            *)
LEMMA DropKeeps ==
    ASSUME RecorderInv, batch # <<>>, batch' = Tail(batch), queue' = queue,
           UNCHANGED <<lanes, shared, last, fate, newest>>,
           \A k \in ended' : k \in ended \/ (Head(batch).op = "End" /\ k = Head(batch).key)
    PROVE  SentInv' /\ OrderInv' /\ LaneInv' /\ LatestInv' /\ NewestInv'
<1> USE DEF RecorderInv
<1>1. SentInv'
  <2> SUFFICES ASSUME NEW i \in DOMAIN Sent'
               PROVE  /\ WellFormed(Sent'[i])
                      /\ Sent'[i].key # None => fate[Sent'[i].key] # "unborn"
                      /\ Sent'[i].op = "End" => fate[Sent'[i].key] = Sent'[i].ending
    BY DEF SentInv, WellFormed
  <2>1. i + 1 \in DOMAIN Sent /\ Sent'[i] = Sent[i + 1]
    BY Dropped
  <2> QED BY <2>1 DEF SentInv
<1>2. OrderInv'
  <2>1. ASSUME NEW i \in DOMAIN Sent', NEW j \in DOMAIN Sent', i < j,
               Sent'[i].key = Sent'[j].key, Sent'[i].key # None
        PROVE  /\ Sent'[i].op # "End" /\ Sent'[j].op # "Adopt"
               /\ Asks(Sent'[i], Sent'[i].key) /\ Asks(Sent'[j], Sent'[i].key) =>
                     Sent'[i].order < Sent'[j].order
    <3>1. /\ i + 1 \in DOMAIN Sent /\ j + 1 \in DOMAIN Sent /\ i + 1 < j + 1
          /\ Sent'[i] = Sent[i + 1] /\ Sent'[j] = Sent[j + 1]
      BY <2>1, Dropped
    <3> QED BY <2>1, <3>1 DEF OrderInv
  <2>2. ASSUME NEW i \in DOMAIN Sent', NEW k, Sent'[i].op = "Adopt", k = Sent'[i].key
        PROVE  \E j \in DOMAIN Sent' : Asks(Sent'[j], k)
    <3>1. i \in Nat /\ i >= 1 /\ i + 1 \in DOMAIN Sent /\ Sent'[i] = Sent[i + 1]
      BY <2>2, Dropped
    <3>2. Pending(k) /\ k # None
      BY <2>2, <3>1 DEF OrderInv, SentInv, WellFormed
    <3>3. ~Asks(Head(batch), k)
      <4>1. 1 \in DOMAIN Sent /\ 1 < i + 1 /\ Sent[1] = Head(batch)
        BY <3>1, Dropped
      <4>2. Sent[1].key # k
        BY <2>2, <3>1, <3>2, <4>1 DEF OrderInv
      <4> QED BY <4>1, <4>2 DEF Asks
    <3>4. Pending(k)'
      BY <3>2, <3>3, DropPending
    <3> QED BY <3>4 DEF Pending, Asks
  <2> QED BY <2>1, <2>2 DEF OrderInv, Asks, Pending
<1>3. LaneInv'
  <2>1. \A l \in Lanes : \A i \in DOMAIN Sent' :
           lanes[l].tracked # None /\ Asks(Sent'[i], lanes[l].tracked) => Sent'[i].lane = l
    BY Dropped DEF LaneInv
  <2>3. \A i \in DOMAIN Sent' :
           Sent'[i].lane # None => Sent'[i].order <= lanes[Sent'[i].lane].order
    BY Dropped DEF LaneInv
  <2>2. \A k \in ended' : fate[k] \in {"Retire", "Keep"}
    <3> SUFFICES ASSUME NEW k \in ended', k \notin ended PROVE fate[k] \in {"Retire", "Keep"}
      BY DEF LaneInv
    <3>1. Sent[1].op = "End" /\ k = Sent[1].key /\ 1 \in DOMAIN Sent
      BY Dropped
    <3> QED BY <3>1 DEF SentInv, WellFormed
  <2> QED BY <2>1, <2>2, <2>3 DEF LaneInv, Asks
<1>4. LatestInv'
  <2> SUFFICES ASSUME NEW k \in Keys, NEW i \in DOMAIN Sent', Latest(k, i)'
               PROVE  IF last[k].dirty
                      THEN Sent'[i].op = "Checkpoint" /\ Sent'[i].version = last[k].version
                      ELSE Sent'[i].op = "Clear"
    BY DEF LatestInv
  <2>1. Latest(k, i + 1) /\ i + 1 \in DOMAIN Sent /\ Sent'[i] = Sent[i + 1]
    BY Dropped, DropPending
  <2> QED BY <2>1 DEF LatestInv
<1>5. NewestInv'
  <2> SUFFICES ASSUME NEW k \in Keys, NEW i \in DOMAIN Sent', Latest(k, i)', i <= Len(batch')
               PROVE  newest[k] = Sent'[i].order
    BY DEF NewestInv
  <2>1. Latest(k, i + 1) /\ i + 1 \in DOMAIN Sent /\ Sent'[i] = Sent[i + 1] /\ i \in Nat
    BY Dropped, DropPending
  <2>2. i + 1 <= Len(batch)
    BY <2>1, Dropped, SentSeq
  <2> QED BY <2>1, <2>2 DEF NewestInv
<1> QED BY <1>1, <1>2, <1>3, <1>4, <1>5

-----------------------------------------------------------------------------
(* A step of the worker, as the invariant sees it.                         *)

(* A record that somebody else than q's document has, or will have.        *)
Elsewhere(q, r) ==
    \/ \E j \in Keys \ {q.key} : owned[j] = r
    \/ \E j \in Keys : claims[j] = r
    \/ \E i \in DOMAIN Sent : i # 1 /\ Sent[i].record = r

(* Whatever the request is, nobody else's record, failure or end is        *)
(* touched; the document's own record is nobody else's, and is remembered; *)
(* and what was asked is done, unless it failed or was pointless.          *)
Does(q) ==
    /\ batch # <<>> /\ q = Head(batch) /\ running' = running
    /\ \A r \in Records : Elsewhere(q, r) =>
          holds'[r] = holds[r] /\ memory'[r].current = memory[r].current /\ (r \in half' <=> r \in half)
    /\ \A j \in Keys \ {q.key} : owned'[j] = owned[j] /\ (j \in failed' <=> j \in failed)
    /\ q.key \in Keys /\ owned'[q.key] # None =>
          /\ ~Elsewhere(q, owned'[q.key])
          /\ memory'[owned'[q.key]].current = holds'[owned'[q.key]] \/ owned'[q.key] \in half'
    /\ \A k \in ended' : k \in ended \/ (q.op = "End" /\ k = q.key)
    /\ \A k \in ended : k \in ended'
    /\ q.op = "End" => q.key \in ended'
    /\ answer' # None =>
          /\ answer'.key = q.key /\ answer'.order = q.order /\ answer'.lane = q.lane /\ q.lane \in Lanes
          /\ answer'.result = "Written" => q.op = "Checkpoint" /\ q.key \notin failed'
    /\ q.op \in {"Checkpoint", "Clear"} =>
          \/ Superseded(q) \/ q.key \in ended' \/ q.key \in failed'
          \/ q.op = "Clear"
          \/ owned'[q.key] # None /\ (owned'[q.key] \in half' \/ holds'[owned'[q.key]] = q.version)

LEMMA DoesLeases ==
    ASSUME RecorderInv, NEW q, Does(q), batch' = Tail(batch), UNCHANGED <<loopVars, queue, newest>>
    PROVE  LeaseInv' /\ MemoryInv'
<1> USE DEF RecorderInv, loopVars
<1>0. TypeOK /\ batch # <<>> /\ queue' = queue
  BY DEF Does
<1>1. \A i \in DOMAIN Sent' : i \in Nat /\ i >= 1 /\ i + 1 \in DOMAIN Sent /\ Sent'[i] = Sent[i + 1]
  BY <1>0, Dropped
<1>2. \A j \in Keys : owned[j] \in Records \cup {None} /\ claims[j] \in Records \cup {None}
  BY DEF TypeOK
<1>3. ASSUME NEW i \in DOMAIN Sent', Sent'[i].record # None
      PROVE  Sent'[i].record \in Records /\ Elsewhere(q, Sent'[i].record)
  <2>1. i + 1 \in DOMAIN Sent /\ Sent'[i] = Sent[i + 1] /\ i + 1 # 1
    BY <1>1
  <2>2. Sent[i + 1] \in Request
    BY <2>1, SentSeq
  <2> QED BY <1>3, <2>1, <2>2, RequestFields DEF Elsewhere
<1>4. \A k, j \in Keys : owned'[k] = owned'[j] /\ owned'[k] # None => k = j
  <2> SUFFICES ASSUME NEW k \in Keys, NEW j \in Keys, owned'[k] = owned'[j], owned'[k] # None
               PROVE  k = j
    OBVIOUS
  <2>1. CASE k = q.key /\ j # q.key
    BY <2>1 DEF Does, Elsewhere
  <2>2. CASE k # q.key /\ j = q.key
    BY <2>2 DEF Does, Elsewhere
  <2>3. CASE k # q.key /\ j # q.key
    BY <2>3 DEF Does, LeaseInv
  <2> QED BY <2>1, <2>2, <2>3
<1>5. ASSUME NEW r \in Records, Elsewhere(q, r), ~Owned(r) PROVE ~Owned(r)'
  BY <1>5, <1>2, NoneIsNobody DEF Does, Owned
<1>6. ASSUME NEW k \in Keys, claims[k] # None
      PROVE  /\ holds'[claims[k]] \in Versions /\ fate[k] = "unborn" /\ ~Owned(claims[k])'
             /\ \A j \in Keys : claims[j] = claims[k] => j = k
             /\ \A i \in DOMAIN Sent' : Sent'[i].record # claims[k]
  <2>1. Elsewhere(q, claims[k]) /\ claims[k] \in Records
    BY <1>2, <1>6 DEF Elsewhere
  <2>2. holds[claims[k]] \in Versions /\ fate[k] = "unborn" /\ ~Owned(claims[k])
        /\ (\A j \in Keys : claims[j] = claims[k] => j = k)
        /\ \A i \in DOMAIN Sent : Sent[i].record # claims[k]
    BY <1>6 DEF LeaseInv
  <2>3. holds'[claims[k]] = holds[claims[k]]
    BY <2>1 DEF Does
  <2>4. ~Owned(claims[k])'
    <3> DEFINE r == claims[k]
    <3>1. r \in Records /\ Elsewhere(q, r) /\ ~Owned(r) /\ claims'[k] = r
      BY <2>1, <2>2
    <3>2. \A j \in Keys : owned'[j] # r
      BY <3>1, <1>5 DEF Owned
    <3> QED BY <3>1, <3>2 DEF Owned
  <2> QED BY <1>1, <2>2, <2>3, <2>4
<1>7. ASSUME NEW i \in DOMAIN Sent', Sent'[i].record # None
      PROVE  /\ holds'[Sent'[i].record] \in Versions
             /\ \A k \in Keys : owned'[k] # Sent'[i].record
             /\ \A j \in DOMAIN Sent' : Sent'[j].record = Sent'[i].record => j = i
  <2> DEFINE r == Sent'[i].record
  <2>1. i \in Nat /\ i + 1 \in DOMAIN Sent /\ r = Sent[i + 1].record /\ r # None
    BY <1>1, <1>7
  <2>2. r \in Records /\ Elsewhere(q, r)
    BY <1>3, <1>7
  <2>3. holds[r] \in Versions /\ ~Owned(r)
        /\ \A j \in DOMAIN Sent : Sent[j].record = r => j = i + 1
    BY <2>1 DEF LeaseInv
  <2> HIDE DEF r
  <2>4. holds'[r] = holds[r]
    BY <2>2 DEF Does
  <2>5. \A k \in Keys : owned'[k] # r
    BY <1>5, <2>2, <2>3 DEF Owned
  <2>6. ASSUME NEW j \in DOMAIN Sent', Sent'[j].record = r PROVE j = i
    <3>1. j \in Nat /\ j + 1 \in DOMAIN Sent /\ Sent[j + 1].record = r
      BY <1>1, <2>6
    <3> QED BY <2>1, <2>3, <3>1
  <2> QED BY <2>3, <2>4, <2>5, <2>6 DEF r
<1>8. LeaseInv'
  BY <1>4, <1>6, <1>7 DEF LeaseInv, Owned
<1>9. MemoryInv'
  <2> SUFFICES ASSUME NEW k \in Keys, owned'[k] # None
               PROVE  memory'[owned'[k]].current = holds'[owned'[k]] \/ owned'[k] \in half'
    BY DEF MemoryInv
  <2>1. CASE k = q.key
    BY <2>1 DEF Does
  <2>2. CASE k # q.key
    <3>1. owned'[k] = owned[k] /\ owned[k] \in Records /\ Elsewhere(q, owned[k])
      BY <1>2, <2>2 DEF Does, Elsewhere
    <3> QED BY <3>1 DEF Does, MemoryInv
  <2> QED BY <2>1, <2>2
<1> QED BY <1>8, <1>9

LEMMA DoesDone ==
    ASSUME RecorderInv, NEW q, Does(q), batch' = Tail(batch), UNCHANGED <<loopVars, queue, newest>>
    PROVE  DoneInv'
<1> USE DEF RecorderInv, loopVars
<1>0. TypeOK /\ batch # <<>> /\ queue' = queue
  BY DEF Does
<1>1. 1 \in DOMAIN Sent /\ Sent[1] = q /\ q \in Request /\ Len(batch) >= 1
  BY <1>0, Dropped DEF Does
<1> SUFFICES ASSUME running, NEW k \in Keys, fate[k] # "unborn", ~Pending(k)', k \notin failed', k \notin ended'
             PROVE  UpToDate(k)'
  BY DEF DoneInv, Does
<1>2. CASE k # q.key
  <2>1. ~Pending(k)
    BY <1>0, <1>2, DropPending DEF Asks, Does
  <2>2. UpToDate(k)
    BY <1>2, <2>1 DEF Does, DoneInv
  <2>3. CASE ~last[k].dirty
    BY <2>3 DEF UpToDate
  <2>4. CASE last[k].dirty
    <3>1. owned[k] \in Records /\ owned'[k] = owned[k] /\ Elsewhere(q, owned[k])
      BY <1>2, <2>2, <2>4 DEF Does, Elsewhere, UpToDate, TypeOK
    <3> QED BY <2>2, <3>1 DEF UpToDate, Does
  <2> QED BY <2>3, <2>4
<1>3. CASE k = q.key
  <2>1. q.op \in {"Checkpoint", "Clear"}
    <3>1. q.op # "End"
      BY <1>3 DEF Does
    <3>2. q.op # "Stop"
      BY <1>1, <1>3, NoneIsNobody DEF SentInv, WellFormed
    <3>3. q.op # "Adopt"
      <4> SUFFICES ASSUME q.op = "Adopt" PROVE FALSE
        OBVIOUS
      <4>1. Pending(k)
        BY <1>1, <1>3 DEF OrderInv
      <4> QED BY <1>0, <4>1, DropPending DEF Asks, Does
    <3> QED BY <1>1, <3>1, <3>2, <3>3, RequestFields
  <2>2. Latest(k, 1)
    <3>1. ASSUME NEW j \in DOMAIN Sent, Asks(Sent[j], k) PROVE j <= 1
      <4> SUFFICES ASSUME j # 1 PROVE FALSE
        BY <1>1
      <4>1. j - 1 \in DOMAIN Sent' /\ Sent'[j - 1] = Sent[j]
        BY <1>0, Dropped
      <4> QED BY <3>1, <4>1 DEF Pending, Asks
    <3> QED BY <1>1, <1>3, <2>1, <3>1 DEF Latest, Asks
  <2>3. ~Superseded(q)
    <3>1. newest[k] = q.order
      BY <1>1, <2>2 DEF NewestInv
    <3> QED BY <1>3, <3>1 DEF Superseded
  <2>4. IF last[k].dirty THEN q.op = "Checkpoint" /\ q.version = last[k].version ELSE q.op = "Clear"
    BY <1>1, <2>2 DEF LatestInv
  <2> QED BY <1>3, <2>1, <2>3, <2>4 DEF Does, UpToDate
<1> QED BY <1>2, <1>3

LEMMA DoesWritten ==
    ASSUME RecorderInv, NEW q, Does(q), batch' = Tail(batch), UNCHANGED <<loopVars, queue, newest>>
    PROVE  WrittenInv'
<1> USE DEF RecorderInv, loopVars
<1>0. TypeOK /\ batch # <<>> /\ queue' = queue
  BY DEF Does
<1>1. 1 \in DOMAIN Sent /\ Sent[1] = q /\ q \in Request /\ WellFormed(q)
  BY <1>0, Dropped DEF Does, SentInv
<1>2. ASSUME NEW k \in Keys, Settled(k), fate[k] = "open" PROVE Settled(k)'
  <2>1. ~Pending(k)' /\ last'[k].dirty
    BY <1>0, <1>2, DropPending DEF Settled
  <2>2. CASE k # q.key
    BY <1>2, <2>1, <2>2 DEF Settled, Does
  <2>3. CASE k = q.key
    <3>1. ~Asks(q, k) /\ q.op # "Adopt"
      BY <1>1, <1>2, <2>3 DEF Settled, Pending, OrderInv
    <3>2. q.op # "End" /\ q.op # "Stop"
      BY <1>1, <1>2, <2>3, NoneIsNobody DEF SentInv, WellFormed
    <3> QED BY <1>1, <2>3, <3>1, <3>2, RequestFields DEF Asks
  <2> QED BY <2>2, <2>3
<1>3. ASSUME NEW l \in Lanes, shared[l].status = "Written" PROVE Settled(shared[l].key)'
  <2>1. shared[l].key = lanes[l].tracked /\ lanes[l].tracked # None /\ fate[lanes[l].tracked] = "open"
    BY <1>3 DEF LaneInv
  <2>2. lanes[l].tracked \in Keys
    BY <2>1 DEF TypeOK
  <2>3. Settled(lanes[l].tracked)
    BY <1>3, <2>1 DEF WrittenInv
  <2> DEFINE k == lanes[l].tracked
  <2>4. k \in Keys /\ Settled(k) /\ fate[k] = "open"
    BY <2>1, <2>2, <2>3
  <2> HIDE DEF k
  <2>5. last[k].dirty /\ k \notin failed' /\ ~(\E i \in DOMAIN Sent' : Asks(Sent'[i], k))
    BY <1>2, <2>4 DEF Settled, Pending, Asks
  <2> QED BY <2>1, <2>5 DEF k, Settled, Pending, Asks
<1>4. ASSUME answer' # None
      PROVE  /\ answer'.order <= lanes[answer'.lane].order
             /\ answer'.result = "Written" => answer'.order >= 1
  BY <1>1, <1>4, NoneIsNobody DEF Does, LaneInv, WellFormed
<1>5. ASSUME answer' # None, answer'.result = "Written", shared[answer'.lane].key = answer'.key,
             answer'.order = shared[answer'.lane].requested
      PROVE  last[q.key].dirty /\ q.key \notin failed' /\ ~Pending(q.key)'
  <2>1. q.op = "Checkpoint" /\ q.key \notin failed' /\ q.lane \in Lanes
        /\ shared[q.lane].key = q.key /\ q.order = shared[q.lane].requested
    BY <1>5 DEF Does
  <2>2. q.key \in Keys /\ q.order \in Nat
    BY <1>1, <2>1, RequestFields DEF WellFormed
  <2>3. lanes[q.lane].tracked = q.key /\ q.order = lanes[q.lane].order
    BY <2>1, <2>2, NoneIsNobody DEF LaneInv
  <2>4. ASSUME NEW j \in DOMAIN Sent, Asks(Sent[j], q.key) PROVE j = 1
    <3> SUFFICES ASSUME j # 1 PROVE FALSE
      OBVIOUS
    <3>1. j \in Nat /\ 1 < j /\ Sent[j] \in Request
      BY <1>0, SentSeq
    <3>2. q.order < Sent[j].order
      BY <1>1, <2>1, <2>2, <2>4, <3>1, NoneIsNobody DEF OrderInv, Asks
    <3>3. Sent[j].lane = q.lane /\ Sent[j].order <= lanes[q.lane].order
      BY <2>1, <2>2, <2>3, <2>4, NoneIsNobody DEF LaneInv
    <3> QED BY <2>2, <2>3, <3>1, <3>2, <3>3, RequestFields
  <2>5. ~Pending(q.key)'
    <3>1. \A i \in DOMAIN Sent' : i + 1 \in DOMAIN Sent /\ i + 1 # 1 /\ Sent'[i] = Sent[i + 1]
      BY <1>0, Dropped
    <3> QED BY <2>4, <3>1 DEF Pending, Asks, Does
  <2>6. Latest(q.key, 1)
    BY <1>1, <2>1, <2>4 DEF Latest, Asks
  <2>7. last[q.key].dirty
    BY <1>1, <2>1, <2>2, <2>6 DEF LatestInv
  <2> QED BY <2>1, <2>5, <2>7
<1>6. ASSUME answer' # None PROVE answer'.key = q.key
  BY <1>6 DEF Does
<1>7. ASSUME answer' # None, answer'.result = "Written", shared[answer'.lane].key = answer'.key,
             answer'.order = shared[answer'.lane].requested
      PROVE  /\ last[answer'.key].dirty /\ answer'.key \notin failed'
             /\ ~(\E i \in DOMAIN Sent' : Asks(Sent'[i], answer'.key))
  <2>1. answer'.key = q.key
    BY <1>7 DEF Does
  <2> QED BY <1>5, <1>7, <2>1 DEF Pending, Asks
<1>8. \A l \in Lanes : shared[l].status = "Written" =>
         last[shared[l].key].dirty /\ shared[l].key \notin failed'
         /\ ~(\E i \in DOMAIN Sent' : Asks(Sent'[i], shared[l].key))
  BY <1>3 DEF Settled, Pending, Asks
<1> QED BY <1>4, <1>7, <1>8 DEF WrittenInv, Settled, Pending, Asks

(* A step of the worker about request q keeps what is left to keep.        *)
LEMMA DoesKeeps ==
    ASSUME RecorderInv, NEW q, Does(q), batch' = Tail(batch), UNCHANGED <<loopVars, queue, newest>>,
           TypeOK'
    PROVE  RecorderInv'
<1>1. \A k \in ended' : k \in ended \/ (Head(batch).op = "End" /\ k = Head(batch).key)
  BY DEF Does
<1>2. batch # <<>>
  BY DEF Does
<1>3. SentInv' /\ OrderInv' /\ LaneInv' /\ LatestInv' /\ NewestInv'
  BY <1>1, <1>2, DropKeeps DEF loopVars
<1> QED BY <1>3, DoesLeases, DoesDone, DoesWritten DEF RecorderInv

-----------------------------------------------------------------------------
(* The worker's steps.                                                     *)

(* The request at hand.                                                    *)
LEMMA AtHand ==
    ASSUME RecorderInv, batch # <<>>, NEW q, q = Head(batch)
    PROVE  /\ q \in Request /\ WellFormed(q)
           /\ batch \in Seq(Request) /\ Tail(batch) \in Seq(Request)
           /\ q.key # None => fate[q.key] # "unborn"
           /\ q.op = "End" => fate[q.key] = q.ending
           /\ \A r \in Records : q.record = r => ~Elsewhere(q, r) /\ holds[r] \in Versions
           /\ \A k \in Keys : q.key = k /\ owned[k] # None => ~Elsewhere(q, owned[k])
           /\ \A r \in Records : Elsewhere(q, r) => Leased(r) /\ holds[r] # Absent
<1> USE DEF RecorderInv
<1>1. batch \in Seq(Request)
  BY DEF TypeOK
<1>2. 1 \in DOMAIN Sent /\ Sent[1] = q /\ q \in Request /\ Tail(batch) \in Seq(Request)
  <2>1. q = batch[1] /\ 1 \in 1 .. Len(batch) /\ q \in Request /\ Tail(batch) \in Seq(Request)
    BY <1>1, HeadTailProperties, EmptySeq
  <2> QED BY <2>1, SentSeq
<1>3. WellFormed(q) /\ (q.key # None => fate[q.key] # "unborn") /\ (q.op = "End" => fate[q.key] = q.ending)
  BY <1>2 DEF SentInv
<1>4. ASSUME NEW r \in Records, q.record = r PROVE ~Elsewhere(q, r) /\ holds[r] \in Versions
  BY <1>2, <1>4, NoneIsNobody DEF LeaseInv, Owned, Elsewhere
<1>5. ASSUME NEW k \in Keys, q.key = k, owned[k] # None PROVE ~Elsewhere(q, owned[k])
  BY <1>5 DEF LeaseInv, Owned, Elsewhere
<1>6. ASSUME NEW r \in Records, Elsewhere(q, r) PROVE Leased(r) /\ holds[r] # Absent
  <2>1. r # None /\ \A v \in Versions : v # Absent
    BY NoneIsNobody
  <2>2. CASE \E j \in Keys \ {q.key} : owned[j] = r
    BY <2>1, <2>2 DEF TypeOK, Leased
  <2>3. CASE \E j \in Keys : claims[j] = r
    BY <2>1, <2>3 DEF LeaseInv, Leased
  <2>4. CASE \E i \in DOMAIN Sent : i # 1 /\ Sent[i].record = r
    <3>1. PICK i \in DOMAIN Sent : Sent[i].record = r
      BY <2>4
    <3>2. holds[r] # Absent
      BY <2>1, <3>1 DEF LeaseInv
    <3>3. i \in 1 .. Len(batch) + Len(queue) /\ Len(batch) \in Nat /\ Len(queue) \in Nat
      BY <3>1, SentSeq
    <3>4. CASE i <= Len(batch)
      <4>1. i \in DOMAIN batch /\ batch[i] = Sent[i]
        BY <3>3, <3>4, SentSeq
      <4> QED BY <3>1, <3>2, <4>1 DEF Leased
    <3>5. CASE ~(i <= Len(batch))
      <4>1. i - Len(batch) \in 1 .. Len(queue) /\ Len(batch) + (i - Len(batch)) = i
        BY <3>3, <3>5
      <4>2. i - Len(batch) \in DOMAIN queue /\ queue[i - Len(batch)] = Sent[i]
        BY <4>1, SentSeq
      <4> QED BY <3>1, <3>2, <4>2 DEF Leased
    <3> QED BY <3>4, <3>5
  <2> QED BY <1>6, <2>2, <2>3, <2>4 DEF Elsewhere
<1> QED BY <1>1, <1>2, <1>3, <1>4, <1>5, <1>6

LEMMA WorkerTyped ==
    ASSUME RecorderInv, batch # <<>>, batch' = Tail(batch), UNCHANGED <<loopVars, queue, newest>>,
           owned' \in [Keys -> Records \cup {None}], ended' \subseteq Keys,
           answer' \in Outcome \cup {None}, running' \in BOOLEAN,
           holds' \in [Records -> Versions \cup {None, Absent}], memory' \in [Records -> Memory],
           failed' \subseteq Keys, half' \subseteq Records, faults' \in 0 .. MaxFaults,
           \A k \in Keys : owned'[k] # None => holds'[owned'[k]] # Absent
    PROVE  TypeOK'
<1>1. Tail(batch) \in Seq(Request)
  BY AtHand
<1> QED BY <1>1 DEF RecorderInv, TypeOK, loopVars

LEMMA Answers ==
    ASSUME NEW q \in Request, q.lane \in Lanes, q.key \in Keys, NEW result \in Status
    PROVE  /\ Answer(q, result) \in Outcome
           /\ Answer(q, result).key = q.key /\ Answer(q, result).order = q.order
           /\ Answer(q, result).lane = q.lane /\ Answer(q, result).result = result
BY RequestFields DEF Answer, Outcome, Order

LEMMA SkipKeeps ==
    ASSUME RecorderInv, Skip
    PROVE  RecorderInv'
<1> DEFINE q == Head(batch)
<1>1. /\ batch # <<>> /\ q.op # "Stop" /\ (Superseded(q) \/ q.key \in ended)
      /\ batch' = Tail(batch) /\ answer' = None /\ UNCHANGED <<loopVars, queue, newest>>
      /\ UNCHANGED <<owned, ended, running, diskVars>>
  BY DEF Skip, Done
<1>2. /\ q \in Request /\ WellFormed(q)
      /\ \A k \in Keys : q.key = k /\ owned[k] # None => ~Elsewhere(q, owned[k])
  BY <1>1, AtHand
<1>3. TypeOK'
  BY <1>1, WorkerTyped DEF RecorderInv, TypeOK, diskVars
<1>4. Does(q)
  <2>1. q.key \in Keys /\ owned[q.key] # None =>
          memory[owned[q.key]].current = holds[owned[q.key]] \/ owned[q.key] \in half
    BY DEF RecorderInv, MemoryInv
  <2>2. q.op = "End" => q.key \in ended
    BY <1>1, <1>2 DEF WellFormed, Superseded
  <2> QED BY <1>1, <1>2, <2>1, <2>2 DEF Does, diskVars
<1> HIDE DEF q
<1> QED BY <1>1, <1>3, <1>4, DoesKeeps

LEMMA AdoptKeeps ==
    ASSUME RecorderInv, Adopt
    PROVE  RecorderInv'
<1> DEFINE q == Head(batch)
<1>1. /\ batch # <<>> /\ q.op = "Adopt" /\ batch' = Tail(batch)
      /\ UNCHANGED <<loopVars, queue, newest>> /\ UNCHANGED <<ended, running, holds, failed, half>>
  BY DEF Adopt, Wanted, Due, Done
<1>2. /\ q \in Request /\ WellFormed(q) /\ q.record \in Records /\ q.lane \in Lanes /\ q.key \in Keys
      /\ q.order = 0
      /\ ~Elsewhere(q, q.record) /\ holds[q.record] \in Versions
      /\ \A k \in Keys : q.key = k /\ owned[k] # None => ~Elsewhere(q, owned[k])
  <2>1. q \in Request /\ WellFormed(q)
    BY <1>1, AtHand
  <2>2. q.record \in Records /\ q.lane \in Lanes /\ q.key \in Keys /\ q.order = 0
    BY <1>1, <2>1, RequestFields DEF WellFormed
  <2> QED BY <1>1, <2>1, <2>2, AtHand
<1>3. CASE /\ owned' = [owned EXCEPT ![q.key] = q.record]
           /\ memory' = [memory EXCEPT ![q.record] =
                              [current |-> holds[q.record], confirmed |-> TRUE, order |-> 0]]
           /\ answer' = None /\ UNCHANGED faults
  <2>1. TypeOK'
    <3>1. owned' \in [Keys -> Records \cup {None}] /\ memory' \in [Records -> Memory]
      BY <1>2, <1>3 DEF RecorderInv, TypeOK, Memory, Order
    <3>2. \A k \in Keys : owned'[k] # None => holds'[owned'[k]] # Absent
      BY <1>1, <1>2, <1>3, NoneIsNobody DEF RecorderInv, TypeOK
    <3> QED BY <1>1, <1>3, <3>1, <3>2, WorkerTyped DEF RecorderInv, TypeOK
  <2>2. Does(q)
    <3>1. /\ owned'[q.key] = q.record /\ memory'[q.record].current = holds'[q.record]
          /\ \A j \in Keys \ {q.key} : owned'[j] = owned[j]
          /\ \A r \in Records : Elsewhere(q, r) => memory'[r] = memory[r]
      BY <1>1, <1>2, <1>3 DEF RecorderInv, TypeOK
    <3> QED BY <1>1, <1>2, <1>3, <3>1 DEF Does
  <2> HIDE DEF q
  <2> QED BY <1>1, <2>1, <2>2, DoesKeeps
<1>4. CASE Fault /\ answer' = Answer(q, "Failed") /\ UNCHANGED <<owned, memory>>
  <2>1. TypeOK'
    <3>1. answer' \in Outcome /\ faults' \in 0 .. MaxFaults
      BY <1>2, <1>4, Answers, RecorderAssumption DEF Status, Fault, RecorderInv, TypeOK
    <3> QED BY <1>1, <1>4, <3>1, WorkerTyped DEF RecorderInv, TypeOK
  <2>2. Does(q)
    <3>1. /\ answer'.key = q.key /\ answer'.order = q.order /\ answer'.lane = q.lane
          /\ answer'.result = "Failed"
      BY <1>2, <1>4, Answers DEF Status
    <3>2. owned[q.key] # None =>
            memory[owned[q.key]].current = holds[owned[q.key]] \/ owned[q.key] \in half
      BY <1>2 DEF RecorderInv, MemoryInv
    <3> QED BY <1>1, <1>2, <1>4, <3>1, <3>2 DEF Does
  <2> HIDE DEF q
  <2> QED BY <1>1, <2>1, <2>2, DoesKeeps
<1> QED BY <1>3, <1>4 DEF Adopt, Done

(* Publishing to record r, remembered as mem, in a folder that holds swept. *)
LEMMA Publishes ==
    ASSUME RecorderInv, NEW q \in Request, q.op = "Checkpoint", q.key \in Keys, q.lane \in Lanes,
           q.version \in Versions, NEW r \in Records, NEW mem \in Memory,
           NEW swept \in [Records -> Versions \cup {None, Absent}], swept[r] # Absent,
           mem.current = swept[r] \/ r \in half, PublishTo(r, q, swept, mem)
    PROVE  /\ holds' \in [Records -> Versions \cup {None, Absent}] /\ memory' \in [Records -> Memory]
           /\ failed' \subseteq Keys /\ half' \subseteq Records /\ faults' \in 0 .. MaxFaults
           /\ \A s \in Records \ {r} : holds'[s] = swept[s] /\ memory'[s] = memory[s]
                                       /\ (s \in half' <=> s \in half)
           /\ holds'[r] # Absent /\ (memory'[r].current = holds'[r] \/ r \in half')
           /\ \A j \in Keys \ {q.key} : j \in failed' <=> j \in failed
           /\ q.key \in failed' \/ r \in half' \/ holds'[r] = q.version
           /\ answer' \in Outcome
           /\ answer'.key = q.key /\ answer'.order = q.order /\ answer'.lane = q.lane
           /\ answer'.result = "Written" => q.key \notin failed'
           /\ batch' = Tail(batch) /\ UNCHANGED <<loopVars, queue, newest>>
<1> DEFINE ordered == [mem EXCEPT !.order = q.order]
           whole == [current |-> q.version, confirmed |-> TRUE, order |-> q.order]
           unsure == [current |-> q.version, confirmed |-> FALSE, order |-> q.order]
<1>0. q.version # Absent
  BY NoneIsNobody
<1>1. /\ ordered \in Memory /\ ordered.current = mem.current
      /\ whole \in Memory /\ whole.current = q.version
      /\ unsure \in Memory /\ unsure.current = q.version
  BY RequestFields DEF Memory, Order
<1>2. /\ memory \in [Records -> Memory] /\ failed \subseteq Keys /\ half \subseteq Records
      /\ faults \in 0 .. MaxFaults
  BY DEF RecorderInv, TypeOK
<1>3. \A result \in Status : Answer(q, result) \in Outcome /\ Answer(q, result).key = q.key
        /\ Answer(q, result).order = q.order /\ Answer(q, result).lane = q.lane
        /\ Answer(q, result).result = result
  BY Answers
<1>4. "Written" \in Status /\ "Failed" \in Status
  BY DEF Status
<1> HIDE DEF ordered, whole, unsure
<1>5. CASE /\ mem.current = q.version /\ holds' = swept /\ memory' = [memory EXCEPT ![r] = ordered]
           /\ Done(Answer(q, "Written")) /\ failed' = failed \ {q.key} /\ UNCHANGED <<half, faults>>
  <2>1. memory'[r].current = mem.current /\ memory' \in [Records -> Memory]
        /\ \A s \in Records \ {r} : memory'[s] = memory[s]
    BY <1>1, <1>2, <1>5
  <2> QED BY <1>2, <1>3, <1>4, <1>5, <2>1 DEF Done
<1>6. CASE /\ holds' = [swept EXCEPT ![r] = q.version] /\ memory' = [memory EXCEPT ![r] = whole]
           /\ half' = half \ {r} /\ Done(Answer(q, "Written")) /\ failed' = failed \ {q.key}
           /\ UNCHANGED faults
  <2>1. /\ memory'[r].current = q.version /\ memory' \in [Records -> Memory]
        /\ \A s \in Records \ {r} : memory'[s] = memory[s] /\ holds'[s] = swept[s]
        /\ holds'[r] = q.version /\ holds' \in [Records -> Versions \cup {None, Absent}]
    BY <1>1, <1>2, <1>6
  <2> QED BY <1>0, <1>2, <1>3, <1>4, <1>6, <2>1 DEF Done
<1>7. faults + 1 \in 0 .. MaxFaults \/ ~Fault
  BY <1>2, RecorderAssumption DEF Fault
<1>8. CASE /\ Fault /\ failed' = failed \cup {q.key} /\ Done(Answer(q, "Failed"))
           /\ holds' = swept /\ memory' = [memory EXCEPT ![r] = ordered] /\ UNCHANGED half
  <2>1. memory'[r].current = mem.current /\ memory' \in [Records -> Memory]
        /\ \A s \in Records \ {r} : memory'[s] = memory[s]
    BY <1>1, <1>2, <1>8
  <2> QED BY <1>2, <1>3, <1>4, <1>7, <1>8, <2>1 DEF Done, Fault
<1>9. CASE /\ Fault /\ failed' = failed \cup {q.key} /\ Done(Answer(q, "Failed"))
           /\ holds' = [swept EXCEPT ![r] = q.version] /\ memory' = [memory EXCEPT ![r] = unsure]
           /\ half' = half \ {r}
  <2>1. /\ memory'[r].current = q.version /\ memory' \in [Records -> Memory]
        /\ \A s \in Records \ {r} : memory'[s] = memory[s] /\ holds'[s] = swept[s]
        /\ holds'[r] = q.version /\ holds' \in [Records -> Versions \cup {None, Absent}]
    BY <1>1, <1>2, <1>9
  <2> QED BY <1>0, <1>2, <1>3, <1>4, <1>7, <1>9, <2>1 DEF Done, Fault
<1> QED BY <1>5, <1>6, <1>8, <1>9 DEF PublishTo, ordered, whole, unsure

LEMMA CheckpointHand ==
    ASSUME RecorderInv, Wanted("Checkpoint"), NEW q, q = Head(batch)
    PROVE  /\ batch # <<>> /\ q \in Request /\ q.op = "Checkpoint" /\ q.key \in Keys /\ q.lane \in Lanes
           /\ q.version \in Versions /\ running
           /\ \A k \in Keys : q.key = k /\ owned[k] # None => ~Elsewhere(q, owned[k])
           /\ \A r \in Records : Elsewhere(q, r) => Leased(r) /\ holds[r] # Absent
<1>1. batch # <<>> /\ q.op = "Checkpoint" /\ running
  BY DEF Wanted, Due
<1>2. q \in Request /\ WellFormed(q)
  BY <1>1, AtHand
<1> QED BY <1>1, <1>2, AtHand, RequestFields DEF WellFormed

LEMMA CheckpointAgainKeeps ==
    ASSUME RecorderInv, CheckpointAgain
    PROVE  RecorderInv'
<1> DEFINE q == Head(batch)
           r == owned[q.key]
<1>1. r # None /\ PublishTo(r, q, holds, memory[r]) /\ UNCHANGED <<owned, ended, running>>
      /\ Wanted("Checkpoint")
  BY DEF CheckpointAgain
<1>2. /\ batch # <<>> /\ q \in Request /\ q.op = "Checkpoint" /\ q.key \in Keys /\ q.lane \in Lanes
      /\ q.version \in Versions /\ ~Elsewhere(q, r)
  BY <1>1, CheckpointHand
<1>3. /\ r \in Records /\ memory[r] \in Memory /\ holds \in [Records -> Versions \cup {None, Absent}]
      /\ holds[r] # Absent /\ owned \in [Keys -> Records \cup {None}] /\ ended \subseteq Keys
      /\ running \in BOOLEAN /\ \A k \in Keys : owned[k] # None => holds[owned[k]] # Absent
  BY <1>1, <1>2 DEF RecorderInv, TypeOK
<1>4. memory[r].current = holds[r] \/ r \in half
  BY <1>1, <1>2 DEF RecorderInv, MemoryInv
<1>5. owned' = owned /\ ended' = ended /\ running' = running /\ owned'[q.key] = r
  BY <1>1
<1> HIDE DEF q, r
<1>6. /\ holds' \in [Records -> Versions \cup {None, Absent}] /\ memory' \in [Records -> Memory]
      /\ failed' \subseteq Keys /\ half' \subseteq Records /\ faults' \in 0 .. MaxFaults
      /\ \A s \in Records \ {r} : holds'[s] = holds[s] /\ memory'[s] = memory[s]
                                   /\ (s \in half' <=> s \in half)
      /\ holds'[r] # Absent /\ (memory'[r].current = holds'[r] \/ r \in half')
      /\ \A j \in Keys \ {q.key} : j \in failed' <=> j \in failed
      /\ q.key \in failed' \/ r \in half' \/ holds'[r] = q.version
      /\ answer' \in Outcome
      /\ answer'.key = q.key /\ answer'.order = q.order /\ answer'.lane = q.lane
      /\ answer'.result = "Written" => q.key \notin failed'
      /\ batch' = Tail(batch) /\ UNCHANGED <<loopVars, queue, newest>>
  BY <1>1, <1>2, <1>3, <1>4, Publishes
<1>7. TypeOK'
  <2>1. \A k \in Keys : owned'[k] # None => holds'[owned'[k]] # Absent
    BY <1>3, <1>5, <1>6
  <2> QED BY <1>2, <1>3, <1>5, <1>6, <2>1, WorkerTyped
<1>8. Does(q)
  <2>1. \A s \in Records : Elsewhere(q, s) => s # r
    BY <1>2
  <2> QED BY <1>1, <1>2, <1>3, <1>5, <1>6, <2>1 DEF Does, q
<1> QED BY <1>6, <1>7, <1>8, DoesKeeps

LEMMA CheckpointFirstKeeps ==
    ASSUME RecorderInv, CheckpointFirst
    PROVE  RecorderInv'
<1> DEFINE q == Head(batch)
           swept == [s \in Records |-> IF Swept(s) THEN Absent ELSE holds[s]]
<1>1. PICK r \in Records : /\ swept[r] = Absent /\ owned' = [owned EXCEPT ![q.key] = r]
                           /\ PublishTo(r, q, [swept EXCEPT ![r] = None], NoMemory)
  BY DEF CheckpointFirst
<1>2. Wanted("Checkpoint") /\ UNCHANGED <<ended, running>>
  BY DEF CheckpointFirst
<1>3. /\ batch # <<>> /\ q \in Request /\ q.op = "Checkpoint" /\ q.key \in Keys /\ q.lane \in Lanes
      /\ q.version \in Versions
      /\ \A s \in Records : Elsewhere(q, s) => Leased(s) /\ holds[s] # Absent
  BY <1>2, CheckpointHand
<1>4. /\ holds \in [Records -> Versions \cup {None, Absent}] /\ ended \subseteq Keys
      /\ owned \in [Keys -> Records \cup {None}] /\ running \in BOOLEAN
      /\ \A k \in Keys : owned[k] # None => holds[owned[k]] # Absent
  BY DEF RecorderInv, TypeOK
<1>5. \A s \in Records : Elsewhere(q, s) => swept[s] = holds[s] /\ s # r
  BY <1>1, <1>3 DEF Swept
<1> DEFINE made == [swept EXCEPT ![r] = None]
<1>6. /\ made \in [Records -> Versions \cup {None, Absent}] /\ made[r] = None
      /\ NoMemory \in Memory /\ NoMemory.current = None
      /\ \A s \in Records \ {r} : made[s] = swept[s]
  BY <1>4 DEF NoMemory, Memory, Order
<1>7. made[r] # Absent
  BY <1>6, NoneIsNobody
<1>8. /\ owned' \in [Keys -> Records \cup {None}] /\ owned'[q.key] = r
      /\ \A j \in Keys \ {q.key} : owned'[j] = owned[j]
  BY <1>1, <1>3, <1>4
<1>9. PublishTo(r, q, made, NoMemory)
  BY <1>1
<1> HIDE DEF q, made, swept
<1>10. /\ holds' \in [Records -> Versions \cup {None, Absent}] /\ memory' \in [Records -> Memory]
       /\ failed' \subseteq Keys /\ half' \subseteq Records /\ faults' \in 0 .. MaxFaults
       /\ \A s \in Records \ {r} : holds'[s] = made[s] /\ memory'[s] = memory[s]
                                    /\ (s \in half' <=> s \in half)
       /\ holds'[r] # Absent /\ (memory'[r].current = holds'[r] \/ r \in half')
       /\ \A j \in Keys \ {q.key} : j \in failed' <=> j \in failed
       /\ q.key \in failed' \/ r \in half' \/ holds'[r] = q.version
       /\ answer' \in Outcome
       /\ answer'.key = q.key /\ answer'.order = q.order /\ answer'.lane = q.lane
       /\ answer'.result = "Written" => q.key \notin failed'
       /\ batch' = Tail(batch) /\ UNCHANGED <<loopVars, queue, newest>>
  BY <1>3, <1>6, <1>7, <1>9, Publishes
<1>11. \A s \in Records : Elsewhere(q, s) => s # r /\ holds'[s] = holds[s]
  BY <1>5, <1>6, <1>10
<1>12. TypeOK'
  <2>1. ASSUME NEW k \in Keys, owned'[k] # None PROVE holds'[owned'[k]] # Absent
    <3>1. CASE k = q.key
      BY <1>8, <1>10, <3>1
    <3>2. CASE k # q.key
      <4>1. owned'[k] = owned[k] /\ owned[k] \in Records /\ Elsewhere(q, owned[k])
        BY <1>4, <1>8, <2>1, <3>2 DEF Elsewhere
      <4> QED BY <1>4, <1>11, <4>1, <2>1
    <3> QED BY <3>1, <3>2
  <2> QED BY <1>2, <1>3, <1>4, <1>8, <1>10, <2>1, WorkerTyped
<1>13. Does(q)
  <2>1. \A s \in Records : Elsewhere(q, s) => memory'[s] = memory[s] /\ (s \in half' <=> s \in half)
    BY <1>10, <1>11
  <2>2. r # None /\ ~Elsewhere(q, r)
    BY <1>11, NoneIsNobody
  <2> QED BY <1>2, <1>3, <1>8, <1>10, <1>11, <2>1, <2>2 DEF Does, q
<1> QED BY <1>10, <1>12, <1>13, DoesKeeps

LEMMA CheckpointRefusedKeeps ==
    ASSUME RecorderInv, CheckpointRefused
    PROVE  RecorderInv'
<1> DEFINE q == Head(batch)
<1>1. /\ Wanted("Checkpoint") /\ owned[q.key] = None /\ (UNCHANGED faults \/ Fault)
      /\ holds' = [r \in Records |-> IF Swept(r) THEN Absent ELSE holds[r]]
      /\ failed' = failed \cup {q.key} /\ Done(Answer(q, "Failed"))
      /\ UNCHANGED <<owned, ended, running, memory, half>>
  BY DEF CheckpointRefused
<1>2. /\ batch # <<>> /\ q \in Request /\ q.op = "Checkpoint" /\ q.key \in Keys /\ q.lane \in Lanes
      /\ \A s \in Records : Elsewhere(q, s) => Leased(s) /\ holds[s] # Absent
  BY <1>1, CheckpointHand
<1>3. /\ owned \in [Keys -> Records \cup {None}] /\ ended \subseteq Keys /\ running \in BOOLEAN
      /\ holds \in [Records -> Versions \cup {None, Absent}] /\ memory \in [Records -> Memory]
      /\ failed \subseteq Keys /\ half \subseteq Records /\ faults \in 0 .. MaxFaults
      /\ \A k \in Keys : owned[k] # None => holds[owned[k]] # Absent
  BY DEF RecorderInv, TypeOK
<1>4. /\ answer' \in Outcome /\ answer'.key = q.key /\ answer'.order = q.order /\ answer'.lane = q.lane
      /\ answer'.result = "Failed"
      /\ batch' = Tail(batch) /\ UNCHANGED <<loopVars, queue, newest>>
  BY <1>1, <1>2, Answers DEF Done, Status
<1>5. \A s \in Records : Elsewhere(q, s) => holds'[s] = holds[s]
  BY <1>1, <1>2 DEF Swept
<1>6. faults' \in 0 .. MaxFaults
  BY <1>1, <1>3, RecorderAssumption DEF Fault
<1>7. holds' \in [Records -> Versions \cup {None, Absent}] /\ failed' \subseteq Keys
  BY <1>1, <1>2, <1>3
<1>8. TypeOK'
  <2>1. ASSUME NEW k \in Keys, owned'[k] # None PROVE holds'[owned'[k]] # Absent
    <3>1. owned'[k] = owned[k] /\ k # q.key
      BY <1>1, <2>1
    <3>2. owned[k] \in Records /\ Elsewhere(q, owned[k])
      BY <1>3, <2>1, <3>1 DEF Elsewhere
    <3> QED BY <1>2, <1>5, <3>1, <3>2
  <2> QED BY <1>1, <1>2, <1>3, <1>4, <1>6, <1>7, <2>1, WorkerTyped
<1>9. Does(q)
  BY <1>1, <1>2, <1>4, <1>5 DEF Does
<1> HIDE DEF q
<1> QED BY <1>4, <1>8, <1>9, DoesKeeps

LEMMA ClearKeeps ==
    ASSUME RecorderInv, Clear
    PROVE  RecorderInv'
<1> DEFINE q == Head(batch)
           r == owned[q.key]
<1>1. Wanted("Clear") /\ UNCHANGED <<owned, ended, running>>
  BY DEF Clear
<1>2. /\ batch # <<>> /\ q \in Request /\ q.op = "Clear" /\ q.key \in Keys /\ q.lane \in Lanes
      /\ (r # None => ~Elsewhere(q, r))
  <2>1. batch # <<>> /\ q.op = "Clear"
    BY <1>1 DEF Wanted, Due
  <2>2. q \in Request /\ WellFormed(q) /\ \A k \in Keys : q.key = k /\ owned[k] # None => ~Elsewhere(q, owned[k])
    BY <2>1, AtHand
  <2> QED BY <2>1, <2>2, RequestFields DEF WellFormed
<1>3. /\ owned \in [Keys -> Records \cup {None}] /\ ended \subseteq Keys /\ running \in BOOLEAN
      /\ holds \in [Records -> Versions \cup {None, Absent}] /\ memory \in [Records -> Memory]
      /\ failed \subseteq Keys /\ half \subseteq Records /\ faults \in 0 .. MaxFaults
      /\ \A k \in Keys : owned[k] # None => holds[owned[k]] # Absent
  BY DEF RecorderInv, TypeOK
<1>4. \A result \in Status : Answer(q, result) \in Outcome /\ Answer(q, result).key = q.key
        /\ Answer(q, result).order = q.order /\ Answer(q, result).lane = q.lane
        /\ Answer(q, result).result = result
  BY <1>2, Answers
<1>5. "Off" \in Status /\ "Failed" \in Status
  BY DEF Status
<1>6. \E result \in {"Off", "Failed"} : Done(Answer(q, result))
  BY DEF Clear
<1>7. /\ answer' \in Outcome /\ answer'.key = q.key /\ answer'.order = q.order /\ answer'.lane = q.lane
      /\ answer'.result # "Written"
      /\ batch' = Tail(batch) /\ UNCHANGED <<loopVars, queue, newest>>
  BY <1>4, <1>5, <1>6 DEF Done
<1>8. /\ holds' \in [Records -> Versions \cup {None, Absent}] /\ memory' \in [Records -> Memory]
      /\ failed' \subseteq Keys /\ half' \subseteq Records /\ faults' \in 0 .. MaxFaults
      /\ \A s \in Records \ {r} : holds'[s] = holds[s] /\ memory'[s] = memory[s]
                                   /\ (s \in half' <=> s \in half)
      /\ r # None => holds'[r] # Absent /\ (memory'[r].current = holds'[r] \/ r \in half')
      /\ \A j \in Keys \ {q.key} : j \in failed' <=> j \in failed
  <2>0. r \in Records \cup {None} /\ (r # None => holds[r] # Absent)
        /\ (r # None => memory[r].current = holds[r] \/ r \in half)
    BY <1>2, <1>3 DEF RecorderInv, MemoryInv
  <2>1. CASE /\ r = None /\ failed' = failed \ {q.key} /\ UNCHANGED <<holds, memory, half, faults>>
    BY <1>3, <2>1
  <2> DEFINE cleared == [memory[r] EXCEPT !.current = None, !.order = q.order]
             ordered == [memory[r] EXCEPT !.order = q.order]
  <2>2. r # None => /\ memory[r] \in Memory
                    /\ cleared \in Memory /\ cleared.current = None
                    /\ ordered \in Memory /\ ordered.current = memory[r].current
    BY <1>2, <1>3, <2>0, RequestFields DEF Memory, Order
  <2>3. CASE /\ r # None /\ holds' = [holds EXCEPT ![r] = None]
             /\ memory' = [memory EXCEPT ![r].current = None, ![r].order = q.order]
             /\ half' = half \ {r} /\ failed' = failed \ {q.key} /\ UNCHANGED faults
    <3>1. memory' = [memory EXCEPT ![r] = cleared]
      <4> DEFINE first == [memory EXCEPT ![r].current = None]
      <4>1. first = [memory EXCEPT ![r] = [memory[r] EXCEPT !.current = None]]
        OBVIOUS
      <4>2. first[r] = [memory[r] EXCEPT !.current = None] /\ first \in [Records -> Memory]
        BY <1>3, <2>0, <2>3, <4>1 DEF Memory
      <4>3. memory' = [first EXCEPT ![r].order = q.order]
        BY <2>3
      <4>4. cleared = [[memory[r] EXCEPT !.current = None] EXCEPT !.order = q.order]
        OBVIOUS
      <4>5. memory' = [first EXCEPT ![r] = [first[r] EXCEPT !.order = q.order]]
        BY <4>3
      <4>6. memory' = [first EXCEPT ![r] = cleared]
        BY <4>2, <4>4, <4>5
      <4> HIDE DEF cleared
      <4> QED BY <1>3, <2>0, <2>3, <4>1, <4>6
    <3> HIDE DEF cleared, ordered, q, r
    <3> QED BY <1>3, <2>0, <2>2, <2>3, <3>1, NoneIsNobody
  <2>4. CASE /\ r # None /\ Fault /\ failed' = failed \cup {q.key}
             /\ memory' = [memory EXCEPT ![r].order = q.order]
             /\ \/ UNCHANGED <<holds, half>>
                \/ /\ holds' = [holds EXCEPT ![r] = None]
                   /\ half' = half \cup {r}
    <3>1. memory' = [memory EXCEPT ![r] = ordered]
      BY <2>4
    <3>2. faults' \in 0 .. MaxFaults
      BY <1>3, <2>4, RecorderAssumption DEF Fault
    <3>3. q.key \in Keys
      BY <1>2
    <3> HIDE DEF cleared, ordered, q, r
    <3> QED BY <1>3, <2>0, <2>2, <2>4, <3>1, <3>2, <3>3, NoneIsNobody
  <2> QED BY <2>1, <2>3, <2>4 DEF Clear
<1>9. TypeOK'
  <2>1. ASSUME NEW k \in Keys, owned'[k] # None PROVE holds'[owned'[k]] # Absent
    BY <1>1, <1>3, <1>8, <2>1
  <2> QED BY <1>1, <1>2, <1>3, <1>7, <1>8, <2>1, WorkerTyped
<1>10. Does(q)
  <2>1. \A s \in Records : Elsewhere(q, s) => s # r
    BY <1>2, NoneIsNobody
  <2>2. owned'[q.key] = r
    BY <1>1
  <2> QED BY <1>1, <1>2, <1>7, <1>8, <2>1, <2>2 DEF Does
<1> HIDE DEF q, r
<1> QED BY <1>7, <1>9, <1>10, DoesKeeps

LEMMA EndHand ==
    ASSUME RecorderInv, End, NEW q, q = Head(batch)
    PROVE  /\ batch # <<>> /\ q \in Request /\ q.op = "End" /\ q.key \in Keys
           /\ fate[q.key] = q.ending /\ q.ending \in {"Retire", "Keep"}
           /\ owned[q.key] # None => ~Elsewhere(q, owned[q.key])
           /\ ended' = ended \cup {q.key} /\ q.key \notin ended
<1>1. batch # <<>> /\ q.op = "End" /\ q.key \notin ended /\ ended' = ended \cup {q.key}
  BY DEF End, Wanted, Due
<1>2. q \in Request /\ WellFormed(q)
  BY <1>1, AtHand
<1>3. q.key \in Keys
  BY <1>1, <1>2, RequestFields DEF WellFormed
<1> QED BY <1>1, <1>2, <1>3, AtHand DEF WellFormed

LEMMA EndKeeps ==
    ASSUME RecorderInv, End
    PROVE  RecorderInv'
<1> DEFINE q == Head(batch)
           r == owned[q.key]
<1>1. /\ batch # <<>> /\ q \in Request /\ q.op = "End" /\ q.key \in Keys
      /\ (r # None => ~Elsewhere(q, r)) /\ ended' = ended \cup {q.key}
  BY EndHand
<1>2. /\ owned' = [owned EXCEPT ![q.key] = None] /\ UNCHANGED <<running, memory, half>>
      /\ answer' = None /\ batch' = Tail(batch) /\ UNCHANGED <<loopVars, queue, newest>>
  BY DEF End, Done
<1>3. /\ owned \in [Keys -> Records \cup {None}] /\ ended \subseteq Keys /\ running \in BOOLEAN
      /\ holds \in [Records -> Versions \cup {None, Absent}] /\ memory \in [Records -> Memory]
      /\ failed \subseteq Keys /\ half \subseteq Records /\ faults \in 0 .. MaxFaults
      /\ \A k \in Keys : owned[k] # None => holds[owned[k]] # Absent
  BY DEF RecorderInv, TypeOK
<1>4. r \in Records \cup {None}
  BY <1>1, <1>3
<1>5. /\ \A s \in Records \ {r} : holds'[s] = holds[s]
      /\ holds' \in [Records -> Versions \cup {None, Absent}]
      /\ failed' \subseteq Keys /\ faults' \in 0 .. MaxFaults
      /\ \A j \in Keys \ {q.key} : j \in failed' <=> j \in failed
  <2>1. CASE UNCHANGED <<holds, failed, faults>>
    BY <1>3, <2>1
  <2>2. CASE r # None /\ holds' = [holds EXCEPT ![r] = Absent] /\ UNCHANGED <<failed, faults>>
    BY <1>3, <1>4, <2>2
  <2>3. CASE /\ r # None /\ Fault /\ failed' = failed \cup {q.key}
             /\ \E left \in {holds[r], None} : holds' = [holds EXCEPT ![r] = left]
    <3>1. faults' \in 0 .. MaxFaults
      BY <1>3, <2>3, RecorderAssumption DEF Fault
    <3>2. failed' \subseteq Keys
      BY <1>1, <1>3, <2>3
    <3> HIDE DEF q, r
    <3> QED BY <1>3, <1>4, <2>3, <3>1, <3>2
  <2> QED BY <2>1, <2>2, <2>3 DEF End
<1>6. owned' \in [Keys -> Records \cup {None}] /\ owned'[q.key] = None
      /\ \A j \in Keys \ {q.key} : owned'[j] = owned[j]
  BY <1>1, <1>2, <1>3
<1>7. \A s \in Records : Elsewhere(q, s) => s # r
  BY <1>1, NoneIsNobody
<1> HIDE DEF q, r
<1>8. TypeOK'
  <2>1. ASSUME NEW k \in Keys, owned'[k] # None PROVE holds'[owned'[k]] # Absent
    <3>1. k # q.key /\ owned'[k] = owned[k] /\ owned[k] \in Records
      BY <1>3, <1>6, <2>1
    <3>2. Elsewhere(q, owned[k])
      BY <3>1 DEF Elsewhere
    <3> QED BY <1>3, <1>5, <1>7, <2>1, <3>1, <3>2
  <2>2. ended' \subseteq Keys
    BY <1>1, <1>3
  <2> QED BY <1>1, <1>2, <1>3, <1>5, <1>6, <2>1, <2>2, WorkerTyped
<1>9. Does(q)
  <2>1. \A s \in Records : Elsewhere(q, s) => holds'[s] = holds[s]
    BY <1>5, <1>7
  <2> QED BY <1>1, <1>2, <1>5, <1>6, <2>1 DEF Does, q
<1> QED BY <1>2, <1>8, <1>9, DoesKeeps

LEMMA StopKeeps ==
    ASSUME RecorderInv, Stop
    PROVE  RecorderInv'
<1> DEFINE q == Head(batch)
<1>1. /\ batch # <<>> /\ q.op = "Stop" /\ running' = FALSE /\ owned' = [k \in Keys |-> None]
      /\ answer' = None /\ batch' = Tail(batch) /\ UNCHANGED <<loopVars, queue, newest>>
      /\ UNCHANGED <<ended, diskVars>>
  BY DEF Stop, Due, Done
<1>2. TypeOK'
  BY <1>1, WorkerTyped DEF RecorderInv, TypeOK, diskVars
<1>3. SentInv' /\ OrderInv' /\ LaneInv' /\ LatestInv' /\ NewestInv'
  BY <1>1, DropKeeps DEF loopVars
<1>4. /\ \A i \in DOMAIN Sent' : i \in Nat /\ i + 1 \in DOMAIN Sent /\ Sent'[i] = Sent[i + 1]
      /\ \A k : Pending(k)' => Pending(k)
  BY <1>1, Dropped, DropPending DEF RecorderInv
<1>5. LeaseInv'
  <2>1. \A k \in Keys : owned'[k] = None
    BY <1>1
  <2>2. ASSUME NEW k \in Keys, claims[k] # None
        PROVE  /\ holds[claims[k]] \in Versions /\ fate[k] = "unborn"
               /\ \A j \in Keys : claims[j] = claims[k] => j = k
               /\ \A i \in DOMAIN Sent' : Sent'[i].record # claims[k]
    BY <1>4, <2>2 DEF RecorderInv, LeaseInv
  <2>3. ASSUME NEW i \in DOMAIN Sent', Sent'[i].record # None
        PROVE  /\ holds[Sent'[i].record] \in Versions
               /\ \A j \in DOMAIN Sent' : Sent'[j].record = Sent'[i].record => j = i
    <3>1. i \in Nat /\ i + 1 \in DOMAIN Sent /\ Sent'[i] = Sent[i + 1]
      BY <1>4
    <3>2. holds[Sent'[i].record] \in Versions
          /\ \A j \in DOMAIN Sent : Sent[j].record = Sent'[i].record => j = i + 1
      BY <2>3, <3>1 DEF RecorderInv, LeaseInv
    <3>3. ASSUME NEW j \in DOMAIN Sent', Sent'[j].record = Sent'[i].record PROVE j = i
      <4>1. j \in Nat /\ j + 1 \in DOMAIN Sent /\ Sent'[j] = Sent[j + 1]
        BY <1>4
      <4>2. j + 1 = i + 1
        BY <3>2, <3>3, <4>1
      <4> QED BY <3>1, <4>1, <4>2
    <3> QED BY <3>2, <3>3
  <2>4. claims' = claims /\ holds' = holds /\ fate' = fate
    BY <1>1 DEF loopVars, diskVars
  <2> QED BY <2>1, <2>2, <2>3, <2>4 DEF LeaseInv, Owned
<1>6. MemoryInv' /\ DoneInv'
  BY <1>1 DEF MemoryInv, DoneInv
<1>7. WrittenInv'
  <2>1. \A k : Settled(k) => Settled(k)'
    BY <1>1, <1>4 DEF Settled, loopVars, diskVars
  <2>2. shared' = shared /\ last' = last /\ failed' = failed
    BY <1>1 DEF loopVars, diskVars
  <2>3. ASSUME NEW l \in Lanes, shared[l].status = "Written" PROVE Settled(shared[l].key)'
    <3> DEFINE k == shared[l].key
    <3>1. Settled(k) /\ shared'[l].key = k
      BY <2>2, <2>3 DEF RecorderInv, WrittenInv
    <3> HIDE DEF k
    <3>2. last'[k].dirty /\ k \notin failed' /\ ~(\E i \in DOMAIN Sent' : Asks(Sent'[i], k))
      BY <2>1, <3>1 DEF Settled, Pending, Asks
    <3> QED BY <3>1, <3>2 DEF Settled, Pending, Asks
  <2> QED BY <1>1, <2>2, <2>3 DEF WrittenInv
<1> QED BY <1>2, <1>3, <1>5, <1>6, <1>7 DEF RecorderInv

LEMMA PostKeeps ==
    ASSUME RecorderInv, Post
    PROVE  RecorderInv'
<1> DEFINE l == answer.lane
           due == shared[l].key = answer.key /\ answer.order \in {0, shared[l].requested}
<1>1. /\ answer # None /\ answer' = None
      /\ shared' = IF ~due THEN shared
                   ELSE [shared EXCEPT ![l].status = answer.result,
                              ![l].done = IF answer.order > @ THEN answer.order ELSE @]
      /\ UNCHANGED <<lanes, last, fate, claims, queue, batch, newest, owned, ended, running, diskVars>>
  BY DEF Post
<1>2. Sent' = Sent
  BY <1>1 DEF Sent
<1>3. /\ answer \in Outcome /\ l \in Lanes /\ answer.order \in Nat /\ answer.result \in Status
      /\ shared \in [Lanes -> [key : Keys \cup {None}, requested : Nat, done : Nat, status : Status]]
      /\ \A m \in Lanes : shared[m].done <= shared[m].requested
  BY <1>1 DEF RecorderInv, TypeOK, Outcome, Order
<1>4. /\ shared' \in [Lanes -> [key : Keys \cup {None}, requested : Nat, done : Nat, status : Status]]
      /\ \A m \in Lanes : /\ shared'[m].key = shared[m].key /\ shared'[m].requested = shared[m].requested
                          /\ shared'[m].done <= shared'[m].requested
                          /\ shared'[m].status = IF due /\ m = l THEN answer.result ELSE shared[m].status
  <2>1. CASE ~due
    BY <1>1, <1>3, <2>1
  <2>2. CASE due
    <3> DEFINE done == IF answer.order > shared[l].done THEN answer.order ELSE shared[l].done
               told == [key |-> shared[l].key, requested |-> shared[l].requested, done |-> done,
                        status |-> answer.result]
               first == [shared EXCEPT ![l].status = answer.result]
    <3>1. done \in Nat /\ done <= shared[l].requested
      BY <1>3, <2>2
    <3>2. first[l] = [key |-> shared[l].key, requested |-> shared[l].requested,
                      done |-> shared[l].done, status |-> answer.result]
          /\ \A m \in Lanes \ {l} : first[m] = shared[m]
      BY <1>3
    <3> DEFINE Shown == [key : Keys \cup {None}, requested : Nat, done : Nat, status : Status]
    <3>10. first \in [Lanes -> Shown]
      BY <1>3
    <3>3. shared' = [first EXCEPT ![l].done = IF answer.order > @ THEN answer.order ELSE @]
      BY <1>1, <2>2
    <3>4. shared' = [first EXCEPT ![l] = [first[l] EXCEPT !.done = done]]
      <4>1. first[l].done = shared[l].done
        BY <3>2
      <4> HIDE DEF l, due, first
      <4> QED BY <3>3, <4>1
    <3> HIDE DEF first, done
    <3>5. [first[l] EXCEPT !.done = done] = told
      BY <3>2
    <3>6. shared' = [first EXCEPT ![l] = told]
      BY <3>4, <3>5
    <3>7. told \in [key : Keys \cup {None}, requested : Nat, done : Nat, status : Status]
      BY <1>3, <3>1
    <3>8. told.key = shared[l].key /\ told.requested = shared[l].requested /\ told.done = done
          /\ told.status = answer.result
      OBVIOUS
    <3>9. /\ shared'[l] = told /\ \A m \in Lanes \ {l} : shared'[m] = shared[m]
          /\ shared' \in [Lanes -> Shown]
      <4>1. told \in Shown
        BY <3>7
      <4> HIDE DEF told, l, due
      <4>2. l \in Lanes /\ \A m \in Lanes \ {l} : first[m] = shared[m]
        BY <1>3, <3>2
      <4> HIDE DEF Shown
      <4> QED BY <3>6, <3>10, <4>1, <4>2
    <3> HIDE DEF told, l, due
    <3> QED BY <1>3, <2>2, <3>1, <3>8, <3>9
  <2> QED BY <2>1, <2>2
<1> HIDE DEF l, due
<1>5. TypeOK'
  <2>1. shared' \in [Lanes -> [key : Keys \cup {None}, requested : Order, done : Order, status : Status]]
    BY <1>4 DEF Order
  <2> QED BY <1>1, <1>4, <2>1 DEF RecorderInv, TypeOK, diskVars
<1>6. SentInv' /\ OrderInv' /\ LatestInv' /\ NewestInv' /\ DoneInv' /\ LeaseInv' /\ MemoryInv'
  BY <1>1, <1>2 DEF RecorderInv, SentInv, OrderInv, LatestInv, NewestInv, DoneInv, LeaseInv, MemoryInv,
     WellFormed, Asks, Pending, Latest, Owned, UpToDate, diskVars
<1>7. LaneInv'
  <2>1. ASSUME NEW m \in Lanes, lanes[m].tracked = None PROVE shared'[m].status = "Off"
    <3>1. shared[m].key = None /\ shared[m].status = "Off"
      BY <2>1 DEF RecorderInv, LaneInv
    <3>2. answer.key \in Keys
      BY <1>3 DEF Outcome
    <3> QED BY <1>4, <3>1, <3>2, NoneIsNobody DEF due
  <2> QED BY <1>1, <1>2, <1>4, <2>1 DEF RecorderInv, LaneInv, Asks
<1>8. WrittenInv'
  <2>1. ASSUME NEW m \in Lanes, shared'[m].status = "Written"
        PROVE  /\ last[shared[m].key].dirty /\ shared[m].key \notin failed
               /\ ~(\E i \in DOMAIN Sent : Asks(Sent[i], shared[m].key))
    <3>1. CASE due /\ m = l
      <4>1. answer.result = "Written" /\ shared[l].key = answer.key /\ answer.order \in {0, shared[l].requested}
        BY <1>4, <2>1, <3>1 DEF due
      <4>2. answer.order >= 1
        BY <1>1, <4>1 DEF RecorderInv, WrittenInv
      <4>3. Settled(answer.key)
        BY <1>1, <1>3, <4>1, <4>2 DEF RecorderInv, WrittenInv, l
      <4> QED BY <3>1, <4>1, <4>3 DEF Settled, Pending
    <3>2. CASE ~(due /\ m = l)
      <4>1. shared[m].status = "Written"
        BY <1>4, <2>1, <3>2
      <4> QED BY <4>1 DEF RecorderInv, WrittenInv, Settled, Pending
    <3> QED BY <3>1, <3>2
  <2>2. last' = last /\ failed' = failed
    BY <1>1 DEF diskVars
  <2> QED BY <1>1, <1>2, <1>4, <2>1, <2>2 DEF WrittenInv, Settled, Pending, Asks
<1> QED BY <1>5, <1>6, <1>7, <1>8 DEF RecorderInv

(* The newest number among the requests of a document in a batch is that   *)
(* of the latest one.                                                      *)
LEMMA NewestOfBatch ==
    ASSUME NEW b \in Seq(Request), NEW k \in Keys, NEW i \in DOMAIN b, Asks(b[i], k),
           \A j \in DOMAIN b : b[j].key = k => b[j].order <= b[i].order
    PROVE  Newest(b)[k] = b[i].order
<1> DEFINE orders == {b[m].order : m \in {j \in DOMAIN b : b[j].key = k}}
<1>1. b[i].order \in orders /\ b[i].order \in Nat
  <2>1. b[i] \in Request
    BY LenProperties, ElementOfSeq
  <2> QED BY <2>1, RequestFields DEF Asks
<1>2. \A o \in orders \cup {0} : o <= b[i].order /\ o \in Nat
  <2>1. \A j \in DOMAIN b : b[j].order \in Nat
    BY LenProperties, ElementOfSeq, RequestFields
  <2> QED BY <1>1, <2>1
<1>3. Newest(b)[k] = CHOOSE most \in orders \cup {0} : \A o \in orders : o <= most
  BY DEF Newest
<1> HIDE DEF orders
<1>4. \E most \in orders \cup {0} : \A o \in orders : o <= most
  BY <1>1, <1>2
<1>5. /\ Newest(b)[k] \in orders \cup {0}
      /\ \A o \in orders : o <= Newest(b)[k]
  BY <1>3, <1>4
<1> QED BY <1>1, <1>2, <1>5

LEMMA NewestIsFunction ==
    ASSUME NEW b
    PROVE  DOMAIN Newest(b) = Keys /\ Newest(b) = [k \in Keys |-> Newest(b)[k]]
<1> DEFINE orders(k) == {b[i].order : i \in {j \in DOMAIN b : b[j].key = k}}
           newestOf(k) == CHOOSE most \in orders(k) \cup {0} : \A o \in orders(k) : o <= most
<1>1. Newest(b) = [k \in Keys |-> newestOf(k)]
  BY DEF Newest
<1> HIDE DEF newestOf
<1> QED BY <1>1

LEMMA NewestOfNone ==
    ASSUME NEW b \in Seq(Request), NEW k \in Keys, \A j \in DOMAIN b : b[j].key = k => b[j].order = 0
    PROVE  Newest(b)[k] = 0
<1> DEFINE orders == {b[m].order : m \in {j \in DOMAIN b : b[j].key = k}}
<1>1. orders \cup {0} = {0}
  OBVIOUS
<1>2. Newest(b)[k] = CHOOSE most \in orders \cup {0} : \A o \in orders : o <= most
  BY DEF Newest
<1>3. \E most \in orders \cup {0} : \A o \in orders : o <= most
  BY <1>1
<1> HIDE DEF orders
<1> QED BY <1>1, <1>2, <1>3

(* In a batch taken with the requests of each document in order, the       *)
(* newest number is the latest request's, and is a number.                 *)
LEMMA NewestIsLatest ==
    ASSUME RecorderInv, NEW n \in 0 .. Len(Sent), NEW b \in Seq(Request), Len(b) = n,
           \A i \in 1 .. n : b[i] = Sent[i], NEW k \in Keys
    PROVE  /\ Newest(b)[k] \in Nat
           /\ \A i \in 1 .. n : Latest(k, i) => Newest(b)[k] = Sent[i].order
<1> DEFINE asked == {i \in 0 .. n : i # 0 /\ Asks(Sent[i], k)}
<1>0. DOMAIN b = 1 .. n /\ n \in Nat /\ DOMAIN Sent = 1 .. Len(Sent) /\ Len(Sent) \in Nat
      /\ \A i \in DOMAIN Sent : Sent[i] \in Request /\ WellFormed(Sent[i])
  BY LenProperties, SentSeq DEF RecorderInv, SentInv
<1>1. CASE asked = {}
  <2>1. ASSUME NEW j \in DOMAIN b, b[j].key = k PROVE b[j].order = 0
    <3>1. j \in 1 .. n /\ b[j] = Sent[j] /\ j \in DOMAIN Sent
      BY <1>0
    <3>2. ~Asks(Sent[j], k) /\ Sent[j].key # None /\ Sent[j] \in Request /\ WellFormed(Sent[j])
      BY <1>0, <1>1, <2>1, <3>1, NoneIsNobody
    <3> QED BY <2>1, <3>1, <3>2, RequestFields DEF Asks, WellFormed
  <2>2. Newest(b)[k] = 0
    BY <2>1, NewestOfNone
  <2>3. \A i \in 1 .. n : ~Latest(k, i)
    BY <1>0, <1>1 DEF Latest
  <2> QED BY <2>2, <2>3
<1>2. CASE asked # {}
  <2>1. PICK i \in asked : \A j \in asked : j <= i
    <3>1. asked \in SUBSET (0 .. n)
      OBVIOUS
    <3>2. PICK e \in asked : TRUE
      BY <1>2
    <3> HIDE DEF asked
    <3> QED BY <1>0, <3>1, <3>2, GreatestIn
  <2>2. i \in 1 .. n /\ i \in DOMAIN b /\ Asks(Sent[i], k) /\ i \in DOMAIN Sent /\ b[i] = Sent[i]
    BY <1>0, <2>1
  <2>3. ASSUME NEW j \in DOMAIN b, b[j].key = k PROVE b[j].order <= b[i].order
    <3>1. j \in 1 .. n /\ b[j] = Sent[j] /\ j \in DOMAIN Sent /\ Sent[j] \in Request /\ WellFormed(Sent[j])
      BY <1>0
    <3>2. Sent[i].order \in Nat /\ Sent[j].order \in Nat /\ k # None
      BY <1>0, <2>2, <3>1, RequestFields, NoneIsNobody
    <3>3. CASE Asks(Sent[j], k)
      <4>1. j <= i
        BY <2>1, <3>1, <3>3
      <4>2. CASE j = i
        BY <3>1, <3>2, <4>2
      <4>3. CASE j < i
        BY <2>2, <3>1, <3>2, <3>3, <4>3 DEF RecorderInv, OrderInv, Asks
      <4> QED BY <2>2, <3>1, <4>1, <4>2, <4>3
    <3>4. CASE ~Asks(Sent[j], k)
      <4>1. Sent[j].order = 0
        BY <2>3, <3>1, <3>2, <3>4, RequestFields DEF Asks, WellFormed
      <4> QED BY <2>2, <3>1, <3>2, <4>1
    <3> QED BY <3>3, <3>4
  <2>4. Newest(b)[k] = Sent[i].order
    BY <2>2, <2>3, NewestOfBatch
  <2>5. ASSUME NEW m \in 1 .. n, Latest(k, m) PROVE m = i
    <3>1. i <= m
      BY <2>2, <2>5 DEF Latest
    <3>2. m <= i
      BY <2>1, <2>5 DEF Latest
    <3> QED BY <2>2, <3>1, <3>2
  <2> QED BY <1>0, <2>2, <2>4, <2>5, RequestFields
<1> QED BY <1>1, <1>2

LEMMA TakeKeeps ==
    ASSUME RecorderInv, Take
    PROVE  RecorderInv'
<1>1. PICK n \in 1 .. Len(queue) :
         /\ batch' = SubSeq(queue, 1, n) /\ newest' = Newest(batch')
         /\ queue' = SubSeq(queue, n + 1, Len(queue))
  BY DEF Take
<1>2. batch = <<>> /\ answer = None /\ UNCHANGED <<loopVars, owned, ended, answer, running, diskVars>>
  BY DEF Take
<1>3. queue \in Seq(Request) /\ Len(queue) \in Nat /\ \A i \in 1 .. Len(queue) : queue[i] \in Request
  BY ElementOfSeq, LenProperties DEF RecorderInv, TypeOK
<1>4. Sent = queue
  BY <1>2, <1>3, ConcatEmptySeq DEF Sent
<1>5. Sent' = Sent
  <2>1. SubSeq(queue, 1, n) \o SubSeq(queue, n + 1, Len(queue)) = SubSeq(queue, 1, Len(queue))
    BY <1>3, ConcatAdjacentSubSeq
  <2> QED BY <1>1, <1>3, <1>4, <2>1, SubSeqFull DEF Sent
<1>6. /\ batch' \in Seq(Request) /\ Len(batch') = n /\ \A i \in 1 .. n : batch'[i] = queue[i]
      /\ queue' \in Seq(Request)
  <2>1. \A i \in 1 .. n : queue[i] \in Request
    BY <1>3
  <2>2. \A i \in (n + 1) .. Len(queue) : queue[i] \in Request
    BY <1>3
  <2>3. /\ SubSeq(queue, 1, n) \in Seq(Request) /\ Len(SubSeq(queue, 1, n)) = n
        /\ \A i \in 1 .. n : SubSeq(queue, 1, n)[i] = queue[i]
    <3>1. /\ SubSeq(queue, 1, n) \in Seq(Request)
          /\ Len(SubSeq(queue, 1, n)) = IF 1 <= n THEN n - 1 + 1 ELSE 0
          /\ \A i \in 1 .. n - 1 + 1 : SubSeq(queue, 1, n)[i] = queue[1 + i - 1]
      BY <2>1, SubSeqProperties
    <3> QED BY <3>1
  <2>4. SubSeq(queue, n + 1, Len(queue)) \in Seq(Request)
    BY <1>3, <2>2, SubSeqProperties
  <2> QED BY <1>1, <2>3, <2>4
<1>7. ASSUME NEW k \in Keys
      PROVE  /\ newest'[k] \in Nat
             /\ \A i \in 1 .. n : Latest(k, i) => newest'[k] = Sent[i].order
  <2> DEFINE b == SubSeq(queue, 1, n)
  <2>1. b \in Seq(Request) /\ Len(b) = n /\ n \in 0 .. Len(Sent) /\ \A i \in 1 .. n : b[i] = Sent[i]
    BY <1>1, <1>3, <1>4, <1>6
  <2>2. newest' = Newest(b)
    BY <1>1
  <2> HIDE DEF b
  <2>3. /\ Newest(b)[k] \in Nat
        /\ \A i \in 1 .. n : Latest(k, i) => Newest(b)[k] = Sent[i].order
    BY <2>1, NewestIsLatest
  <2> QED BY <2>2, <2>3
<1>8. TypeOK'
  <2>1. newest' \in [Keys -> Order]
    <3>1. DOMAIN newest' = Keys /\ newest' = [k \in Keys |-> newest'[k]]
      BY <1>1, NewestIsFunction
    <3> QED BY <1>7, <3>1 DEF Order
  <2> QED BY <1>2, <1>6, <2>1 DEF RecorderInv, TypeOK, loopVars, diskVars
<1>9. NewestInv'
  <2>1. ASSUME NEW k \in Keys, NEW i \in DOMAIN Sent, Latest(k, i), i <= n PROVE newest'[k] = Sent[i].order
    <3>1. i \in 1 .. n
      BY <1>3, <1>4, <2>1, LenProperties
    <3> QED BY <1>7, <2>1, <3>1
  <2> QED BY <1>5, <1>6, <2>1 DEF NewestInv, Latest, Asks
<1>10. SentInv' /\ OrderInv' /\ LaneInv' /\ LeaseInv' /\ MemoryInv' /\ LatestInv' /\ DoneInv' /\ WrittenInv'
  BY <1>2, <1>5 DEF RecorderInv, SentInv, OrderInv, LaneInv, LatestInv, DoneInv, LeaseInv, MemoryInv,
     WrittenInv, WellFormed, Asks, Pending, Latest, Owned, UpToDate, Settled, loopVars, diskVars
<1> QED BY <1>8, <1>9, <1>10 DEF RecorderInv

-----------------------------------------------------------------------------
(* A step of the event loop, as the invariant sees it.                     *)

(* Lane l leaves the document it tracked, which ends as how says, and      *)
(* tracks k, which is new or the same: it asks once for k, after the claim *)
(* that k brings along.  Without a k the lane is finished.                 *)
Says(l, k, how, more) ==
    LET old == lanes[l].tracked
    IN  /\ l \in Lanes /\ k \in Keys \cup {None} /\ how \in {"Retire", "Keep"}
        /\ k # None => fate[k] = "unborn" \/ k = old
        /\ more \in Seq(Request) /\ queue' = queue \o more
        /\ \A i \in 1 .. Len(more) :
              \/ /\ more[i].op = "End" /\ more[i].key = old /\ more[i].ending = how
                 /\ more[i].order = 0 /\ more[i].record = None /\ more[i].lane = None
                 /\ old \notin {None, k}
              \/ /\ more[i].op = "Adopt" /\ more[i].key = k /\ more[i].record = claims[k]
                 /\ more[i].order = 0 /\ more[i].lane = l /\ k # None /\ claims[k] # None
                 /\ i < Len(more)
              \/ /\ more[i].op = "Stop" /\ more[i].key = None /\ more[i].record = None
                 /\ more[i].order = 0 /\ more[i].lane = None /\ k = None
              \/ /\ Asks(more[i], k) /\ more[i].order = lanes'[l].order /\ more[i].lane = l
                 /\ more[i].record = None /\ k # None /\ i = Len(more)
                 /\ IF last'[k].dirty
                    THEN /\ more[i].op = "Checkpoint" /\ more[i].version = last'[k].version
                         /\ more[i].version \in Versions
                    ELSE more[i].op = "Clear"
        /\ \A i, j \in 1 .. Len(more) : more[i].op = more[j].op => i = j
        /\ k # None => Len(more) >= 1 /\ Asks(more[Len(more)], k)
        /\ fate' = [f \in Keys |-> IF f = k THEN "open" ELSE IF f = old THEN how ELSE fate[f]]
        /\ lanes' \in [Lanes -> [order : Order, tracked : Keys \cup {None}, live : BOOLEAN]]
        /\ \A m \in Lanes \ {l} : lanes'[m] = lanes[m]
        /\ lanes'[l].tracked = k /\ (k # None => lanes'[l].live /\ lanes'[l].order = lanes[l].order + 1)
        /\ lanes'[l].order >= lanes[l].order
        /\ shared' \in [Lanes -> [key : Keys \cup {None}, requested : Order, done : Order,
                                  status : Status]]
        /\ \A m \in Lanes \ {l} : shared'[m] = shared[m]
        /\ shared'[l].key = k /\ shared'[l].done <= shared'[l].requested
        /\ shared'[l].status # "Written" /\ (k = None => shared'[l].status = "Off")
        /\ shared'[l].requested = lanes'[l].order
        /\ last' \in [Keys -> [version : Versions \cup {None}, dirty : BOOLEAN]]
        /\ \A j \in Keys \ {k} : last'[j] = last[j]
        /\ claims' \in [Keys -> Records \cup {None}]
        /\ \A j \in Keys : claims'[j] = IF j = k THEN None ELSE claims[j]
        /\ UNCHANGED <<workVars, diskVars>>

(* What was sent stays where it is, and what is said comes after it.       *)
LEMMA Grown ==
    ASSUME TypeOK, NEW more \in Seq(Request), queue' = queue \o more, batch' = batch
    PROVE  /\ queue' \in Seq(Request) /\ Len(more) \in Nat /\ Len(Sent) \in Nat
           /\ DOMAIN Sent = 1 .. Len(Sent) /\ DOMAIN Sent' = 1 .. Len(Sent) + Len(more)
           /\ Len(Sent) >= Len(batch)
           /\ \A i \in DOMAIN Sent : i \in DOMAIN Sent' /\ Sent'[i] = Sent[i]
           /\ \A i \in DOMAIN Sent' : i \notin DOMAIN Sent =>
                 i - Len(Sent) \in 1 .. Len(more) /\ Sent'[i] = more[i - Len(Sent)]
           /\ \A i \in 1 .. Len(more) : Len(Sent) + i \in DOMAIN Sent' /\ Sent'[Len(Sent) + i] = more[i]
<1>1. batch \in Seq(Request) /\ queue \in Seq(Request)
  BY DEF TypeOK
<1>2. Sent' = Sent \o more
  BY SMTT(60), <1>1, ConcatAssociative DEF Sent
<1>3. Sent \in Seq(Request) /\ Len(Sent) \in Nat /\ DOMAIN Sent = 1 .. Len(Sent)
      /\ Len(Sent) = Len(batch) + Len(queue) /\ Len(batch) \in Nat /\ Len(queue) \in Nat
  BY SentSeq
<1>4. /\ Sent' \in Seq(Request) /\ Len(Sent') = Len(Sent) + Len(more)
      /\ \A i \in 1 .. Len(Sent) + Len(more) : Sent'[i] =
            IF i <= Len(Sent) THEN Sent[i] ELSE more[i - Len(Sent)]
  <2> DEFINE sent == Sent
  <2>1. sent \in Seq(Request)
    BY <1>3
  <2> HIDE DEF sent
  <2>2. /\ sent \o more \in Seq(Request) /\ Len(sent \o more) = Len(sent) + Len(more)
        /\ \A i \in 1 .. Len(sent) + Len(more) : (sent \o more)[i] =
              IF i <= Len(sent) THEN sent[i] ELSE more[i - Len(sent)]
    BY <2>1, ConcatProperties
  <2> QED BY <1>2, <2>2 DEF sent
<1>5. queue' \in Seq(Request) /\ Len(more) \in Nat /\ DOMAIN Sent' = 1 .. Len(Sent) + Len(more)
  <2>1. queue' \in Seq(Request)
    BY <1>1, ConcatProperties
  <2>2. Len(more) \in Nat
    BY LenProperties
  <2>3. DOMAIN Sent' = 1 .. Len(Sent')
    BY <1>4, LenProperties
  <2> QED BY <1>4, <2>1, <2>2, <2>3
<1>6. Len(Sent) >= Len(batch)
  BY <1>3
<1>7. \A i \in DOMAIN Sent : i \in DOMAIN Sent' /\ Sent'[i] = Sent[i]
  <2> TAKE i \in DOMAIN Sent
  <2>1. i \in 1 .. Len(Sent) /\ i \in 1 .. Len(Sent) + Len(more) /\ i <= Len(Sent)
    BY <1>3, <1>5
  <2> QED BY <1>4, <1>5, <2>1
<1>8. \A i \in DOMAIN Sent' : i \notin DOMAIN Sent =>
         i - Len(Sent) \in 1 .. Len(more) /\ Sent'[i] = more[i - Len(Sent)]
  <2> TAKE i \in DOMAIN Sent'
  <2> HAVE i \notin DOMAIN Sent
  <2>1. i \in 1 .. Len(Sent) + Len(more) /\ ~(i \in 1 .. Len(Sent))
    BY <1>3, <1>5
  <2>2. ~(i <= Len(Sent)) /\ i - Len(Sent) \in 1 .. Len(more)
    BY <1>3, <1>5, <2>1
  <2> QED BY <1>4, <2>1, <2>2
<1>9. \A i \in 1 .. Len(more) : Len(Sent) + i \in DOMAIN Sent' /\ Sent'[Len(Sent) + i] = more[i]
  <2> TAKE i \in 1 .. Len(more)
  <2>1. Len(Sent) + i \in 1 .. Len(Sent) + Len(more) /\ ~(Len(Sent) + i <= Len(Sent))
        /\ (Len(Sent) + i) - Len(Sent) = i
    BY <1>3, <1>5
  <2> QED BY <1>4, <1>5, <2>1
<1> QED BY <1>3, <1>5, <1>6, <1>7, <1>8, <1>9

(* The documents a lane leaves and takes.                                  *)
LEMMA SaysFates ==
    ASSUME RecorderInv, NEW l, NEW k, NEW how, NEW more, Says(l, k, how, more),
           NEW old, old = lanes[l].tracked
    PROVE  /\ old \in Keys \cup {None} /\ (old # None => fate[old] = "open")
           /\ k \in Keys /\ fate[k] # "unborn" => k = old
           /\ k \in Keys /\ claims[k] # None => fate[k] = "unborn" /\ k # old
           /\ \A j \in Keys : j \notin {k, old} => fate'[j] = fate[j]
           /\ \A j \in Keys : fate[j] # "unborn" => fate'[j] # "unborn"
           /\ \A j \in Keys : fate[j] \in {"Retire", "Keep"} => fate'[j] = fate[j] /\ j # k /\ j # old
           /\ \A j \in Keys : fate[j] = "unborn" /\ j # k => fate'[j] = "unborn"
           /\ k \in Keys => fate'[k] = "open"
           /\ old \in Keys /\ old # k => fate'[old] = how
           /\ \A m \in Lanes \ {l} : lanes[m].tracked # None => lanes[m].tracked \notin {k, old}
           /\ \A i \in DOMAIN Sent : Sent[i].key = k /\ k # None => k = old
           /\ batch' = batch
<1>1. l \in Lanes /\ k \in Keys \cup {None} /\ how \in {"Retire", "Keep"}
      /\ (k # None => fate[k] = "unborn" \/ k = old)
      /\ fate' = [f \in Keys |-> IF f = k THEN "open" ELSE IF f = old THEN how ELSE fate[f]]
  BY DEF Says
<1>2. old \in Keys \cup {None} /\ (old # None => fate[old] = "open")
  BY <1>1 DEF RecorderInv, TypeOK, LaneInv
<1>3. k \in Keys /\ claims[k] # None => fate[k] = "unborn"
  BY DEF RecorderInv, LeaseInv
<1>4. ASSUME NEW m \in Lanes \ {l}, lanes[m].tracked # None PROVE lanes[m].tracked \notin {k, old}
  <2>1. fate[lanes[m].tracked] = "open" /\ lanes[m].tracked # old
    BY <1>1, <1>4 DEF RecorderInv, LaneInv
  <2> QED BY <1>1, <1>4, <2>1
<1>5. \A i \in DOMAIN Sent : Sent[i].key = k /\ k # None => k = old
  BY <1>1 DEF RecorderInv, SentInv
<1>6. batch' = batch
  BY DEF Says, workVars
<1> QED BY <1>1, <1>2, <1>3, <1>4, <1>5, <1>6, NoneIsNobody

LEMMA SaysSent ==
    ASSUME RecorderInv, NEW l, NEW k, NEW how, NEW more, Says(l, k, how, more)
    PROVE  SentInv' /\ OrderInv'
<1> DEFINE old == lanes[l].tracked
<1>1. /\ l \in Lanes /\ k \in Keys \cup {None} /\ how \in {"Retire", "Keep"}
      /\ more \in Seq(Request) /\ queue' = queue \o more /\ batch' = batch
      /\ (k # None => lanes'[l].order = lanes[l].order + 1) /\ lanes[l].order \in Nat
      /\ TypeOK
  <2>1. l \in Lanes /\ k \in Keys \cup {None} /\ how \in {"Retire", "Keep"}
        /\ more \in Seq(Request) /\ queue' = queue \o more
        /\ (k # None => lanes'[l].order = lanes[l].order + 1)
    BY DEF Says
  <2>2. batch' = batch
    BY SaysFates
  <2>3. TypeOK /\ lanes[l].order \in Nat
    BY <2>1 DEF RecorderInv, TypeOK, Order
  <2> QED BY <2>1, <2>2, <2>3
<1>2. \A i \in 1 .. Len(more) :
              \/ /\ more[i].op = "End" /\ more[i].key = old /\ more[i].ending = how
                 /\ more[i].order = 0 /\ more[i].record = None /\ old \notin {None, k}
              \/ /\ more[i].op = "Adopt" /\ more[i].key = k /\ more[i].record = claims[k]
                 /\ more[i].order = 0 /\ more[i].lane = l /\ k # None /\ claims[k] # None
                 /\ i < Len(more)
              \/ more[i].op = "Stop" /\ more[i].key = None /\ more[i].record = None
              \/ /\ Asks(more[i], k) /\ more[i].order = lanes'[l].order /\ more[i].lane = l
                 /\ more[i].record = None /\ k # None /\ i = Len(more)
                 /\ more[i].op = "Checkpoint" => more[i].version \in Versions
  BY DEF Says, Asks
<1>3. /\ \A i, j \in 1 .. Len(more) : more[i].op = more[j].op => i = j
      /\ k # None => Len(more) >= 1 /\ Asks(more[Len(more)], k)
  BY DEF Says
<1>4. /\ old \in Keys \cup {None} /\ (old # None => fate[old] = "open")
      /\ k \in Keys /\ fate[k] # "unborn" => k = old
      /\ k \in Keys /\ claims[k] # None => fate[k] = "unborn" /\ k # old
      /\ \A j \in Keys : fate[j] # "unborn" => fate'[j] # "unborn"
      /\ \A j \in Keys : fate[j] \in {"Retire", "Keep"} => fate'[j] = fate[j] /\ j # k /\ j # old
      /\ k \in Keys => fate'[k] = "open"
      /\ old \in Keys /\ old # k => fate'[old] = how
      /\ \A i \in DOMAIN Sent : Sent[i].key = k /\ k # None => k = old
  BY SaysFates
<1> HIDE DEF old
<1>5. /\ Len(more) \in Nat /\ Len(Sent) \in Nat
      /\ DOMAIN Sent = 1 .. Len(Sent) /\ DOMAIN Sent' = 1 .. Len(Sent) + Len(more)
      /\ \A i \in DOMAIN Sent : i \in DOMAIN Sent' /\ Sent'[i] = Sent[i]
      /\ \A i \in DOMAIN Sent' : i \notin DOMAIN Sent =>
            i - Len(Sent) \in 1 .. Len(more) /\ Sent'[i] = more[i - Len(Sent)]
      /\ \A i \in 1 .. Len(more) : Len(Sent) + i \in DOMAIN Sent' /\ Sent'[Len(Sent) + i] = more[i]
  BY <1>1, Grown
<1>6. SentInv'
  <2> SUFFICES ASSUME NEW i \in DOMAIN Sent'
               PROVE  /\ WellFormed(Sent'[i])
                      /\ Sent'[i].key # None => fate'[Sent'[i].key] # "unborn"
                      /\ Sent'[i].op = "End" => fate'[Sent'[i].key] = Sent'[i].ending
    BY DEF SentInv, WellFormed
  <2>1. CASE i \in DOMAIN Sent
    <3>1. Sent'[i] = Sent[i] /\ WellFormed(Sent[i]) /\ Sent[i] \in Request
          /\ (Sent[i].key # None => fate[Sent[i].key] # "unborn")
          /\ (Sent[i].op = "End" => fate[Sent[i].key] = Sent[i].ending)
      BY <1>1, <1>5, <2>1, SentSeq DEF RecorderInv, SentInv
    <3>2. Sent[i].key \in Keys \cup {None}
      BY <3>1, RequestFields
    <3>3. Sent[i].op = "End" => Sent[i].key \in Keys /\ fate[Sent[i].key] \in {"Retire", "Keep"}
      BY <3>1, <3>2 DEF WellFormed
    <3> QED BY <1>4, <3>1, <3>2, <3>3
  <2>2. CASE i \notin DOMAIN Sent
    <3> DEFINE j == i - Len(Sent)
    <3>1. j \in 1 .. Len(more) /\ Sent'[i] = more[j] /\ more[j] \in Request
      BY <1>1, <1>5, <2>2, ElementOfSeq
    <3> HIDE DEF j
    <3>2. CASE more[j].op = "End"
      BY ZenonT(60), <1>1, <1>2, <1>4, <3>1, <3>2, NoneIsNobody DEF WellFormed, Asks
    <3>3. CASE more[j].op = "Adopt"
      <4>1. /\ more[j].key = k /\ more[j].record = claims[k] /\ more[j].order = 0 /\ more[j].lane = l
            /\ k # None /\ claims[k] # None
        BY <1>2, <3>1, <3>3 DEF Asks
      <4>2. claims[k] \in Records
        BY <1>1, <4>1 DEF TypeOK
      <4> QED BY <1>1, <1>4, <3>1, <3>3, <4>1, <4>2 DEF WellFormed
    <3>4. CASE more[j].op = "Stop"
      BY <1>2, <3>1, <3>4 DEF WellFormed, Asks
    <3>5. CASE Asks(more[j], k)
      BY <1>1, <1>2, <1>4, <3>1, <3>5 DEF WellFormed, Asks
    <3> QED BY <1>2, <3>1, <3>2, <3>3, <3>4, <3>5
  <2> QED BY <2>1, <2>2
<1>7. ASSUME NEW i \in DOMAIN Sent', NEW j \in DOMAIN Sent', i < j,
             Sent'[i].key = Sent'[j].key, Sent'[i].key # None
      PROVE  /\ Sent'[i].op # "End" /\ Sent'[j].op # "Adopt"
             /\ Asks(Sent'[i], Sent'[i].key) /\ Asks(Sent'[j], Sent'[i].key) =>
                   Sent'[i].order < Sent'[j].order
  <2>1. CASE j \in DOMAIN Sent
    <3>1. i \in DOMAIN Sent
      BY <1>5, <1>7, <2>1
    <3> QED BY <1>5, <1>7, <2>1, <3>1 DEF RecorderInv, OrderInv
  <2>2. CASE i \in DOMAIN Sent /\ j \notin DOMAIN Sent
    <3> DEFINE n == j - Len(Sent)
    <3>1. n \in 1 .. Len(more) /\ Sent'[j] = more[n] /\ Sent'[i] = Sent[i] /\ Sent[i] \in Request
      BY <1>1, <1>5, <2>2, SentSeq
    <3> HIDE DEF n
    <3>2. more[n].key \in {old, k} /\ more[n].key # None
      BY <1>2, <1>7, <3>1 DEF Asks
    <3>3. Sent[i].key = old /\ more[n].key = old /\ old \in Keys
      BY <1>4, <1>7, <2>2, <3>1, <3>2
    <3>4. Sent[i].op # "End" /\ (Asks(Sent[i], old) => Sent[i].lane = l)
      <4>1. old = lanes[l].tracked /\ old # None /\ fate[old] = "open"
        BY <1>4, <3>3, NoneIsNobody DEF old
      <4>2. Asks(Sent[i], old) => Sent[i].lane = l
        BY <1>1, <2>2, <4>1 DEF RecorderInv, LaneInv
      <4>3. Sent[i].op # "End"
        BY <2>2, <3>3, <4>1 DEF RecorderInv, SentInv, WellFormed
      <4> QED BY <4>2, <4>3
    <3>5. more[n].op # "Adopt"
      BY <1>2, <1>4, <3>1, <3>3 DEF Asks
    <3>6. Asks(Sent[i], old) /\ Asks(more[n], old) => Sent[i].order < more[n].order
      <4> SUFFICES ASSUME Asks(Sent[i], old), Asks(more[n], old) PROVE Sent[i].order < more[n].order
        OBVIOUS
      <4>1. Sent[i].lane = l /\ Sent[i].order <= lanes[l].order /\ Sent[i].order \in Nat
        BY <1>1, <2>2, <3>1, <3>4, NoneIsNobody, RequestFields DEF RecorderInv, LaneInv
      <4>2. more[n].order = lanes[l].order + 1
        BY <1>1, <1>2, <3>1 DEF Asks
      <4> QED BY <1>1, <4>1, <4>2
    <3> QED BY <3>1, <3>3, <3>4, <3>5, <3>6
  <2>3. CASE i \notin DOMAIN Sent /\ j \notin DOMAIN Sent
    <3> DEFINE m == i - Len(Sent)
               n == j - Len(Sent)
    <3>1. /\ m \in 1 .. Len(more) /\ n \in 1 .. Len(more) /\ m < n
          /\ Sent'[i] = more[m] /\ Sent'[j] = more[n]
      BY <1>5, <1>7, <2>3
    <3> HIDE DEF m, n
    <3>2. more[m].op # more[n].op /\ m # Len(more)
      BY <1>3, <1>5, <3>1
    <3>3. ~Asks(more[m], k) /\ more[m].op # "Stop"
      BY <1>2, <1>7, <3>1, <3>2 DEF Asks
    <3>4. more[m].op \in {"End", "Adopt"}
      BY <1>2, <3>1, <3>3
    <3>5. CASE more[m].op = "End"
      <4>1. more[m].key = old /\ old \notin {None, k}
        BY <1>2, <3>1, <3>5 DEF Asks
      <4> QED BY <1>2, <1>7, <3>1, <3>2, <3>5, <4>1 DEF Asks
    <3>6. CASE more[m].op = "Adopt"
      BY <1>2, <1>7, <3>1, <3>2, <3>6 DEF Asks
    <3> QED BY <3>4, <3>5, <3>6
  <2>4. ~(i \notin DOMAIN Sent /\ j \in DOMAIN Sent)
    BY <1>5, <1>7
  <2> QED BY <2>1, <2>2, <2>3, <2>4
<1>8. ASSUME NEW i \in DOMAIN Sent', Sent'[i].op = "Adopt", NEW d, d = Sent'[i].key
      PROVE  \E j \in DOMAIN Sent' : Asks(Sent'[j], d)
  <2>1. CASE i \in DOMAIN Sent
    <3>1. PICK j \in DOMAIN Sent : Asks(Sent[j], d)
      BY <1>5, <1>8, <2>1 DEF RecorderInv, OrderInv, Pending
    <3> QED BY <1>5, <3>1
  <2>2. CASE i \notin DOMAIN Sent
    <3>1. i - Len(Sent) \in 1 .. Len(more) /\ Sent'[i] = more[i - Len(Sent)]
      BY <1>5, <2>2
    <3>2. d = k /\ k # None
      BY <1>2, <1>8, <3>1 DEF Asks
    <3>3. Len(more) \in 1 .. Len(more) /\ Asks(more[Len(more)], k)
      BY <1>3, <1>5, <3>2
    <3> QED BY <1>5, <3>2, <3>3
  <2> QED BY <2>1, <2>2
<1>9. OrderInv'
  BY <1>7, <1>8 DEF OrderInv, Asks, Pending
<1> QED BY <1>6, <1>9

(* The facts about one lane's step that the parts below share.             *)
LEMMA SaysAsks ==
    ASSUME RecorderInv, NEW l, NEW k, NEW how, NEW more, Says(l, k, how, more)
    PROVE  /\ \A i \in DOMAIN Sent : i \in DOMAIN Sent' /\ Sent'[i] = Sent[i]
           /\ DOMAIN Sent = 1 .. Len(Sent) /\ Len(Sent) \in Nat /\ Len(batch) <= Len(Sent)
           /\ Len(batch) \in Nat
           /\ \A i \in DOMAIN Sent' : i \in Nat
           /\ \A i \in DOMAIN Sent', j \in Keys : Asks(Sent'[i], j) /\ i \notin DOMAIN Sent =>
                /\ j = k /\ Sent'[i].lane = l /\ Sent'[i].order = lanes'[l].order
                /\ i > Len(Sent) /\ \A m \in DOMAIN Sent' : m <= i
                /\ IF last'[k].dirty
                   THEN Sent'[i].op = "Checkpoint" /\ Sent'[i].version = last'[k].version
                   ELSE Sent'[i].op = "Clear"
           /\ k # None => \E i \in DOMAIN Sent' : i \notin DOMAIN Sent /\ Asks(Sent'[i], k)
           /\ \A i \in DOMAIN Sent' : i \notin DOMAIN Sent =>
                /\ Sent'[i].lane \in {None, l}
                /\ Sent'[i].order \in {0, lanes'[l].order}
                /\ Sent'[i].record # None => Sent'[i].record = claims[k] /\ k # None /\ claims[k] # None
           /\ \A i, j \in DOMAIN Sent' : i \notin DOMAIN Sent /\ j \notin DOMAIN Sent
                /\ Sent'[i].record # None /\ Sent'[j].record # None => i = j
<1>1. TypeOK /\ more \in Seq(Request) /\ queue' = queue \o more /\ batch' = batch
      /\ k \in Keys \cup {None}
  <2>1. more \in Seq(Request) /\ queue' = queue \o more /\ k \in Keys \cup {None}
    BY DEF Says
  <2>2. batch' = batch
    BY SaysFates
  <2> QED BY <2>1, <2>2 DEF RecorderInv
<1>2. /\ Len(more) \in Nat /\ Len(Sent) \in Nat
      /\ DOMAIN Sent = 1 .. Len(Sent) /\ DOMAIN Sent' = 1 .. Len(Sent) + Len(more)
      /\ Len(Sent) >= Len(batch)
      /\ \A i \in DOMAIN Sent : i \in DOMAIN Sent' /\ Sent'[i] = Sent[i]
      /\ \A i \in DOMAIN Sent' : i \notin DOMAIN Sent =>
            i - Len(Sent) \in 1 .. Len(more) /\ Sent'[i] = more[i - Len(Sent)]
      /\ \A i \in 1 .. Len(more) : Len(Sent) + i \in DOMAIN Sent' /\ Sent'[Len(Sent) + i] = more[i]
  BY <1>1, Grown
<1>3. Len(batch) \in Nat
  BY <1>1, SentSeq
<1>5. ASSUME NEW i \in DOMAIN Sent', i \notin DOMAIN Sent,
             NEW j \in Keys, Asks(Sent'[i], j)
      PROVE  /\ j = k /\ Sent'[i].lane = l /\ Sent'[i].order = lanes'[l].order
             /\ i > Len(Sent) /\ \A m \in DOMAIN Sent' : m <= i
             /\ IF last'[k].dirty
                THEN Sent'[i].op = "Checkpoint" /\ Sent'[i].version = last'[k].version
                ELSE Sent'[i].op = "Clear"
  <2> DEFINE n == i - Len(Sent)
  <2>1. n \in 1 .. Len(more) /\ Sent'[i] = more[n] /\ i = Len(Sent) + n
    BY <1>2, <1>5
  <2> HIDE DEF n
  <2>2. /\ Asks(more[n], k) /\ more[n].order = lanes'[l].order /\ more[n].lane = l
        /\ n = Len(more)
        /\ IF last'[k].dirty
           THEN more[n].op = "Checkpoint" /\ more[n].version = last'[k].version
           ELSE more[n].op = "Clear"
    BY <1>5, <2>1 DEF Says, Asks
  <2>3. j = k
    BY <1>5, <2>1, <2>2 DEF Asks
  <2>4. i > Len(Sent) /\ \A m \in DOMAIN Sent' : m <= i
    BY <1>2, <2>1, <2>2
  <2> QED BY <2>1, <2>2, <2>3, <2>4
<1>6. ASSUME k # None PROVE \E i \in DOMAIN Sent' : i \notin DOMAIN Sent /\ Asks(Sent'[i], k)
  <2>1. Len(more) \in 1 .. Len(more) /\ Asks(more[Len(more)], k)
    BY <1>2, <1>6 DEF Says
  <2>2. Len(Sent) + Len(more) \in DOMAIN Sent' /\ Sent'[Len(Sent) + Len(more)] = more[Len(more)]
        /\ Len(Sent) + Len(more) \notin DOMAIN Sent
    BY <1>2, <2>1
  <2> QED BY <2>1, <2>2
<1>7. ASSUME NEW i \in DOMAIN Sent', i \notin DOMAIN Sent
      PROVE  /\ Sent'[i].lane \in {None, l}
             /\ Sent'[i].order \in {0, lanes'[l].order}
             /\ Sent'[i].record # None =>
                  /\ Sent'[i].record = claims[k] /\ k # None /\ claims[k] # None
                  /\ Sent'[i].op = "Adopt"
  <2> DEFINE n == i - Len(Sent)
  <2>1. n \in 1 .. Len(more) /\ Sent'[i] = more[n]
    BY <1>2, <1>7
  <2> HIDE DEF n
  <2> QED BY <2>1 DEF Says
<1>8. ASSUME NEW i \in DOMAIN Sent', NEW j \in DOMAIN Sent', i \notin DOMAIN Sent, j \notin DOMAIN Sent,
             Sent'[i].record # None, Sent'[j].record # None
      PROVE  i = j
  <2> DEFINE m == i - Len(Sent)
             n == j - Len(Sent)
  <2>1. /\ m \in 1 .. Len(more) /\ Sent'[i] = more[m] /\ i = Len(Sent) + m
        /\ n \in 1 .. Len(more) /\ Sent'[j] = more[n] /\ j = Len(Sent) + n
    BY <1>2, <1>8
  <2> HIDE DEF m, n
  <2>2. more[m].op = more[n].op
    BY <1>7, <1>8, <2>1
  <2>3. m = n
    BY <2>1, <2>2 DEF Says
  <2> QED BY <2>1, <2>3
<1>9. \A i \in DOMAIN Sent' : i \in Nat
  BY <1>2
<1> QED BY <1>2, <1>3, <1>5, <1>6, <1>7, <1>8, <1>9

LEMMA SaysLanes ==
    ASSUME RecorderInv, NEW l, NEW k, NEW how, NEW more, Says(l, k, how, more)
    PROVE  LaneInv'
<1> DEFINE old == lanes[l].tracked
<1>1. /\ l \in Lanes /\ k \in Keys \cup {None} /\ how \in {"Retire", "Keep"}
      /\ \A m \in Lanes \ {l} : lanes'[m] = lanes[m]
      /\ lanes'[l].tracked = k /\ (k # None => lanes'[l].live)
      /\ lanes'[l].order >= lanes[l].order
      /\ \A m \in Lanes \ {l} : shared'[m] = shared[m]
      /\ shared'[l].key = k /\ (k = None => shared'[l].status = "Off")
      /\ shared'[l].requested = lanes'[l].order
      /\ lanes'[l].order \in Nat /\ lanes[l].order \in Nat /\ ended' = ended /\ LaneInv
  BY DEF Says, RecorderInv, TypeOK, Order, workVars
<1>2. /\ k \in Keys => fate'[k] = "open"
      /\ \A j \in Keys : fate[j] \in {"Retire", "Keep"} => fate'[j] = fate[j]
      /\ \A m \in Lanes \ {l} : lanes[m].tracked # None => lanes[m].tracked \notin {k, old}
      /\ \A j \in Keys : j \notin {k, old} => fate'[j] = fate[j]
      /\ \A i \in DOMAIN Sent : Sent[i].key = k /\ k # None => k = old
  BY SaysFates
<1>3. \A m \in Lanes : lanes[m].tracked \in Keys \cup {None}
  BY DEF RecorderInv, TypeOK
<1>4. ASSUME NEW m \in Lanes
      PROVE  /\ shared'[m].key = lanes'[m].tracked /\ shared'[m].requested = lanes'[m].order
             /\ lanes'[m].tracked # None => lanes'[m].live /\ fate'[lanes'[m].tracked] = "open"
             /\ lanes'[m].tracked = None => shared'[m].status = "Off"
  <2>1. CASE m = l
    BY <1>1, <1>2, <2>1
  <2>2. CASE m # l
    <3>1. lanes'[m] = lanes[m] /\ shared'[m] = shared[m]
      BY <1>1, <2>2
    <3>2. lanes[m].tracked # None => fate'[lanes[m].tracked] = "open"
      BY <1>1, <1>2, <1>3, <2>2 DEF LaneInv
    <3> QED BY <1>1, <3>1, <3>2 DEF LaneInv
  <2> QED BY <2>1, <2>2
<1>5. ASSUME NEW m \in Lanes, NEW n \in Lanes, lanes'[m].tracked = lanes'[n].tracked, lanes'[m].tracked # None
      PROVE  m = n
  <2>1. CASE m = l /\ n # l
    BY <1>1, <1>2, <1>5, <2>1
  <2>2. CASE m # l /\ n = l
    BY <1>1, <1>2, <1>5, <2>2
  <2>3. CASE m # l /\ n # l
    BY <1>1, <1>5, <2>3 DEF LaneInv
  <2> QED BY <2>1, <2>2, <2>3
<1>6. ASSUME NEW m \in Lanes, NEW i \in DOMAIN Sent', NEW d, d = lanes'[m].tracked, d # None, Asks(Sent'[i], d)
      PROVE  Sent'[i].lane = m
  <2>1. d \in Keys /\ (m = l => d = k) /\ (m # l => d = lanes[m].tracked /\ d # k)
    BY <1>1, <1>2, <1>3, <1>6
  <2>2. CASE i \in DOMAIN Sent
    <3>1. Asks(Sent[i], d) /\ Sent'[i] = Sent[i] /\ Sent[i].key = d
      BY <1>6, <2>2, SaysAsks DEF Asks
    <3>2. d = lanes[m].tracked
      BY <1>1, <1>2, <1>6, <2>1, <2>2, <3>1
    <3> QED BY <1>1, <1>6, <2>2, <3>1, <3>2 DEF LaneInv
  <2>3. CASE i \notin DOMAIN Sent
    <3>1. d = k /\ Sent'[i].lane = l
      BY <1>6, <2>1, <2>3, SaysAsks
    <3> QED BY <2>1, <3>1
  <2> QED BY <2>2, <2>3
<1>7. ASSUME NEW i \in DOMAIN Sent', Sent'[i].lane # None
      PROVE  Sent'[i].order <= lanes'[Sent'[i].lane].order
  <2>1. CASE i \in DOMAIN Sent
    <3>1. Sent'[i] = Sent[i] /\ Sent[i] \in Request
      BY <2>1, SaysAsks, SentSeq DEF RecorderInv
    <3>2. Sent[i].order \in Nat /\ Sent[i].lane \in Lanes /\ Sent[i].order <= lanes[Sent[i].lane].order
      BY <1>1, <1>7, <2>1, <3>1, RequestFields DEF LaneInv
    <3>3. CASE Sent[i].lane = l
      BY <1>1, <3>1, <3>2, <3>3
    <3>4. CASE Sent[i].lane # l
      BY <1>1, <3>1, <3>2, <3>4
    <3> QED BY <3>3, <3>4
  <2>2. CASE i \notin DOMAIN Sent
    <3>1. Sent'[i].lane = l /\ Sent'[i].order \in {0, lanes'[l].order}
      BY <1>7, <2>2, SaysAsks
    <3> QED BY <1>1, <3>1
  <2> QED BY <2>1, <2>2
<1>8. \A j \in ended' : fate'[j] \in {"Retire", "Keep"}
  <2>1. ended \subseteq Keys
    BY DEF RecorderInv, TypeOK
  <2> QED BY <1>1, <1>2, <2>1 DEF LaneInv
<1> QED BY <1>4, <1>5, <1>6, <1>7, <1>8 DEF LaneInv, Asks

LEMMA SaysLeases ==
    ASSUME RecorderInv, NEW l, NEW k, NEW how, NEW more, Says(l, k, how, more)
    PROVE  LeaseInv' /\ MemoryInv'
<1> DEFINE old == lanes[l].tracked
<1>1. /\ k \in Keys \cup {None} /\ owned' = owned /\ holds' = holds /\ memory' = memory /\ half' = half
      /\ \A j \in Keys : claims'[j] = IF j = k THEN None ELSE claims[j]
      /\ LeaseInv /\ MemoryInv /\ TypeOK
  BY DEF Says, workVars, diskVars, RecorderInv
<1>2. /\ \A j \in Keys : fate[j] = "unborn" /\ j # k => fate'[j] = "unborn"
      /\ \A i \in DOMAIN Sent : i \in DOMAIN Sent' /\ Sent'[i] = Sent[i]
      /\ \A i \in DOMAIN Sent' : i \notin DOMAIN Sent =>
            (Sent'[i].record # None => Sent'[i].record = claims[k] /\ k # None /\ claims[k] # None)
      /\ \A i, j \in DOMAIN Sent' : i \notin DOMAIN Sent /\ j \notin DOMAIN Sent
            /\ Sent'[i].record # None /\ Sent'[j].record # None => i = j
  BY SaysFates, SaysAsks
<1>3. MemoryInv'
  BY <1>1 DEF MemoryInv
<1>4. ASSUME NEW j \in Keys, NEW r, r = claims'[j], r # None
      PROVE  /\ holds[r] \in Versions /\ fate'[j] = "unborn" /\ ~Owned(r)
             /\ \A i \in Keys : claims'[i] = r => i = j
             /\ \A i \in DOMAIN Sent' : Sent'[i].record # r
  <2>1. j # k /\ claims[j] = r
    BY <1>1, <1>4
  <2>2. /\ holds[r] \in Versions /\ fate[j] = "unborn" /\ ~Owned(r)
        /\ \A i \in Keys : claims[i] = r => i = j
        /\ \A i \in DOMAIN Sent : Sent[i].record # r
    BY <1>1, <1>4, <2>1 DEF LeaseInv
  <2>3. \A i \in Keys : claims'[i] = r => i = j
    BY <1>1, <1>4, <2>2
  <2>4. ASSUME NEW i \in DOMAIN Sent' PROVE Sent'[i].record # r
    <3>1. CASE i \in DOMAIN Sent
      BY <1>2, <2>2, <3>1
    <3>2. CASE i \notin DOMAIN Sent
      <4> SUFFICES ASSUME Sent'[i].record = r PROVE FALSE
        OBVIOUS
      <4>1. r = claims[k] /\ k \in Keys
        BY <1>1, <1>2, <1>4, <3>2
      <4> QED BY <2>1, <2>2, <4>1
    <3> QED BY <3>1, <3>2
  <2> QED BY <1>2, <2>1, <2>2, <2>3, <2>4
<1>5. ASSUME NEW i \in DOMAIN Sent', NEW r, r = Sent'[i].record, r # None
      PROVE  /\ holds[r] \in Versions /\ ~Owned(r)
             /\ \A j \in DOMAIN Sent' : Sent'[j].record = r => j = i
  <2>1. CASE i \in DOMAIN Sent
    <3>1. Sent[i].record = r
      BY <1>2, <1>5, <2>1
    <3>2. /\ holds[r] \in Versions /\ ~Owned(r)
          /\ \A j \in DOMAIN Sent : Sent[j].record = r => j = i
      BY <1>1, <1>5, <2>1, <3>1 DEF LeaseInv
    <3>3. ASSUME NEW j \in DOMAIN Sent', Sent'[j].record = r PROVE j = i
      <4>1. CASE j \in DOMAIN Sent
        BY <1>2, <3>2, <3>3, <4>1
      <4>2. CASE j \notin DOMAIN Sent
        <5>1. r = claims[k] /\ k \in Keys /\ claims[k] # None
          BY <1>1, <1>2, <1>5, <3>3, <4>2
        <5> QED BY <1>1, <2>1, <3>1, <5>1 DEF LeaseInv
      <4> QED BY <4>1, <4>2
    <3> QED BY <3>2, <3>3
  <2>2. CASE i \notin DOMAIN Sent
    <3>1. r = claims[k] /\ k \in Keys /\ claims[k] # None
      BY <1>1, <1>2, <1>5, <2>2
    <3>2. /\ holds[r] \in Versions /\ ~Owned(r)
          /\ \A j \in DOMAIN Sent : Sent[j].record # r
      BY <1>1, <3>1 DEF LeaseInv
    <3>3. ASSUME NEW j \in DOMAIN Sent', Sent'[j].record = r PROVE j = i
      BY <1>2, <1>5, <2>2, <3>2, <3>3
    <3> QED BY <3>2, <3>3
  <2> QED BY <2>1, <2>2
<1>6. \A j, i \in Keys : owned'[j] = owned'[i] /\ owned'[j] # None => j = i
  BY <1>1 DEF LeaseInv
<1>7. \A r : Owned(r)' <=> \E j \in Keys : owned[j] = r
  BY <1>1 DEF Owned
<1>8. \A j \in Keys : claims'[j] # None =>
        /\ holds'[claims'[j]] \in Versions /\ fate'[j] = "unborn" /\ \A i \in Keys : owned'[i] # claims'[j]
        /\ \A i \in Keys : claims'[i] = claims'[j] => i = j
        /\ \A i \in DOMAIN Sent' : Sent'[i].record # claims'[j]
  BY <1>1, <1>4 DEF Owned
<1>9. \A i \in DOMAIN Sent' : Sent'[i].record # None =>
        /\ holds'[Sent'[i].record] \in Versions /\ \A j \in Keys : owned'[j] # Sent'[i].record
        /\ \A j \in DOMAIN Sent' : Sent'[j].record = Sent'[i].record => j = i
  BY <1>1, <1>5 DEF Owned
<1>10. LeaseInv'
  BY <1>6, <1>8, <1>9 DEF LeaseInv, Owned
<1> QED BY <1>3, <1>10

LEMMA SaysAsked ==
    ASSUME RecorderInv, NEW l, NEW k, NEW how, NEW more, Says(l, k, how, more)
    PROVE  LatestInv' /\ NewestInv' /\ DoneInv'
<1> DEFINE old == lanes[l].tracked
<1>1. /\ k \in Keys \cup {None} /\ batch' = batch /\ newest' = newest
      /\ UNCHANGED <<owned, holds, failed, half, ended, running>>
      /\ \A j \in Keys \ {k} : last'[j] = last[j]
      /\ LatestInv /\ NewestInv /\ DoneInv
  BY DEF Says, workVars, diskVars, RecorderInv
<1>2. /\ \A i \in DOMAIN Sent : i \in DOMAIN Sent' /\ Sent'[i] = Sent[i]
      /\ DOMAIN Sent = 1 .. Len(Sent) /\ Len(Sent) \in Nat /\ Len(batch) <= Len(Sent)
      /\ Len(batch) \in Nat
      /\ \A i \in DOMAIN Sent' : i \in Nat
      /\ \A i \in DOMAIN Sent', j \in Keys : Asks(Sent'[i], j) /\ i \notin DOMAIN Sent =>
           /\ j = k
           /\ i > Len(Sent) /\ \A m \in DOMAIN Sent' : m <= i
           /\ IF last'[k].dirty
              THEN Sent'[i].op = "Checkpoint" /\ Sent'[i].version = last'[k].version
              ELSE Sent'[i].op = "Clear"
      /\ k # None => \E i \in DOMAIN Sent' : i \notin DOMAIN Sent /\ Asks(Sent'[i], k)
  BY SaysAsks
<1>3. ASSUME NEW j \in Keys, NEW i \in DOMAIN Sent', Latest(j, i)'
      PROVE  \/ j # k /\ i \in DOMAIN Sent /\ Latest(j, i)
             \/ j = k /\ i \notin DOMAIN Sent /\ Asks(Sent'[i], j) /\ i > Len(batch)
  <2>1. /\ Asks(Sent'[i], j) /\ \A m \in DOMAIN Sent' : Asks(Sent'[m], j) => m <= i
    BY <1>3 DEF Latest, Asks
  <2>2. CASE j # k
    <3>1. i \in DOMAIN Sent
      BY <1>2, <2>1, <2>2
    <3>2. Asks(Sent[i], j) /\ \A m \in DOMAIN Sent : Asks(Sent[m], j) => m <= i
      BY <1>2, <2>1, <3>1
    <3> QED BY <2>2, <3>1, <3>2 DEF Latest
  <2>3. CASE j = k
    <3>1. k # None
      BY <2>3, NoneIsNobody
    <3>2. PICK m \in DOMAIN Sent' : m \notin DOMAIN Sent /\ Asks(Sent'[m], k)
      BY <1>2, <3>1
    <3>3. m <= i /\ m > Len(Sent) /\ i <= m
      BY <1>2, <2>1, <2>3, <3>2
    <3>4. i > Len(batch) /\ i \notin DOMAIN Sent
      BY <1>2, <3>3
    <3> QED BY <2>1, <2>3, <3>4
  <2> QED BY <2>2, <2>3
<1>4. LatestInv'
  <2> SUFFICES ASSUME NEW j \in Keys, NEW i \in DOMAIN Sent', Latest(j, i)'
               PROVE  IF last'[j].dirty
                      THEN Sent'[i].op = "Checkpoint" /\ Sent'[i].version = last'[j].version
                      ELSE Sent'[i].op = "Clear"
    BY DEF LatestInv
  <2>1. CASE j # k
    <3>1. i \in DOMAIN Sent /\ Latest(j, i) /\ last'[j] = last[j] /\ Sent'[i] = Sent[i]
      BY <1>1, <1>2, <1>3, <2>1
    <3> QED BY <1>1, <3>1 DEF LatestInv
  <2>2. CASE j = k
    BY <1>2, <1>3, <2>2
  <2> QED BY <2>1, <2>2
<1>5. NewestInv'
  <2> SUFFICES ASSUME NEW j \in Keys, NEW i \in DOMAIN Sent', Latest(j, i)', i <= Len(batch)
               PROVE  newest[j] = Sent'[i].order
    BY <1>1 DEF NewestInv
  <2>1. i \in DOMAIN Sent /\ Latest(j, i)
    BY <1>2, <1>3
  <2> QED BY <1>1, <1>2, <2>1 DEF NewestInv
<1>6. DoneInv'
  <2> SUFFICES ASSUME running, NEW j \in Keys, fate'[j] # "unborn", ~Pending(j)', j \notin failed, j \notin ended
               PROVE  UpToDate(j)'
    BY <1>1 DEF DoneInv
  <2>1. \A i \in DOMAIN Sent' : ~Asks(Sent'[i], j)
    BY DEF Pending, Asks
  <2>2. j # k
    BY <1>2, <2>1, NoneIsNobody
  <2>3. ~Pending(j)
    BY <1>2, <2>1 DEF Pending
  <2>4. fate[j] # "unborn"
    BY <2>2, SaysFates
  <2> QED BY <1>1, <2>2, <2>3, <2>4 DEF DoneInv, UpToDate
<1> QED BY <1>4, <1>5, <1>6

LEMMA SaysWritten ==
    ASSUME RecorderInv, NEW l, NEW k, NEW how, NEW more, Says(l, k, how, more)
    PROVE  WrittenInv'
<1>1. /\ l \in Lanes /\ k \in Keys \cup {None} /\ answer' = answer /\ failed' = failed
      /\ \A j \in Keys \ {k} : last'[j] = last[j]
      /\ \A m \in Lanes \ {l} : lanes'[m] = lanes[m] /\ shared'[m] = shared[m]
      /\ lanes'[l].tracked = k /\ (k # None => lanes'[l].order = lanes[l].order + 1)
      /\ lanes'[l].order >= lanes[l].order /\ shared'[l].key = k /\ shared'[l].status # "Written"
      /\ shared'[l].requested = lanes'[l].order
      /\ lanes'[l].order \in Nat
  BY DEF Says, workVars, diskVars, Order
<1>2. LaneInv /\ WrittenInv /\ TypeOK
  BY DEF RecorderInv
<1>3. \A m \in Lanes : lanes[m].tracked \in Keys \cup {None} /\ lanes[m].order \in Nat
      /\ shared[m].key = lanes[m].tracked
  BY <1>2 DEF TypeOK, Order, LaneInv
<1>4. ASSUME NEW j \in Keys, Settled(j), j # k PROVE Settled(j)'
  <2>1. ~Pending(j)'
    <3> SUFFICES ASSUME NEW i \in DOMAIN Sent', Asks(Sent'[i], j) PROVE FALSE
      BY DEF Pending, Asks
    <3>1. i \in DOMAIN Sent /\ Asks(Sent[i], j)
      BY <1>4, SaysAsks
    <3> QED BY <1>4, <3>1 DEF Settled, Pending
  <2> QED BY <1>1, <1>4, <2>1 DEF Settled
<1>5. \A m \in Lanes \ {l} : lanes[m].tracked # None => lanes[m].tracked # k
  BY SaysFates
<1>6. ASSUME NEW m \in Lanes, shared'[m].status = "Written"
      PROVE  /\ last'[shared'[m].key].dirty /\ shared'[m].key \notin failed
             /\ ~(\E i \in DOMAIN Sent' : Asks(Sent'[i], shared'[m].key))
  <2>1. m # l /\ shared'[m] = shared[m] /\ shared[m].status = "Written"
    BY <1>1, <1>6
  <2>2. Settled(shared[m].key) /\ shared[m].key \in Keys /\ shared[m].key # k
    BY <1>2, <1>3, <1>5, <2>1 DEF WrittenInv, LaneInv
  <2> DEFINE d == shared[m].key
  <2>3. d \in Keys /\ Settled(d) /\ d # k /\ shared'[m].key = d
    BY <2>1, <2>2
  <2> HIDE DEF d
  <2>4. last'[d].dirty /\ d \notin failed' /\ ~(\E i \in DOMAIN Sent' : Asks(Sent'[i], d))
    BY <1>4, <2>3 DEF Settled, Pending, Asks
  <2> QED BY <1>1, <2>3, <2>4
<1>7. ASSUME answer # None
      PROVE  /\ answer.lane \in Lanes /\ answer.key \in Keys /\ answer.order \in Nat
             /\ answer.order <= lanes[answer.lane].order
  BY <1>2, <1>7 DEF TypeOK, Outcome, WrittenInv, Order
<1>8. answer # None => answer.order <= lanes'[answer.lane].order
  <2> SUFFICES ASSUME answer # None PROVE answer.order <= lanes'[answer.lane].order
    OBVIOUS
  <2>1. CASE answer.lane = l
    BY <1>1, <1>3, <1>7, <2>1
  <2>2. CASE answer.lane # l
    BY <1>1, <1>7, <2>2
  <2> QED BY <2>1, <2>2
<1>9. ASSUME answer # None, answer.result = "Written",
             shared'[answer.lane].key = answer.key, answer.order = shared'[answer.lane].requested
      PROVE  /\ last'[answer.key].dirty /\ answer.key \notin failed
             /\ ~(\E i \in DOMAIN Sent' : Asks(Sent'[i], answer.key))
  <2>1. answer.lane # l
    <3> SUFFICES ASSUME answer.lane = l PROVE FALSE
      OBVIOUS
    <3>1. k = answer.key /\ k # None
      BY <1>1, <1>7, <1>9, NoneIsNobody
    <3>2. answer.order = lanes[l].order + 1 /\ answer.order <= lanes[l].order /\ lanes[l].order \in Nat
      BY <1>1, <1>3, <1>7, <1>9, <3>1
    <3> QED BY <3>2
  <2>2. shared'[answer.lane] = shared[answer.lane] /\ lanes[answer.lane].tracked = answer.key
    BY <1>1, <1>3, <1>7, <1>9, <2>1
  <2> DEFINE d == answer.key
  <2>3. d \in Keys /\ d # k /\ Settled(d)
    BY <1>2, <1>5, <1>7, <1>9, <2>1, <2>2, NoneIsNobody DEF WrittenInv
  <2> HIDE DEF d
  <2>4. last'[d].dirty /\ d \notin failed' /\ ~(\E i \in DOMAIN Sent' : Asks(Sent'[i], d))
    BY <1>4, <2>3 DEF Settled, Pending, Asks
  <2> QED BY <1>1, <2>4 DEF d
<1>10. answer # None /\ answer.result = "Written" => answer.order >= 1
  BY <1>2 DEF WrittenInv
<1> QED BY <1>1, <1>6, <1>8, <1>9, <1>10 DEF WrittenInv, Settled, Pending, Asks

LEMMA SaysKeeps ==
    ASSUME RecorderInv, NEW l, NEW k, NEW how, NEW more, Says(l, k, how, more)
    PROVE  RecorderInv'
<1>1. TypeOK'
  <2>1. TypeOK /\ l \in Lanes /\ more \in Seq(Request) /\ queue' = queue \o more
        /\ UNCHANGED <<workVars, diskVars>>
    BY DEF Says, RecorderInv
  <2>2. queue' \in Seq(Request)
    BY <2>1, Grown DEF workVars
  <2>3. fate' \in [Keys -> {"unborn", "open", "Retire", "Keep"}]
    <3>1. how \in {"Retire", "Keep"}
          /\ fate' = [f \in Keys |-> IF f = k THEN "open" ELSE IF f = lanes[l].tracked THEN how ELSE fate[f]]
      BY DEF Says
    <3> QED BY <2>1, <3>1 DEF TypeOK
  <2>4. /\ lanes' \in [Lanes -> [order : Order, tracked : Keys \cup {None}, live : BOOLEAN]]
        /\ shared' \in [Lanes -> [key : Keys \cup {None}, requested : Order, done : Order,
                                  status : Status]]
        /\ last' \in [Keys -> [version : Versions \cup {None}, dirty : BOOLEAN]]
        /\ claims' \in [Keys -> Records \cup {None}]
    BY DEF Says
  <2>5. \A m \in Lanes : shared'[m].done <= shared'[m].requested
    <3>1. \A m \in Lanes \ {l} : shared'[m] = shared[m]
      BY DEF Says
    <3>2. shared'[l].done <= shared'[l].requested
      BY DEF Says
    <3> QED BY <2>1, <3>1, <3>2 DEF TypeOK
  <2> QED BY <2>1, <2>2, <2>3, <2>4, <2>5 DEF TypeOK, workVars, diskVars
<1> QED BY <1>1, SaysSent, SaysLanes, SaysLeases, SaysAsked, SaysWritten DEF RecorderInv

LEMMA EndingIs ==
    ASSUME NEW d, NEW how
    PROVE  Ending(d, how) = [op |-> "End", key |-> d, order |-> 0, lane |-> None, version |-> None,
                             record |-> None, ending |-> how]
<1>1. Ending(d, how) = [Nobody EXCEPT !.op = "End", !.key = d, !.ending = how]
  BY DEF Ending
<1> QED BY <1>1 DEF Nobody

LEMMA AdoptIs ==
    ASSUME NEW d, NEW m, NEW r
    PROVE  [Nobody EXCEPT !.op = "Adopt", !.key = d, !.lane = m, !.record = r]
             = [op |-> "Adopt", key |-> d, order |-> 0, lane |-> m, version |-> None,
                record |-> r, ending |-> "none"]
<1> DEFINE a == [Nobody EXCEPT !.op = "Adopt"]
           b == [a EXCEPT !.key = d]
           c == [b EXCEPT !.lane = m]
<1>1. a = [op |-> "Adopt", key |-> None, order |-> 0, lane |-> None, version |-> None,
           record |-> None, ending |-> "none"]
  BY DEF Nobody
<1> HIDE DEF a
<1>2. b = [op |-> "Adopt", key |-> d, order |-> 0, lane |-> None, version |-> None,
           record |-> None, ending |-> "none"]
  BY <1>1
<1> HIDE DEF b
<1>3. c = [op |-> "Adopt", key |-> d, order |-> 0, lane |-> m, version |-> None,
           record |-> None, ending |-> "none"]
  BY <1>2
<1> HIDE DEF c
<1>4. [c EXCEPT !.record = r] = [op |-> "Adopt", key |-> d, order |-> 0, lane |-> m, version |-> None,
                                 record |-> r, ending |-> "none"]
  BY <1>3
<1> QED BY <1>4 DEF a, b, c

LEMMA Joined ==
    ASSUME NEW S, NEW a \in S, NEW b \in S, NEW c \in S
    PROVE  <<a>> \o <<b>> = <<a, b>> /\ <<a, b>> \o <<c>> = <<a, b, c>>
<1>1. /\ <<a>> \in Seq(S) /\ <<b>> \in Seq(S) /\ <<c>> \in Seq(S)
      /\ <<a, b>> \in Seq(S) /\ <<a, b, c>> \in Seq(S)
  OBVIOUS
<1>2. /\ <<a>> \o <<b>> \in Seq(S) /\ Len(<<a>> \o <<b>>) = 2
      /\ (<<a>> \o <<b>>)[1] = a /\ (<<a>> \o <<b>>)[2] = b
  <2> DEFINE s == <<a>>
             t == <<b>>
  <2>1. s \in Seq(S) /\ t \in Seq(S) /\ Len(s) = 1 /\ Len(t) = 1 /\ s[1] = a /\ t[1] = b
    BY <1>1
  <2> HIDE DEF s, t
  <2>2. /\ s \o t \in Seq(S) /\ Len(s \o t) = Len(s) + Len(t)
        /\ \A i \in 1 .. Len(s) + Len(t) : (s \o t)[i] = IF i <= Len(s) THEN s[i] ELSE t[i - Len(s)]
    BY <2>1, ConcatProperties
  <2>3. s \o t \in Seq(S) /\ Len(s \o t) = 2 /\ (s \o t)[1] = a /\ (s \o t)[2] = b
    BY <2>1, <2>2
  <2> QED BY <2>3 DEF s, t
<1>3. /\ <<a, b>> \o <<c>> \in Seq(S) /\ Len(<<a, b>> \o <<c>>) = 3
      /\ (<<a, b>> \o <<c>>)[1] = a /\ (<<a, b>> \o <<c>>)[2] = b /\ (<<a, b>> \o <<c>>)[3] = c
  <2> DEFINE s == <<a, b>>
             t == <<c>>
  <2>1. s \in Seq(S) /\ t \in Seq(S) /\ Len(s) = 2 /\ Len(t) = 1 /\ s[1] = a /\ s[2] = b /\ t[1] = c
    BY <1>1
  <2> HIDE DEF s, t
  <2>2. /\ s \o t \in Seq(S) /\ Len(s \o t) = Len(s) + Len(t)
        /\ \A i \in 1 .. Len(s) + Len(t) : (s \o t)[i] = IF i <= Len(s) THEN s[i] ELSE t[i - Len(s)]
    BY <2>1, ConcatProperties
  <2>3. s \o t \in Seq(S) /\ Len(s \o t) = 3 /\ (s \o t)[1] = a /\ (s \o t)[2] = b /\ (s \o t)[3] = c
    BY <2>1, <2>2
  <2> QED BY <2>3 DEF s, t
<1>4. /\ <<a, b>>[1] = a /\ <<a, b>>[2] = b /\ Len(<<a, b>>) = 2
      /\ <<a, b, c>>[1] = a /\ <<a, b, c>>[2] = b /\ <<a, b, c>>[3] = c /\ Len(<<a, b, c>>) = 3
  OBVIOUS
<1>5. \A s, t \in Seq(S) : Len(s) = 2 /\ Len(t) = 2 /\ s[1] = t[1] /\ s[2] = t[2] => s = t
  OBVIOUS
<1>6. \A s, t \in Seq(S) : Len(s) = 3 /\ Len(t) = 3 /\ s[1] = t[1] /\ s[2] = t[2] /\ s[3] = t[3] => s = t
  OBVIOUS
<1>7. <<a>> \o <<b>> = <<a, b>>
  BY <1>1, <1>2, <1>4, <1>5
<1>8. <<a, b>> \o <<c>> = <<a, b, c>>
  BY <1>1, <1>3, <1>4, <1>6
<1> QED BY <1>7, <1>8

(* What a lane says when a document is observed.                           *)
LEMMA ObserveSays ==
    ASSUME RecorderInv, NEW l \in Lanes, NEW k \in Keys, NEW version \in Versions,
           NEW dirty \in BOOLEAN, Observe(l, k, version, dirty),
           fate[k] = "unborn" \/ k = lanes[l].tracked,
           claims' = [claims EXCEPT ![k] = None], UNCHANGED <<workVars, diskVars>>
    PROVE  \E more : Says(l, k, "Retire", more)
<1> DEFINE old == lanes[l].tracked
           order == lanes[l].order + 1
           ask == [op |-> IF dirty THEN "Checkpoint" ELSE "Clear", key |-> k, order |-> order,
                   lane |-> l, version |-> IF dirty THEN version ELSE None, record |-> None,
                   ending |-> "none"]
           adopt == [op |-> "Adopt", key |-> k, order |-> 0, lane |-> l, version |-> None,
                     record |-> claims[k], ending |-> "none"]
           leave == [op |-> "End", key |-> old, order |-> 0, lane |-> None, version |-> None,
                     record |-> None, ending |-> "Retire"]
           ends == IF old \in {None, k} THEN <<>> ELSE <<leave>>
           adopts == IF claims[k] = None THEN <<>> ELSE <<adopt>>
           more == ends \o adopts \o <<ask>>
<1>1. /\ TypeOK /\ old \in Keys \cup {None} /\ lanes[l].order \in Nat /\ order \in Nat /\ order >= 1
      /\ claims[k] \in Records \cup {None} /\ k # None /\ l # None
  BY SMTT(60), NoneIsNobody DEF RecorderInv, TypeOK, Order
<1>2. queue' = queue \o more
  <2> HIDE DEF old, order
  <2>1. ask = IF dirty THEN [[Nobody EXCEPT !.key = k, !.order = order, !.lane = l]
                                EXCEPT !.op = "Checkpoint", !.version = version]
                       ELSE [[Nobody EXCEPT !.key = k, !.order = order, !.lane = l] EXCEPT !.op = "Clear"]
    BY DEF Nobody
  <2>2. adopt = [Nobody EXCEPT !.op = "Adopt", !.key = k, !.lane = l, !.record = claims[k]]
    <3> SUFFICES ASSUME NEW r, r = claims[k]
                 PROVE  adopt = [Nobody EXCEPT !.op = "Adopt", !.key = k, !.lane = l, !.record = r]
      OBVIOUS
    <3>1. [Nobody EXCEPT !.op = "Adopt", !.key = k, !.lane = l, !.record = r] =
          [op |-> "Adopt", key |-> k, order |-> 0, lane |-> l, version |-> None,
           record |-> r, ending |-> "none"]
      BY AdoptIs
    <3> QED BY <3>1
  <2>3. leave = Ending(old, "Retire")
    BY EndingIs
  <2>4. queue' = queue \o ends \o adopts \o <<ask>>
    <3>1. queue' = queue
            \o (IF old \in {None, k} THEN <<>> ELSE <<Ending(old, "Retire")>>)
            \o (IF claims[k] = None THEN <<>>
                ELSE <<[Nobody EXCEPT !.op = "Adopt", !.key = k, !.lane = l, !.record = claims[k]]>>)
            \o <<IF dirty THEN [[Nobody EXCEPT !.key = k, !.order = order, !.lane = l]
                                  EXCEPT !.op = "Checkpoint", !.version = version]
                 ELSE [[Nobody EXCEPT !.key = k, !.order = order, !.lane = l] EXCEPT !.op = "Clear"]>>
      BY DEF Observe, old, order
    <3> HIDE DEF ask, adopt, leave
    <3> QED BY <2>1, <2>2, <2>3, <3>1
  <2>5. queue \in Seq(Request) /\ ends \in Seq(Request) /\ adopts \in Seq(Request) /\ <<ask>> \in Seq(Request)
    <3>1. ask \in Request
      BY <1>1 DEF Request, Order
    <3>2. claims[k] # None => adopt \in Request
      BY <1>1 DEF Request, Order
    <3>3. leave \in Request
      BY <1>1 DEF Request, Order
    <3> HIDE DEF ask, adopt, leave
    <3> QED BY <1>1, <3>1, <3>2, <3>3 DEF TypeOK
  <2> HIDE DEF ends, adopts, ask
  <2>6. (queue \o ends) \o adopts = queue \o (ends \o adopts)
    BY <2>5, ConcatAssociative
  <2>7. (queue \o (ends \o adopts)) \o <<ask>> = queue \o ((ends \o adopts) \o <<ask>>)
    <3>1. ends \o adopts \in Seq(Request)
      BY <2>5, ConcatProperties
    <3> QED BY SMTT(60), <2>5, <3>1, ConcatAssociative
  <2> QED BY <2>4, <2>6, <2>7
<1>3. /\ more \in Seq(Request) /\ Len(more) \in 1 .. 3 /\ more[Len(more)] = ask
      /\ \A i \in 1 .. Len(more) : \/ more[i] = leave /\ old \notin {None, k}
                                   \/ more[i] = adopt /\ claims[k] # None /\ i < Len(more)
                                   \/ more[i] = ask /\ i = Len(more)
      /\ \A i, j \in 1 .. Len(more) : i # j => more[i] # more[j]
  <2>1. ask \in Request
    BY <1>1 DEF Request, Order
  <2>2. claims[k] # None => adopt \in Request
    BY <1>1 DEF Request, Order
  <2>3. leave \in Request
    BY <1>1 DEF Request, Order
  <2>4. ask # adopt /\ ask # leave /\ leave # adopt
    OBVIOUS
  <2> HIDE DEF ask, adopt, leave
  <2>5. CASE old \in {None, k} /\ claims[k] = None
    <3>1. more = <<ask>>
      BY <2>5
    <3> HIDE DEF more
    <3> QED BY <2>1, <3>1
  <2>6. CASE old \in {None, k} /\ claims[k] # None
    <3>1. more = <<adopt, ask>>
      <4>1. more = <<adopt>> \o <<ask>>
        BY <2>2, <2>6
      <4> QED BY <2>1, <2>2, <2>6, <4>1, Joined
    <3> HIDE DEF more
    <3> QED BY <2>1, <2>2, <2>4, <2>6, <3>1
  <2>7. CASE old \notin {None, k} /\ claims[k] = None
    <3>1. more = <<leave, ask>>
      <4>1. more = <<leave>> \o <<ask>>
        BY <2>3, <2>7
      <4> QED BY <2>1, <2>3, <4>1, Joined
    <3> HIDE DEF more
    <3> QED BY <2>1, <2>3, <2>4, <2>7, <3>1
  <2>8. CASE old \notin {None, k} /\ claims[k] # None
    <3>1. more = <<leave, adopt, ask>>
      <4>1. more = (<<leave>> \o <<adopt>>) \o <<ask>>
        BY <2>8
      <4> QED BY <2>1, <2>2, <2>3, <2>8, <4>1, Joined
    <3> HIDE DEF more
    <3>2. more \in Seq(Request) /\ Len(more) = 3 /\ more[1] = leave /\ more[2] = adopt /\ more[3] = ask
      BY <2>1, <2>2, <2>3, <2>8, <3>1
    <3> QED BY <2>4, <2>8, <3>2
  <2> QED BY <2>5, <2>6, <2>7, <2>8
<1>4. /\ lanes' = [lanes EXCEPT ![l].tracked = k, ![l].order = order]
      /\ shared' = [shared EXCEPT ![l].key = k, ![l].requested = order,
                                  ![l].status = IF dirty THEN "Writing" ELSE "Off"]
      /\ fate' = [f \in Keys |-> IF f = k THEN "open" ELSE IF f = old THEN "Retire" ELSE fate[f]]
      /\ last' = [last EXCEPT ![k] = [version |-> version, dirty |-> dirty]]
      /\ lanes[l].live
  BY DEF Observe
<1>5. /\ lanes' \in [Lanes -> [order : Order, tracked : Keys \cup {None}, live : BOOLEAN]]
      /\ \A m \in Lanes \ {l} : lanes'[m] = lanes[m]
      /\ lanes'[l].tracked = k /\ lanes'[l].live /\ lanes'[l].order = order
  <2> DEFINE first == [lanes EXCEPT ![l].tracked = k]
             LaneRecords == [order : Order, tracked : Keys \cup {None}, live : BOOLEAN]
  <2>1. lanes \in [Lanes -> LaneRecords]
    BY <1>1 DEF TypeOK
  <2>2. first \in [Lanes -> LaneRecords] /\ (\A m \in Lanes \ {l} : first[m] = lanes[m])
        /\ first[l].tracked = k /\ first[l].live = lanes[l].live
    BY <2>1
  <2>3. lanes' = [first EXCEPT ![l].order = order]
    BY <1>4
  <2> HIDE DEF first
  <2>4. lanes' \in [Lanes -> LaneRecords] /\ (\A m \in Lanes \ {l} : lanes'[m] = first[m])
        /\ lanes'[l].tracked = k /\ lanes'[l].live = lanes[l].live /\ lanes'[l].order = order
    <3> HIDE DEF order
    <3> QED BY <1>1, <2>2, <2>3 DEF Order
  <2> QED BY <1>4, <2>2, <2>4
<1>6. /\ shared' \in [Lanes -> [key : Keys \cup {None}, requested : Order, done : Order, status : Status]]
      /\ \A m \in Lanes \ {l} : shared'[m] = shared[m]
      /\ shared'[l].key = k /\ shared'[l].requested = order /\ shared'[l].done = shared[l].done
      /\ shared'[l].status # "Written"
  <2> DEFINE first == [shared EXCEPT ![l].key = k]
             second == [first EXCEPT ![l].requested = order]
             say == IF dirty THEN "Writing" ELSE "Off"
             Shown == [key : Keys \cup {None}, requested : Order, done : Order, status : Status]
  <2>1. shared \in [Lanes -> Shown]
    BY <1>1 DEF TypeOK
  <2>2. first \in [Lanes -> Shown] /\ (\A m \in Lanes \ {l} : first[m] = shared[m])
        /\ first[l].key = k /\ first[l].done = shared[l].done
    BY <2>1
  <2>3. shared' = [second EXCEPT ![l].status = say]
    BY <1>4
  <2> HIDE DEF first
  <2>4. second \in [Lanes -> Shown] /\ (\A m \in Lanes \ {l} : second[m] = first[m])
        /\ second[l].key = k /\ second[l].done = shared[l].done /\ second[l].requested = order
    <3> HIDE DEF order
    <3> QED BY <1>1, <2>2 DEF Order
  <2>5. say \in Status /\ say # "Written"
    BY DEF Status
  <2> HIDE DEF second, say
  <2>6. shared' \in [Lanes -> Shown] /\ (\A m \in Lanes \ {l} : shared'[m] = second[m])
        /\ shared'[l].key = k /\ shared'[l].done = shared[l].done /\ shared'[l].requested = order
        /\ shared'[l].status = say
    BY <2>3, <2>4, <2>5
  <2> QED BY <2>2, <2>4, <2>5, <2>6
<1>7. shared'[l].done <= shared'[l].requested
  <2>1. /\ shared[l].done <= shared[l].requested /\ shared[l].done \in Nat
        /\ shared[l].requested = lanes[l].order
    BY <1>1 DEF TypeOK, Order, RecorderInv, LaneInv
  <2> QED BY <1>1, <1>6, <2>1
<1>8. /\ last' \in [Keys -> [version : Versions \cup {None}, dirty : BOOLEAN]]
      /\ last'[k] = [version |-> version, dirty |-> dirty]
      /\ \A j \in Keys \ {k} : last'[j] = last[j]
  BY <1>1, <1>4 DEF TypeOK
<1>9. /\ claims' \in [Keys -> Records \cup {None}]
      /\ \A j \in Keys : claims'[j] = IF j = k THEN None ELSE claims[j]
  BY <1>1 DEF TypeOK
<1> HIDE DEF more
<1>10. \A i, j \in 1 .. Len(more) : more[i].op = more[j].op => i = j
  BY <1>3
<1>11. \A i \in 1 .. Len(more) :
          \/ /\ more[i].op = "End" /\ more[i].key = old /\ more[i].ending = "Retire"
             /\ more[i].order = 0 /\ more[i].record = None /\ more[i].lane = None
             /\ old \notin {None, k}
          \/ /\ more[i].op = "Adopt" /\ more[i].key = k /\ more[i].record = claims[k]
             /\ more[i].order = 0 /\ more[i].lane = l /\ k # None /\ claims[k] # None
             /\ i < Len(more)
          \/ /\ Asks(more[i], k) /\ more[i].order = lanes'[l].order /\ more[i].lane = l
             /\ more[i].record = None /\ k # None /\ i = Len(more)
             /\ IF last'[k].dirty
                THEN /\ more[i].op = "Checkpoint" /\ more[i].version = last'[k].version
                     /\ more[i].version \in Versions
                ELSE more[i].op = "Clear"
  <2> TAKE i \in 1 .. Len(more)
  <2>1. CASE more[i] = leave /\ old \notin {None, k}
    BY <2>1
  <2>2. CASE more[i] = adopt /\ claims[k] # None /\ i < Len(more)
    BY <1>1, <2>2
  <2>3. CASE more[i] = ask /\ i = Len(more)
    BY <1>1, <1>5, <1>8, <2>3 DEF Asks
  <2> QED BY <1>3, <2>1, <2>2, <2>3
<1>12. Len(more) >= 1 /\ Asks(more[Len(more)], k)
  <2>1. Asks(ask, k)
    BY DEF Asks
  <2> HIDE DEF ask, adopt, leave
  <2>2. more[Len(more)] = ask /\ Len(more) >= 1
    BY <1>3
  <2> QED BY <2>1, <2>2
<1> HIDE DEF order, ask, adopt, leave
<1>13. k \in Keys \cup {None} /\ "Retire" \in {"Retire", "Keep"} /\ more \in Seq(Request)
       /\ lanes'[l].order = lanes[l].order + 1 /\ lanes'[l].order >= lanes[l].order
       /\ shared'[l].requested = lanes'[l].order
  BY <1>1, <1>3, <1>5, <1>6 DEF order
<1>14. Says(l, k, "Retire", more)
  BY <1>1, <1>2, <1>4, <1>5, <1>6, <1>7, <1>8, <1>9, <1>10, <1>11, <1>12, <1>13 DEF Says
<1> QED BY <1>14

LEMMA ChangeKeeps ==
    ASSUME RecorderInv, NEW l \in Lanes, NEW version \in Versions, NEW dirty \in BOOLEAN,
           Change(l, version, dirty)
    PROVE  RecorderInv'
<1> DEFINE k == lanes[l].tracked
<1>1. k \in Keys
  BY DEF Change, RecorderInv, TypeOK
<1>2. /\ Observe(l, k, version, dirty) /\ claims' = [claims EXCEPT ![k] = None]
      /\ UNCHANGED <<workVars, diskVars>>
  BY DEF Change
<1> SUFFICES ASSUME NEW d \in Keys, d = k PROVE RecorderInv'
  BY <1>1
<1>3. /\ Observe(l, d, version, dirty) /\ claims' = [claims EXCEPT ![d] = None]
      /\ fate[d] = "unborn" \/ d = lanes[l].tracked
  BY <1>2
<1>4. PICK more : Says(l, d, "Retire", more)
  BY <1>2, <1>3, ObserveSays
<1> QED BY <1>4, SaysKeeps

LEMMA OpenKeeps ==
    ASSUME RecorderInv, NEW l \in Lanes, NEW k \in Keys, NEW version \in Versions,
           NEW dirty \in BOOLEAN, Open(l, k, version, dirty), claims[k] = None
    PROVE  RecorderInv'
<1>1. claims \in [Keys -> Records \cup {None}] /\ claims' = claims
  BY DEF Open, RecorderInv, TypeOK
<1>2. claims' = [claims EXCEPT ![k] = None]
  BY <1>1
<1>3. fate[k] = "unborn" /\ Observe(l, k, version, dirty) /\ UNCHANGED <<workVars, diskVars>>
  BY DEF Open
<1>4. PICK more : Says(l, k, "Retire", more)
  BY <1>2, <1>3, ObserveSays
<1> QED BY <1>4, SaysKeeps

LEMMA AcceptRecoveredKeeps ==
    ASSUME RecorderInv, NEW l \in Lanes, NEW k \in Keys, AcceptRecovered(l, k)
    PROVE  RecorderInv'
<1>1. /\ fate[k] = "unborn" /\ claims[k] # None /\ Observe(l, k, holds[claims[k]], TRUE)
      /\ claims' = [claims EXCEPT ![k] = None] /\ UNCHANGED <<workVars, diskVars>>
  BY DEF AcceptRecovered
<1>2. holds[claims[k]] \in Versions
  BY <1>1 DEF RecorderInv, LeaseInv
<1>3. PICK version \in Versions : Observe(l, k, version, TRUE)
  BY <1>1, <1>2
<1>4. PICK more : Says(l, k, "Retire", more)
  BY <1>1, <1>3, ObserveSays
<1> QED BY <1>4, SaysKeeps

(* A lane that finishes ends its document, and the last one stops the      *)
(* worker.                                                                 *)
LEMMA FinishKeeps ==
    ASSUME RecorderInv, NEW l \in Lanes, NEW how \in {"Retire", "Keep"}, Finish(l, how)
    PROVE  RecorderInv'
<1> DEFINE old == lanes[l].tracked
           leave == Ending(old, how)
           ends == IF old = None THEN <<>> ELSE <<leave>>
           stops == IF \A m \in Lanes \ {l} : ~lanes[m].live THEN <<Nobody>> ELSE <<>>
           more == ends \o stops
<1>1. /\ queue' = queue \o ends \o stops
      /\ fate' = [f \in Keys |-> IF f = old THEN how ELSE fate[f]]
      /\ lanes' = [lanes EXCEPT ![l].tracked = None, ![l].live = FALSE]
      /\ shared' = [shared EXCEPT ![l].key = None, ![l].status = "Off"]
      /\ UNCHANGED <<last, claims, workVars, diskVars>>
  BY DEF Finish
<1>2. /\ TypeOK /\ old \in Keys \cup {None} /\ lanes[l].order \in Nat /\ None \notin Keys
      /\ shared[l].requested = lanes[l].order /\ shared[l].done <= shared[l].requested
  BY NoneIsNobody DEF RecorderInv, TypeOK, Order, LaneInv
<1>3. /\ leave = [op |-> "End", key |-> old, order |-> 0, lane |-> None, version |-> None,
                  record |-> None, ending |-> how]
      /\ leave \in Request /\ Nobody \in Request
  <2>1. leave = [op |-> "End", key |-> old, order |-> 0, lane |-> None, version |-> None,
                 record |-> None, ending |-> how]
    BY EndingIs
  <2>2. Nobody \in Request
    BY DEF Nobody, Request, Order
  <2> HIDE DEF old, leave
  <2>3. leave \in Request
    BY <1>2, <2>1 DEF Request, Order
  <2> QED BY <2>1, <2>2, <2>3 DEF leave
<1> HIDE DEF leave
<1>4. /\ more \in Seq(Request) /\ queue' = queue \o more
      /\ \A i \in 1 .. Len(more) : (more[i] = leave /\ old # None) \/ more[i] = Nobody
      /\ \A i, j \in 1 .. Len(more) : i # j => more[i] # more[j]
  <2>1. ends \in Seq(Request) /\ stops \in Seq(Request) /\ queue \in Seq(Request)
    BY <1>2, <1>3 DEF TypeOK
  <2>2. more \in Seq(Request) /\ queue' = queue \o more
    <3> HIDE DEF ends, stops
    <3>1. (queue \o ends) \o stops = queue \o (ends \o stops)
      BY <2>1, ConcatAssociative
    <3> QED BY <1>1, <2>1, <3>1, ConcatProperties
  <2>3. leave # Nobody
    BY <1>3 DEF Nobody
  <2>4. more \in {<<>>, <<leave>>, <<Nobody>>, <<leave, Nobody>>} /\ (old = None => more \in {<<>>, <<Nobody>>})
    <3> DEFINE stop == Nobody
    <3>1. stop \in Request
      BY <1>3
    <3> HIDE DEF stop
    <3>2. <<leave>> \o <<stop>> = <<leave, stop>>
      BY <1>3, <3>1, Joined
    <3>3. <<leave>> \o <<>> = <<leave>> /\ <<>> \o <<stop>> = <<stop>> /\ <<>> \o <<>> = <<>>
      BY <1>3, <3>1, ConcatEmptySeq
    <3>4. ends \in {<<>>, <<leave>>} /\ (old = None => ends = <<>>) /\ stops \in {<<>>, <<stop>>}
      BY DEF stop
    <3> HIDE DEF ends, stops
    <3> QED BY <3>2, <3>3, <3>4 DEF stop
  <2> HIDE DEF more
  <2>5. \A i \in 1 .. Len(more) : (more[i] = leave /\ old # None) \/ more[i] = Nobody
    <3>1. CASE more = <<>>
      BY <3>1
    <3>2. CASE more = <<leave>>
      BY <2>4, <3>2
    <3>3. CASE more = <<Nobody>>
      BY <3>3
    <3>4. CASE more = <<leave, Nobody>>
      BY <2>4, <3>4
    <3> QED BY <2>4, <3>1, <3>2, <3>3, <3>4
  <2>6. \A i, j \in 1 .. Len(more) : i # j => more[i] # more[j]
    BY <2>3, <2>4
  <2> QED BY <2>2, <2>5, <2>6
<1>5. /\ lanes' \in [Lanes -> [order : Order, tracked : Keys \cup {None}, live : BOOLEAN]]
      /\ \A m \in Lanes \ {l} : lanes'[m] = lanes[m]
      /\ lanes'[l].tracked = None /\ lanes'[l].order = lanes[l].order
  <2> DEFINE first == [lanes EXCEPT ![l].tracked = None]
             LaneRecords == [order : Order, tracked : Keys \cup {None}, live : BOOLEAN]
  <2>1. lanes \in [Lanes -> LaneRecords]
    BY <1>2 DEF TypeOK
  <2>2. first \in [Lanes -> LaneRecords] /\ (\A m \in Lanes \ {l} : first[m] = lanes[m])
        /\ first[l].tracked = None /\ first[l].order = lanes[l].order
    BY <2>1
  <2>3. lanes' = [first EXCEPT ![l].live = FALSE]
    BY <1>1
  <2> HIDE DEF first
  <2>4. lanes' \in [Lanes -> LaneRecords] /\ (\A m \in Lanes \ {l} : lanes'[m] = first[m])
        /\ lanes'[l].tracked = None /\ lanes'[l].order = lanes[l].order
    BY <2>2, <2>3
  <2> QED BY <2>2, <2>4
<1>6. /\ shared' \in [Lanes -> [key : Keys \cup {None}, requested : Order, done : Order, status : Status]]
      /\ \A m \in Lanes \ {l} : shared'[m] = shared[m]
      /\ shared'[l].key = None /\ shared'[l].requested = shared[l].requested
      /\ shared'[l].done = shared[l].done /\ shared'[l].status = "Off"
  <2> DEFINE first == [shared EXCEPT ![l].key = None]
             Shown == [key : Keys \cup {None}, requested : Order, done : Order, status : Status]
  <2>1. shared \in [Lanes -> Shown]
    BY <1>2 DEF TypeOK
  <2>2. first \in [Lanes -> Shown] /\ (\A m \in Lanes \ {l} : first[m] = shared[m])
        /\ first[l].key = None /\ first[l].requested = shared[l].requested
        /\ first[l].done = shared[l].done
    BY <2>1
  <2>3. shared' = [first EXCEPT ![l].status = "Off"]
    BY <1>1
  <2>4. "Off" \in Status
    BY DEF Status
  <2> HIDE DEF first
  <2>5. shared' \in [Lanes -> Shown] /\ (\A m \in Lanes \ {l} : shared'[m] = first[m])
        /\ shared'[l].key = None /\ shared'[l].requested = shared[l].requested
        /\ shared'[l].done = shared[l].done /\ shared'[l].status = "Off"
    BY <2>2, <2>3, <2>4
  <2> QED BY <2>2, <2>5
<1> HIDE DEF more
<1>7. \A i \in 1 .. Len(more) :
         \/ /\ more[i].op = "End" /\ more[i].key = old /\ more[i].ending = how
            /\ more[i].order = 0 /\ more[i].record = None /\ more[i].lane = None
            /\ old \notin {None, None}
         \/ /\ more[i].op = "Stop" /\ more[i].key = None /\ more[i].record = None
            /\ more[i].order = 0 /\ more[i].lane = None /\ None = None
  <2> TAKE i \in 1 .. Len(more)
  <2>1. CASE more[i] = leave /\ old # None
    BY <1>3, <2>1
  <2>2. CASE more[i] = Nobody
    BY <2>2 DEF Nobody
  <2> QED BY <1>4, <2>1, <2>2
<1>8. \A i, j \in 1 .. Len(more) : more[i].op = more[j].op => i = j
  <2>1. leave.op = "End" /\ Nobody.op = "Stop"
    BY <1>3 DEF Nobody
  <2> QED BY <1>4, <2>1
<1>9. fate' = [f \in Keys |-> IF f = None THEN "open" ELSE IF f = old THEN how ELSE fate[f]]
  BY <1>1, <1>2
<1>10. /\ last' \in [Keys -> [version : Versions \cup {None}, dirty : BOOLEAN]]
       /\ \A j \in Keys \ {None} : last'[j] = last[j]
       /\ claims' \in [Keys -> Records \cup {None}]
       /\ \A j \in Keys : claims'[j] = IF j = None THEN None ELSE claims[j]
       /\ UNCHANGED <<workVars, diskVars>>
  BY <1>1, <1>2 DEF TypeOK
<1>11. shared'[l].done <= shared'[l].requested /\ lanes'[l].order >= lanes[l].order
       /\ shared'[l].requested = lanes'[l].order /\ shared'[l].status # "Written"
  BY <1>2, <1>5, <1>6
<1>12. Says(l, None, how, more)
  BY <1>4, <1>5, <1>6, <1>7, <1>8, <1>9, <1>10, <1>11 DEF Says
<1> QED BY <1>12, SaysKeeps

(* A recovered document takes a record nobody leased, and holds it until   *)
(* it is observed or let go.                                               *)
LEMMA RecoverKeeps ==
    ASSUME RecorderInv, NEW k \in Keys, NEW r \in Records, Recover(k, r) 
    PROVE  RecorderInv'
<1>1. /\ fate[k] = "unborn" /\ claims[k] = None /\ holds[r] \in Versions /\ ~Leased(r)
      /\ claims' = [claims EXCEPT ![k] = r]
      /\ UNCHANGED <<lanes, shared, last, fate, queue, workVars, diskVars>>
  BY DEF Recover
<1>2. TypeOK /\ LeaseInv
  BY DEF RecorderInv
<1>3. /\ claims' \in [Keys -> Records \cup {None}] /\ claims'[k] = r /\ r # None
      /\ \A j \in Keys \ {k} : claims'[j] = claims[j]
  BY <1>1, <1>2, NoneIsNobody DEF TypeOK
<1>4. TypeOK'
  BY <1>1, <1>2, <1>3 DEF TypeOK, workVars, diskVars
<1>5. Sent' = Sent
  BY <1>1 DEF Sent, workVars
<1>6. SentInv' /\ OrderInv' /\ LaneInv' /\ MemoryInv' /\ LatestInv' /\ NewestInv' /\ DoneInv' /\ WrittenInv'
  BY <1>1, <1>5 DEF RecorderInv, SentInv, OrderInv, LaneInv, LatestInv, NewestInv, DoneInv, MemoryInv,
     WrittenInv, WellFormed, Asks, Pending, Latest, UpToDate, Settled, workVars, diskVars
<1>7. ~Owned(r) /\ (\A j \in Keys : claims[j] # r) /\ \A i \in DOMAIN Sent : Sent[i].record # r
  <2>1. \A i \in DOMAIN Sent : Sent[i].record # r
    <3> TAKE i \in DOMAIN Sent
    <3>1. CASE i <= Len(batch)
      BY <1>1, <1>2, <3>1, SentSeq DEF Leased
    <3>2. CASE ~(i <= Len(batch))
      <4>1. i - Len(batch) \in DOMAIN queue /\ Len(batch) + (i - Len(batch)) = i
        BY <1>2, <3>2, SentSeq
      <4> QED BY <1>1, <1>2, <4>1, SentSeq DEF Leased
    <3> QED BY <3>1, <3>2
  <2> QED BY <1>1, <2>1 DEF Leased, Owned
<1>8. LeaseInv'
  <2>1. holds' = holds /\ fate' = fate /\ owned' = owned
    BY <1>1 DEF workVars, diskVars
  <2>2. ASSUME NEW j \in Keys, claims'[j] # None
        PROVE  /\ holds[claims'[j]] \in Versions /\ fate[j] = "unborn" /\ ~Owned(claims'[j])
               /\ \A i \in Keys : claims'[i] = claims'[j] => i = j
               /\ \A i \in DOMAIN Sent : Sent[i].record # claims'[j]
    <3>1. CASE j = k
      BY <1>1, <1>3, <1>7, <3>1
    <3>2. CASE j # k
      BY <1>2, <1>3, <1>7, <2>2, <3>2 DEF LeaseInv
    <3> QED BY <3>1, <3>2
  <2> QED BY <1>2, <1>5, <2>1, <2>2 DEF LeaseInv, Owned
<1> QED BY <1>4, <1>6, <1>8 DEF RecorderInv

LEMMA DropRecoveredKeeps ==
    ASSUME RecorderInv, NEW k \in Keys, DropRecovered(k)
    PROVE  RecorderInv'
<1>1. /\ claims' = [claims EXCEPT ![k] = None]
      /\ UNCHANGED <<lanes, shared, last, fate, queue, workVars, diskVars>>
  BY DEF DropRecovered
<1>2. TypeOK /\ LeaseInv
  BY DEF RecorderInv
<1>3. /\ claims' \in [Keys -> Records \cup {None}] /\ claims'[k] = None
      /\ \A j \in Keys \ {k} : claims'[j] = claims[j]
  BY <1>1, <1>2 DEF TypeOK
<1>4. TypeOK'
  BY <1>1, <1>2, <1>3 DEF TypeOK, workVars, diskVars
<1>5. Sent' = Sent
  BY <1>1 DEF Sent, workVars
<1>6. SentInv' /\ OrderInv' /\ LaneInv' /\ MemoryInv' /\ LatestInv' /\ NewestInv' /\ DoneInv' /\ WrittenInv'
  BY <1>1, <1>5 DEF RecorderInv, SentInv, OrderInv, LaneInv, LatestInv, NewestInv, DoneInv, MemoryInv,
     WrittenInv, WellFormed, Asks, Pending, Latest, UpToDate, Settled, workVars, diskVars
<1>7. LeaseInv'
  <2>1. holds' = holds /\ fate' = fate /\ owned' = owned
    BY <1>1 DEF workVars, diskVars
  <2>2. ASSUME NEW j \in Keys, claims'[j] # None
        PROVE  j # k /\ claims'[j] = claims[j] /\ \A i \in Keys : claims'[i] = claims'[j] => claims[i] = claims[j]
    BY <1>3, <2>2
  <2> QED BY <1>2, <1>5, <2>1, <2>2 DEF LeaseInv, Owned
<1> QED BY <1>4, <1>6, <1>7 DEF RecorderInv

-----------------------------------------------------------------------------

LEMMA RecorderInit ==
    ASSUME Init
    PROVE  RecorderInv
<1>1. Sent = <<>> /\ DOMAIN Sent = {}
  <2>1. batch = <<>> /\ queue = <<>>
    BY DEF Init
  <2>2. <<>> \o <<>> = <<>>
    BY ConcatEmptySeq
  <2> QED BY <2>1, <2>2 DEF Sent
<1>2. \A k : ~Pending(k)
  BY <1>1 DEF Pending
<1>3. TypeOK
  <2>1. batch \in Seq(Request) /\ queue \in Seq(Request)
    BY DEF Init
  <2>2. /\ lanes \in [Lanes -> [order : Order, tracked : Keys \cup {None}, live : BOOLEAN]]
        /\ last \in [Keys -> [version : Versions \cup {None}, dirty : BOOLEAN]]
        /\ fate \in [Keys -> {"unborn", "open", "Retire", "Keep"}]
        /\ claims \in [Keys -> Records \cup {None}]
    BY DEF Init, Order
  <2>3. /\ shared \in [Lanes -> [key : Keys \cup {None}, requested : Order, done : Order, status : Status]]
        /\ \A l \in Lanes : shared[l].done <= shared[l].requested
    BY DEF Init, Order, Status
  <2>4. /\ newest \in [Keys -> Order] /\ owned \in [Keys -> Records \cup {None}] /\ ended \subseteq Keys
        /\ answer \in Outcome \cup {None} /\ running \in BOOLEAN
        /\ \A k \in Keys : owned[k] = None
    BY DEF Init, Order
  <2>5. memory \in [Records -> Memory]
    BY DEF Init, NoMemory, Memory, Order
  <2>6. /\ holds \in [Records -> Versions \cup {None, Absent}]
        /\ failed \subseteq Keys /\ half \subseteq Records /\ faults \in 0 .. MaxFaults
    BY RecorderAssumption DEF Init
  <2> QED BY <2>1, <2>2, <2>3, <2>4, <2>5, <2>6 DEF TypeOK
<1>4. SentInv /\ OrderInv /\ LatestInv /\ NewestInv
  BY <1>1 DEF SentInv, OrderInv, LatestInv, NewestInv
<1>5. LaneInv
  BY <1>1 DEF Init, LaneInv
<1>6. LeaseInv /\ MemoryInv
  BY <1>1 DEF Init, LeaseInv, MemoryInv
<1>7. DoneInv /\ WrittenInv
  BY DEF Init, DoneInv, WrittenInv
<1> QED BY <1>3, <1>4, <1>5, <1>6, <1>7 DEF RecorderInv

LEMMA RecorderInvKept ==
    ASSUME RecorderInv, [Next]_vars
    PROVE  RecorderInv'
<1>1. CASE \E l \in Lanes, k \in Keys, version \in Versions, dirty \in BOOLEAN :
             Open(l, k, version, dirty) /\ claims[k] = None
  BY <1>1, OpenKeeps
<1>2. CASE \E l \in Lanes, version \in Versions, dirty \in BOOLEAN : Change(l, version, dirty)
  BY <1>2, ChangeKeeps
<1>3. CASE \E k \in Keys, r \in Records : Recover(k, r)
  BY <1>3, RecoverKeeps
<1>4. CASE \E l \in Lanes, k \in Keys : AcceptRecovered(l, k)
  BY <1>4, AcceptRecoveredKeeps
<1>5. CASE \E k \in Keys : DropRecovered(k)
  BY <1>5, DropRecoveredKeeps
<1>6. CASE \E l \in Lanes, how \in {"Retire", "Keep"} : Finish(l, how)
  BY <1>6, FinishKeeps
<1>7. CASE Work
  BY <1>7, TakeKeeps, SkipKeeps, AdoptKeeps, CheckpointAgainKeeps, CheckpointFirstKeeps,
     CheckpointRefusedKeeps, ClearKeeps, EndKeeps, StopKeeps, PostKeeps DEF Work
<1>8. CASE UNCHANGED vars
  <2>1. Sent' = Sent /\ UNCHANGED <<loopVars, queue, workVars, diskVars>>
    BY <1>8 DEF vars, workVars, Sent
  <2>2. TypeOK' /\ SentInv' /\ OrderInv' /\ LaneInv' /\ LeaseInv'
    BY <2>1 DEF RecorderInv, TypeOK, SentInv, OrderInv, LaneInv, LeaseInv, WellFormed, Asks, Pending, Owned,
       loopVars, workVars, diskVars
  <2>3. MemoryInv' /\ LatestInv' /\ NewestInv' /\ DoneInv' /\ WrittenInv'
    BY <2>1 DEF RecorderInv, LatestInv, NewestInv, DoneInv, MemoryInv,
       WrittenInv, Asks, Pending, Latest, UpToDate, Settled, loopVars, workVars, diskVars
  <2> QED BY <2>2, <2>3 DEF RecorderInv
<1> QED BY <1>1, <1>2, <1>3, <1>4, <1>5, <1>6, <1>7, <1>8 DEF Next

-----------------------------------------------------------------------------
(* What the worker takes away.                                             *)

(* A copy changes only by what is asked for the document that owns its     *)
(* record.                                                                 *)
LEMMA OwnTouched ==
    ASSUME RecorderInv, [Next]_vars, NEW r \in Records, holds[r] \in Versions, holds'[r] # holds[r]
    PROVE  batch # <<>> /\ owned[Head(batch).key] = r
<1> DEFINE q == Head(batch)
<1>1. TypeOK /\ holds \in [Records -> Versions \cup {None, Absent}] /\ holds[r] # None /\ holds[r] # Absent
  BY NoneIsNobody DEF RecorderInv, TypeOK
<1>2. ~Swept(r)
  BY <1>1 DEF Swept
<1>3. ~(UNCHANGED holds)
  OBVIOUS
<1>4. Work /\ ~Take /\ ~Skip /\ ~Adopt /\ ~Stop /\ ~Post
  BY <1>3 DEF Next, vars, diskVars, Open, Change, Recover, AcceptRecovered, DropRecovered, Finish,
     Take, Skip, Adopt, Stop, Post
<1>5. batch # <<>>
  BY <1>4 DEF Work, CheckpointAgain, CheckpointFirst, CheckpointRefused, Clear, End, Wanted, Due
<1>6. CASE CheckpointAgain
  <2>1. PublishTo(owned[q.key], q, holds, memory[owned[q.key]])
    BY <1>6 DEF CheckpointAgain
  <2>2. holds' = holds \/ holds' = [holds EXCEPT ![owned[q.key]] = q.version]
    BY <2>1 DEF PublishTo
  <2> HIDE DEF q
  <2>3. owned[q.key] = r
    BY <1>1, <1>3, <2>2
  <2> QED BY <1>5, <2>3 DEF q
<1>7. CASE CheckpointFirst
  <2> DEFINE swept == [s \in Records |-> IF Swept(s) THEN Absent ELSE holds[s]]
  <2>1. PICK s \in Records : swept[s] = Absent /\ PublishTo(s, q, [swept EXCEPT ![s] = None], NoMemory)
    BY <1>7 DEF CheckpointFirst
  <2>2. swept[r] = holds[r] /\ swept \in [Records -> Versions \cup {None, Absent}]
    BY <1>1, <1>2
  <2>3. s # r
    BY <1>1, <2>1, <2>2
  <2> DEFINE made == [swept EXCEPT ![s] = None]
  <2>4. made[r] = holds[r] /\ made \in [Records -> Versions \cup {None, Absent}]
    <3> HIDE DEF swept
    <3> QED BY <2>2, <2>3
  <2>5. holds' = made \/ holds' = [made EXCEPT ![s] = q.version]
    BY <2>1 DEF PublishTo
  <2> HIDE DEF made, q
  <2>6. holds'[r] = holds[r]
    BY <2>3, <2>4, <2>5
  <2> QED BY <2>6
<1>8. CASE CheckpointRefused
  <2>1. holds' = [s \in Records |-> IF Swept(s) THEN Absent ELSE holds[s]]
    BY <1>8 DEF CheckpointRefused
  <2> QED BY <1>2, <2>1
<1>9. CASE Clear
  <2>1. holds' = holds \/ holds' = [holds EXCEPT ![owned[q.key]] = None]
    BY <1>9 DEF Clear
  <2> HIDE DEF q
  <2>2. owned[q.key] = r
    BY <1>1, <1>3, <2>1
  <2> QED BY <1>5, <2>2 DEF q
<1>10. CASE End
  <2>1. holds' = holds \/ \E left : holds' = [holds EXCEPT ![owned[q.key]] = left]
    BY <1>10 DEF End
  <2> HIDE DEF q
  <2>2. owned[q.key] = r
    BY <1>1, <1>3, <2>1
  <2> QED BY <1>5, <2>2 DEF q
<1> QED BY <1>4, <1>6, <1>7, <1>8, <1>9, <1>10 DEF Work

(* The last of a document that the worker does is its End: what was asked  *)
(* before was done or had failed by then, and how it ends is what its lane *)
(* decided.                                                                *)
LEMMA EndsAsDecided ==
    ASSUME RecorderInv, [Next]_vars, NEW k \in (ended' \ ended) \ failed'
    PROVE  LET r == owned[k]
           IN  /\ fate[k] = "Retire" /\ r # None => holds'[r] = Absent
               /\ fate[k] = "Keep" /\ last[k].dirty =>
                     r # None /\ (r \in half \/ holds'[r] = last[k].version)
<1> DEFINE q == Head(batch)
<1>1. End
  <2>1. ~(UNCHANGED ended)
    OBVIOUS
  <2> QED BY <2>1 DEF Next, Work, vars, workVars, Open, Change, Recover, AcceptRecovered, DropRecovered, Finish,
         Take, Skip, Adopt, CheckpointAgain, CheckpointFirst, CheckpointRefused, Clear, Stop, Post
<1>2. /\ running /\ batch # <<>> /\ q.op = "End" /\ ended' = ended \cup {q.key}
  BY <1>1 DEF End, Wanted, Due
<1>3. k = q.key /\ k \notin ended /\ k \notin failed'
  BY <1>2
<1>4. TypeOK /\ batch \in Seq(Request) /\ Len(batch) \in Nat \ {0} /\ q = batch[1]
  BY <1>2, HeadTailProperties, EmptySeq, LenProperties DEF RecorderInv, TypeOK
<1>5. 1 \in DOMAIN Sent /\ Sent[1] = q /\ \A j \in DOMAIN Sent : j # 1 => 1 < j
  BY <1>4, SentSeq
<1>6. fate[k] = q.ending /\ fate[k] \in {"Retire", "Keep"} /\ k \in Keys
  <2>1. fate[q.key] = q.ending /\ q.ending \in {"Retire", "Keep"}
    BY <1>2, <1>5 DEF RecorderInv, SentInv, WellFormed
  <2>2. q \in Request /\ q.key # None
    BY <1>2, <1>5, <1>4, SentSeq DEF RecorderInv, SentInv, WellFormed
  <2> QED BY <1>3, <2>1, <2>2, RequestFields
<1>7. ~Pending(k)
  <2> SUFFICES ASSUME NEW j \in DOMAIN Sent, Asks(Sent[j], k) PROVE FALSE
    BY DEF Pending
  <2>1. j # 1
    BY <1>2, <1>5 DEF Asks
  <2>2. Sent[1].key = Sent[j].key /\ Sent[1].key # None /\ 1 < j
    BY <1>3, <1>5, <1>6, <2>1, NoneIsNobody DEF Asks
  <2> QED BY <1>2, <1>5, <2>2 DEF RecorderInv, OrderInv
<1>8. failed \subseteq failed'
  BY <1>1 DEF End
<1>9. UpToDate(k)
  BY <1>2, <1>3, <1>6, <1>7, <1>8 DEF RecorderInv, DoneInv
<1> HIDE DEF q
<1>10. \/ (owned[k] = None \/ q.ending = "Keep") /\ holds' = holds
       \/ owned[k] # None /\ q.ending = "Retire" /\ holds' = [holds EXCEPT ![owned[k]] = Absent]
       \/ k \in failed'
  BY <1>1, <1>3 DEF End, q
<1>11. owned[k] \in Records \cup {None} /\ holds \in [Records -> Versions \cup {None, Absent}]
  BY <1>4, <1>6 DEF TypeOK
<1> QED BY <1>3, <1>6, <1>9, <1>10, <1>11 DEF UpToDate

-----------------------------------------------------------------------------
(* To the worker a record is one copy.                                     *)

CopyStep(r) == Copied(r)!Next \/ UNCHANGED Copied(r)!vars

(* A record that neither changes hands nor what it shows.                  *)
LEMMA CopyRests ==
    ASSUME NEW r \in Records, Owned(r)' = Owned(r),
           holds'[r] = holds[r] \/ (holds[r] \in {None, Absent} /\ holds'[r] \in {None, Absent}),
           Owned(r) => memory'[r].current = memory[r].current /\ memory'[r].confirmed = memory[r].confirmed
    PROVE  CopyStep(r)
<1>1. CopyIn(r)' = CopyIn(r)
  BY DEF CopyIn
<1>2. Remembered(r)' = Remembered(r)
  BY DEF Remembered
<1>3. Sure(r)' = Sure(r)
  BY DEF Sure
<1> QED BY <1>1, <1>2, <1>3 DEF CopyStep, Copied!vars

LEMMA CopyOwned ==
    ASSUME NEW r \in Records, ~Owned(r), Owned(r)', holds'[r] \in Versions \cup {None},
           holds[r] \in {None, Absent} \/ (holds[r] \in Versions /\ holds'[r] = holds[r]),
           memory'[r].current = holds'[r]
    PROVE  CopyStep(r)
<1>1. CopyIn(r)' = holds'[r] /\ Remembered(r)' = holds'[r]
  BY NoneIsNobody DEF CopyIn, Remembered
<1>2. CopyIn(r) = None \/ (CopyIn(r) # Absent /\ CopyIn(r)' = CopyIn(r))
  BY <1>1, NoneIsNobody DEF CopyIn
<1>3. Sure(r)' \in BOOLEAN
  BY DEF Sure
<1> QED BY <1>1, <1>2, <1>3 DEF CopyStep, Copied!Next, Copied!Own

LEMMA CopyPublished ==
    ASSUME NEW r \in Records, Owned(r), Owned(r)', holds'[r] \in Versions,
           memory'[r].current = holds'[r]
    PROVE  CopyStep(r)
<1>1. CopyIn(r)' = holds'[r] /\ Remembered(r)' = holds'[r]
  BY NoneIsNobody DEF CopyIn, Remembered
<1>2. Sure(r)' \in BOOLEAN
  BY DEF Sure
<1> QED BY <1>1, <1>2 DEF CopyStep, Copied!Next, Copied!Publish

LEMMA CopyCleared ==
    ASSUME NEW r \in Records, Owned(r), Owned(r)', holds'[r] = None,
           memory'[r].current \in {memory[r].current, None}
    PROVE  CopyStep(r)
<1>1. CopyIn(r)' = None /\ Remembered(r)' \in {Remembered(r), None}
  BY NoneIsNobody DEF CopyIn, Remembered
<1>2. Sure(r)' \in BOOLEAN
  BY DEF Sure
<1>3. Owned(r)' = Owned(r)
  BY DEF Owned
<1> QED BY <1>1, <1>2, <1>3 DEF CopyStep, Copied!Next, Copied!Clear

LEMMA CopyLetGo ==
    ASSUME NEW r \in Records, Owned(r), ~Owned(r)', holds'[r] \in {holds[r], None, Absent}
    PROVE  CopyStep(r)
<1>1. CopyIn(r)' \in {CopyIn(r), None} /\ Remembered(r)' = None
  BY DEF CopyIn, Remembered
<1>2. Sure(r)' \in BOOLEAN
  BY DEF Sure
<1> QED BY <1>1, <1>2 DEF CopyStep, Copied!Next, Copied!LetGo

(* What publishing to record r leaves of it and of the others.             *)
LEMMA PublishesCopy ==
    ASSUME NEW r \in Records, NEW q \in Request, NEW mem \in Memory, q.version \in Versions, q.order \in Order,
           NEW swept \in [Records -> Versions \cup {None, Absent}],
           memory \in [Records -> Memory], PublishTo(r, q, swept, mem)
    PROVE  /\ \A s \in Records \ {r} : holds'[s] = swept[s] /\ memory'[s] = memory[s]
           /\ \/ holds'[r] = swept[r] /\ memory'[r].current = mem.current
                 /\ memory'[r].confirmed = mem.confirmed
              \/ holds'[r] = q.version /\ memory'[r].current = q.version
<1> DEFINE ordered == [mem EXCEPT !.order = q.order]
           whole == [current |-> q.version, confirmed |-> TRUE, order |-> q.order]
           unsure == [current |-> q.version, confirmed |-> FALSE, order |-> q.order]
<1>1. /\ ordered \in Memory /\ ordered.current = mem.current /\ ordered.confirmed = mem.confirmed
      /\ whole \in Memory /\ whole.current = q.version
      /\ unsure \in Memory /\ unsure.current = q.version
  BY DEF Memory
<1> HIDE DEF ordered, whole, unsure
<1>2. \/ holds' = swept /\ memory' = [memory EXCEPT ![r] = ordered]
      \/ /\ holds' = [swept EXCEPT ![r] = q.version]
         /\ memory' = [memory EXCEPT ![r] = whole] \/ memory' = [memory EXCEPT ![r] = unsure]
  BY DEF PublishTo, ordered, whole, unsure
<1> QED BY <1>1, <1>2

(* The record at hand changes hands or its copy, every other one rests.    *)
LEMMA CopyKept ==
    ASSUME RecorderInv, [Next]_vars, NEW r \in Records
    PROVE  CopyStep(r)
<1> DEFINE q == Head(batch)
           s == owned[q.key]
<1>1. /\ owned \in [Keys -> Records \cup {None}] /\ memory \in [Records -> Memory]
      /\ holds \in [Records -> Versions \cup {None, Absent}]
      /\ \A k \in Keys : owned[k] # None => holds[owned[k]] # Absent
  BY DEF RecorderInv, TypeOK
<1>2. r # None /\ \A k \in Keys : Owned(r) /\ owned[k] = r => \A j \in Keys : owned[j] = r => j = k
  BY NoneIsNobody DEF RecorderInv, LeaseInv
<1>3. CASE UNCHANGED <<owned, memory, holds>>
  BY <1>3, CopyRests DEF Owned
<1>4. CASE Adopt
  <2>1. Wanted("Adopt") /\ batch # <<>> /\ q.op = "Adopt" /\ holds' = holds
    BY <1>4 DEF Adopt, Wanted, Due
  <2>2. q \in Request /\ WellFormed(q)
    BY <2>1, AtHand
  <2>3. q.record \in Records /\ q.key \in Keys
    BY <2>1, <2>2, RequestFields DEF WellFormed
  <2>4. holds[q.record] \in Versions /\ ~Owned(q.record)
    <3>1. 1 \in DOMAIN Sent /\ Sent[1] = q
      <4>1. batch \in Seq(Request)
        BY DEF RecorderInv, TypeOK
      <4>2. q = batch[1] /\ 1 \in 1 .. Len(batch)
        BY <2>1, <4>1, HeadTailProperties, EmptySeq
      <4> QED BY <4>2, SentSeq DEF RecorderInv
    <3> QED BY <2>3, <3>1, NoneIsNobody DEF RecorderInv, LeaseInv
  <2> DEFINE taken == [current |-> holds[q.record], confirmed |-> TRUE, order |-> 0]
  <2>5. CASE owned' = [owned EXCEPT ![q.key] = q.record] /\ memory' = [memory EXCEPT ![q.record] = taken]
    <3> HIDE DEF q
    <3>1. CASE r = q.record
      <4>1. ~Owned(r) /\ Owned(r)'
        BY <1>1, <2>3, <2>4, <2>5, <3>1 DEF Owned
      <4>2. memory'[r].current = holds'[r]
        BY <1>1, <2>1, <2>3, <2>5, <3>1
      <4> QED BY <2>1, <2>4, <3>1, <4>1, <4>2, CopyOwned
    <3>2. CASE r # q.record
      <4>1. memory'[r] = memory[r]
        BY <1>1, <2>5, <3>2
      <4>2. Owned(r)' => Owned(r)
        BY <1>1, <2>5, <3>2 DEF Owned
      <4>3. CASE Owned(r)'
        <5>1. Owned(r)' = Owned(r)
          BY <4>2, <4>3 DEF Owned
        <5> QED BY <2>1, <4>1, <5>1, CopyRests
      <4>4. CASE ~Owned(r)' /\ Owned(r)
        BY <2>1, <4>4, CopyLetGo
      <4>5. CASE ~Owned(r)' /\ ~Owned(r)
        <5>1. Owned(r)' = Owned(r)
          BY <4>5 DEF Owned
        <5> QED BY <2>1, <4>1, <5>1, CopyRests
      <4> QED BY <4>3, <4>4, <4>5
    <3> QED BY <3>1, <3>2
  <2> QED BY <1>3, <1>4, <2>1, <2>5 DEF Adopt
<1>5. CASE CheckpointAgain
  <2>1. s # None /\ PublishTo(s, q, holds, memory[s]) /\ owned' = owned /\ Wanted("Checkpoint")
    BY <1>5 DEF CheckpointAgain
  <2>2. q \in Request /\ q.key \in Keys /\ q.version \in Versions
    BY <2>1, CheckpointHand
  <2>3. s \in Records /\ memory[s] \in Memory /\ q.order \in Order /\ Owned(s)
    BY <1>1, <2>1, <2>2, RequestFields DEF Owned, Order
  <2> HIDE DEF q, s
  <2>4. /\ \A t \in Records \ {s} : holds'[t] = holds[t] /\ memory'[t] = memory[t]
        /\ \/ holds'[s] = holds[s] /\ memory'[s].current = memory[s].current
              /\ memory'[s].confirmed = memory[s].confirmed
           \/ holds'[s] = q.version /\ memory'[s].current = q.version
    <3>1. PICK mem \in Memory : mem = memory[s]
      BY <2>3
    <3>2. PublishTo(s, q, holds, mem)
      BY <2>1, <3>1
    <3>3. /\ \A t \in Records \ {s} : holds'[t] = holds[t] /\ memory'[t] = memory[t]
          /\ \/ holds'[s] = holds[s] /\ memory'[s].current = mem.current
                /\ memory'[s].confirmed = mem.confirmed
             \/ holds'[s] = q.version /\ memory'[s].current = q.version
      BY <1>1, <2>2, <2>3, <3>2, PublishesCopy
    <3> QED BY <3>1, <3>3
  <2>5. Owned(r)' = Owned(r)
    BY <2>1 DEF Owned
  <2>6. CASE r = s /\ holds'[s] = q.version /\ memory'[s].current = q.version
    BY <2>2, <2>3, <2>5, <2>6, CopyPublished
  <2>7. CASE ~(r = s /\ holds'[s] = q.version /\ memory'[s].current = q.version)
    BY <2>4, <2>5, <2>7, CopyRests
  <2> QED BY <2>6, <2>7
<1>6. CASE CheckpointFirst
  <2> DEFINE swept == [t \in Records |-> IF Swept(t) THEN Absent ELSE holds[t]]
  <2>1. PICK t \in Records : /\ swept[t] = Absent /\ owned' = [owned EXCEPT ![q.key] = t]
                             /\ PublishTo(t, q, [swept EXCEPT ![t] = None], NoMemory)
    BY <1>6 DEF CheckpointFirst
  <2>2. owned[q.key] = None /\ Wanted("Checkpoint")
    BY <1>6 DEF CheckpointFirst
  <2>3. q \in Request /\ q.key \in Keys /\ q.version \in Versions /\ q.order \in Order
    BY <2>2, CheckpointHand, RequestFields DEF Order
  <2>4. \A u \in Records : swept[u] = holds[u] \/ (holds[u] = None /\ swept[u] = Absent)
    BY DEF Swept
  <2>5. swept \in [Records -> Versions \cup {None, Absent}]
    BY <1>1
  <2>6. ~Owned(t) /\ holds[t] \in {None, Absent}
    BY <1>1, <2>1, <2>4, NoneIsNobody DEF Swept, Leased, Owned
  <2> DEFINE made == [swept EXCEPT ![t] = None]
  <2> HIDE DEF q, swept
  <2>7. made \in [Records -> Versions \cup {None, Absent}] /\ made[t] = None
        /\ \A u \in Records \ {t} : made[u] = swept[u]
    BY <2>5
  <2>8. NoMemory \in Memory /\ NoMemory.current = None
    BY DEF NoMemory, Memory, Order
  <2> HIDE DEF made
  <2>9. PublishTo(t, q, made, NoMemory)
    BY <2>1 DEF made
  <2>10. /\ \A u \in Records \ {t} : holds'[u] = made[u] /\ memory'[u] = memory[u]
         /\ \/ holds'[t] = made[t] /\ memory'[t].current = NoMemory.current
            \/ holds'[t] = q.version /\ memory'[t].current = q.version
    BY <1>1, <2>3, <2>7, <2>8, <2>9, PublishesCopy
  <2>11. CASE r = t
    <3>1. Owned(r)'
      BY <1>1, <2>1, <2>3, <2>11 DEF Owned
    <3>2. holds'[r] \in Versions \cup {None} /\ memory'[r].current = holds'[r]
      BY <2>3, <2>7, <2>8, <2>10, <2>11
    <3> QED BY <2>6, <2>11, <3>1, <3>2, CopyOwned
  <2>12. CASE r # t
    <3>1. Owned(r)' = Owned(r)
      BY <1>1, <1>2, <2>1, <2>2, <2>12 DEF Owned
    <3>2. holds'[r] = holds[r] \/ (holds[r] \in {None, Absent} /\ holds'[r] \in {None, Absent})
      BY <2>4, <2>7, <2>10, <2>12
    <3> QED BY <2>10, <2>12, <3>1, <3>2, CopyRests
  <2> QED BY <2>11, <2>12
<1>7. CASE CheckpointRefused
  <2>1. /\ holds' = [t \in Records |-> IF Swept(t) THEN Absent ELSE holds[t]]
        /\ UNCHANGED <<owned, memory>>
    BY <1>7 DEF CheckpointRefused
  <2>2. holds'[r] = holds[r] \/ (holds[r] = None /\ holds'[r] = Absent)
    BY <2>1 DEF Swept
  <2>3. Owned(r)' = Owned(r)
    BY <2>1 DEF Owned
  <2> QED BY <2>1, <2>2, <2>3, CopyRests
<1>8. CASE Clear
  <2>1. owned' = owned /\ Wanted("Clear")
    BY <1>8 DEF Clear
  <2>2. Owned(r)' = Owned(r)
    BY <2>1 DEF Owned
  <2>3. \/ UNCHANGED <<holds, memory>>
        \/ /\ s # None /\ holds' = [holds EXCEPT ![s] = None]
           /\ memory' = [memory EXCEPT ![s].current = None, ![s].order = q.order]
        \/ /\ s # None /\ memory' = [memory EXCEPT ![s].order = q.order]
           /\ holds' = holds \/ holds' = [holds EXCEPT ![s] = None]
    BY <1>8 DEF Clear
  <2>4. q.key \in Keys
    <3>1. batch # <<>> /\ q.op = "Clear"
      BY <2>1 DEF Wanted, Due
    <3>2. q \in Request /\ WellFormed(q)
      BY <3>1, AtHand
    <3> QED BY <3>1, <3>2, RequestFields DEF WellFormed
  <2>5. s # None => s \in Records /\ Owned(s)
    BY <1>1, <2>4 DEF Owned
  <2> HIDE DEF q, s
  <2>6. \A t \in Records : memory[t] \in [current : Versions \cup {None}, confirmed : BOOLEAN, order : Nat]
    BY <1>1 DEF Memory, Order
  <2>7. CASE r # s
    <3>1. holds'[r] = holds[r] /\ memory'[r] = memory[r]
      BY <1>1, <2>3, <2>7
    <3> QED BY <2>2, <3>1, CopyRests
  <2>8. CASE r = s
    <3>1. /\ memory'[r].confirmed = memory[r].confirmed
          /\ \/ holds'[r] = holds[r] /\ memory'[r].current = memory[r].current
             \/ holds'[r] = None /\ memory'[r].current \in {memory[r].current, None}
      BY <1>1, <2>3, <2>6, <2>8
    <3>2. Owned(r) /\ Owned(r)'
      BY <1>2, <2>2, <2>5, <2>8
    <3> QED BY <2>2, <3>1, <3>2, CopyRests, CopyCleared
  <2> QED BY <2>7, <2>8
<1>9. CASE End
  <2>1. memory' = memory /\ owned' = [owned EXCEPT ![q.key] = None]
        /\ (holds' = holds \/ (s # None /\ \E left \in {holds[s], None, Absent} : holds' = [holds EXCEPT ![s] = left]))
    BY <1>9 DEF End
  <2>0. q.key \in Keys
    BY <1>9, EndHand
  <2> HIDE DEF q
  <2>2. CASE s # r
    <3>1. Owned(r)' = Owned(r)
      BY <1>1, <1>2, <2>1, <2>2 DEF Owned
    <3>2. holds'[r] = holds[r]
      BY <1>1, <2>1, <2>2
    <3> QED BY <2>1, <3>1, <3>2, CopyRests
  <2>3. CASE s = r
    <3>1. holds'[r] \in {holds[r], None, Absent}
      BY <1>1, <2>1, <2>3
    <3>2. Owned(r)
      BY <2>0, <2>3 DEF Owned
    <3>3. ~Owned(r)'
      BY <1>1, <1>2, <2>0, <2>1, <2>3, <3>2 DEF Owned
    <3> QED BY <3>1, <3>2, <3>3, CopyLetGo
  <2> QED BY <2>2, <2>3
<1>10. CASE Stop
  <2>1. owned' = [k \in Keys |-> None] /\ UNCHANGED <<memory, holds>>
    BY <1>10 DEF Stop, diskVars
  <2>2. ~Owned(r)'
    BY <1>2, <2>1 DEF Owned
  <2>3. CASE Owned(r)
    BY <2>1, <2>2, <2>3, CopyLetGo
  <2>4. CASE ~Owned(r)
    <3>1. Owned(r)' = Owned(r)
      BY <2>2, <2>4 DEF Owned
    <3> QED BY <2>1, <3>1, CopyRests
  <2> QED BY <2>3, <2>4
<1>11. QED
  <2>1. CASE Take \/ Skip \/ Post \/ UNCHANGED vars
    BY <1>3, <2>1 DEF Take, Skip, Post, vars, workVars, diskVars
  <2>2. CASE Next /\ ~Work
    BY <1>3, <2>2 DEF Next, Open, Change, Recover, AcceptRecovered, DropRecovered, Finish, workVars, diskVars
  <2> QED BY <1>4, <1>5, <1>6, <1>7, <1>8, <1>9, <1>10, <2>1, <2>2 DEF Work

-----------------------------------------------------------------------------
(* Theorems.                                                               *)

(* However the tabs open, change, recover and close documents, and however *)
(* far the worker is behind: the parts of the invariant hold together, so  *)
(* the requests of a document are never out of order, and what the worker  *)
(* remembers of a record is what its manifest names.                       *)
THEOREM RecorderIsKept == Spec => []RecorderInv
<1>1. Init => RecorderInv
  BY RecorderInit
<1>2. RecorderInv /\ [Next]_vars => RecorderInv'
  BY RecorderInvKept
<1> QED BY <1>1, <1>2, PTL DEF Spec

(* Lanes, requests, answers and records have their types; a lane is never  *)
(* told of more than it asked for, and an owned record is there.           *)
THEOREM RecorderTyped == Spec => []TypeOK
<1>1. RecorderInv => TypeOK
  BY DEF RecorderInv
<1> QED BY <1>1, RecorderIsKept, PTL

(* A record directory is leased once, whether its document is on the way   *)
(* to be recovered, in an Adopt in the channel, or owned by the worker:    *)
(* two documents never write one record, and none is swept before it is    *)
(* adopted.                                                                *)
THEOREM RecordsAreLeasedOnce == Spec => []LeaseInv
<1>1. RecorderInv => LeaseInv
  BY DEF RecorderInv
<1> QED BY <1>1, RecorderIsKept, PTL

(* A lane that says "written" has a copy of exactly what it observed last, *)
(* unless a clear stopped half way (CopyStatus::Written).                  *)
THEOREM WrittenMeansCopied == Spec => []WrittenIsTrue
<1>1. ASSUME RecorderInv PROVE WrittenIsTrue
  <2> SUFFICES ASSUME NEW l \in Lanes, shared[l].status = "Written", running,
                      NEW k, k = shared[l].key
               PROVE  last[k].dirty /\ (owned[k] \in half \/ Holding(k) = last[k].version)
    BY DEF WrittenIsTrue
  <2>1. k = lanes[l].tracked /\ k # None /\ fate[k] = "open"
    BY <1>1 DEF RecorderInv, LaneInv
  <2>2. k \in Keys
    BY <1>1, <2>1 DEF RecorderInv, TypeOK
  <2>3. last[k].dirty /\ k \notin failed /\ ~Pending(k)
    BY <1>1 DEF RecorderInv, WrittenInv, Settled
  <2>4. k \notin ended
    BY <1>1, <2>1 DEF RecorderInv, LaneInv
  <2>5. UpToDate(k)
    BY <1>1, <2>1, <2>2, <2>3, <2>4 DEF RecorderInv, DoneInv
  <2> QED BY <2>3, <2>5 DEF UpToDate, Holding
<1> QED BY <1>1, RecorderIsKept, PTL

(* No request of one document takes away or writes over the copy of        *)
(* another, or an orphan that can still be recovered, not even the sweep   *)
(* that makes room for a new record.                                       *)
THEOREM OthersCopiesAreSafe == Spec => CopiesAreSafe
<1>1. ASSUME RecorderInv, [Next]_vars
      PROVE  [ \A r \in Records :
                 holds[r] \in Versions /\ holds'[r] # holds[r] =>
                   /\ batch # <<>>
                   /\ owned[Head(batch).key] = r ]_vars
  BY <1>1, OwnTouched
<1> QED BY <1>1, RecorderIsKept, PTL DEF Spec, CopiesAreSafe

(* A document ends as its lane decided, with nothing it asked for undone:  *)
(* a retired one leaves no record, one kept unsaved leaves the version     *)
(* observed last, whatever was skipped as superseded.                      *)
THEOREM EndsAreAsDecided == Spec => DecisionsAreKept
<1>1. ASSUME RecorderInv, [Next]_vars
      PROVE  [ \A k \in (ended' \ ended) \ failed' :
                 LET r == owned[k]
                 IN  /\ fate[k] = "Retire" /\ r # None => holds'[r] = Absent
                     /\ fate[k] = "Keep" /\ last[k].dirty =>
                           r # None /\ (r \in half \/ holds'[r] = last[k].version) ]_vars
  BY <1>1, EndsAsDecided
<1> QED BY <1>1, RecorderIsKept, PTL DEF Spec, DecisionsAreKept

(* The worker uses each record as its own calls allow: whatever is         *)
(* observed, coalesced, refused or fails, a record is one copy that its    *)
(* owner replaces or empties, and that stays when its owner is gone.       *)
THEOREM RecordsAreCopies == Spec => ImplementsCopies
<1>1. ASSUME Init, NEW r \in Records PROVE Copied(r)!Init
  <2>1. ~Owned(r) /\ holds[r] \in Versions \cup {None, Absent}
    BY <1>1, NoneIsNobody DEF Init, Owned
  <2>2. CopyIn(r) \in Versions \cup {None} /\ Remembered(r) = None
    BY <2>1 DEF CopyIn, Remembered
  <2>3. Owned(r) \in BOOLEAN /\ Sure(r) \in BOOLEAN
    BY DEF Owned, Sure
  <2> QED BY <2>1, <2>2, <2>3 DEF Copied!Init
<1>2. Init => \A r \in Records : Copied(r)!Init
  BY <1>1
<1>3. RecorderInv /\ [Next]_vars => [\A r \in Records : Copied(r)!Next \/ UNCHANGED Copied(r)!vars]_vars
  BY CopyKept DEF CopyStep
<1> QED BY <1>2, <1>3, RecorderIsKept, PTL DEF Spec, ImplementsCopies
=============================================================================
