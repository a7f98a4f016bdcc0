---------------------------- MODULE WorkLoop_proofs ----------------------------
(***************************************************************************)
(* WorkLoop, for any bounds: what the queue's order promises, how often    *)
(* the planner is asked, and what is left on disk.                         *)
(***************************************************************************)
EXTENDS WorkLoop, SequenceTheorems, WellFoundedInduction, TLAPS

(***************************************************************************)
(* A ledger's entries are numbered from one, each number once.             *)
(***************************************************************************)
Queue(tasks) ==
  /\ tasks \in Seq(EntryOK) /\ Len(tasks) <= MaxTasks
  /\ \A i \in 1..Len(tasks) : tasks[i].id <= Len(tasks)
  /\ \A i, j \in 1..Len(tasks) : tasks[i].id = tasks[j].id => i = j
  /\ \A n \in 1..Len(tasks) : \E i \in 1..Len(tasks) : tasks[i].id = n

LEMMA Bounds ==
  /\ MaxTasks \in Nat /\ MaxBlockedConsults \in Nat
  /\ MaxRevisions \in Nat /\ MaxProcesses \in Nat
  BY WorkLoopAssumption

LEMMA QueueIsLedger ==
  ASSUME NEW tasks, Queue(tasks)
  PROVE  IsLedger(tasks) /\ DOMAIN tasks = 1..Len(tasks) /\ Len(tasks) \in Nat
         /\ \A i \in 1..Len(tasks) : tasks[i] \in EntryOK
<1>1. Len(tasks) \in Nat /\ DOMAIN tasks = 1..Len(tasks) /\ tasks \in [1..Len(tasks) -> EntryOK]
  BY LenProperties DEF Queue
<1>2. \A i \in 1..Len(tasks) : tasks[i] \in EntryOK /\ tasks[i].id \in 1..MaxTasks
  BY <1>1 DEF EntryOK
<1>3. Ids(tasks) = 1..Len(tasks)
  <2>1. \A n \in Ids(tasks) : n \in 1..Len(tasks)
    BY <1>1, <1>2, Bounds DEF Queue, Ids
  <2>2. \A n \in 1..Len(tasks) : n \in Ids(tasks)
    BY <1>1 DEF Queue, Ids
  <2> QED
    BY <2>1, <2>2
<1> QED
  BY <1>1, <1>2, <1>3 DEF IsLedger, Queue

-----------------------------------------------------------------------------
(***************************************************************************)
(* The operators on a ledger.                                              *)
(***************************************************************************)
(***************************************************************************)
(* set_status keeps every entry and its place, and changes one status.     *)
(***************************************************************************)
LEMMA SetStatusKeeps ==
  ASSUME NEW tasks, Queue(tasks), NEW id, NEW st \in TaskStatus
  PROVE  LET new == set_status(tasks, id, st)
         IN  /\ Queue(new) /\ Len(new) = Len(tasks)
             /\ \A i \in 1..Len(tasks) :
                  /\ new[i].id = tasks[i].id /\ new[i].unblocks = tasks[i].unblocks
                  /\ new[i].status = IF tasks[i].id = id THEN st ELSE tasks[i].status
<1> DEFINE new == set_status(tasks, id, st)
<1>1. /\ Len(tasks) \in Nat /\ DOMAIN tasks = 1..Len(tasks)
      /\ \A i \in 1..Len(tasks) : tasks[i] \in EntryOK
  BY QueueIsLedger
<1>2. \A i \in 1..Len(tasks) :
        /\ new[i] \in EntryOK
        /\ new[i].id = tasks[i].id /\ new[i].unblocks = tasks[i].unblocks
        /\ new[i].status = IF tasks[i].id = id THEN st ELSE tasks[i].status
  BY <1>1 DEF set_status, EntryOK
<1>3. new = [i \in 1..Len(tasks) |-> new[i]]
  BY <1>1 DEF set_status
<1>4. new \in Seq(EntryOK) /\ Len(new) = Len(tasks)
  BY <1>1, <1>2, <1>3
<1> HIDE DEF new
<1>5. Queue(new)
  BY <1>2, <1>4, ZenonT(60) DEF Queue
<1> QED
  BY <1>2, <1>4, <1>5 DEF new

(***************************************************************************)
(* A nonempty set of naturals has its minimum.                             *)
(***************************************************************************)
Less == {ss \in Nat \X Nat : ss[1] < ss[2]}
LEMMA Smallest ==
  ASSUME NEW T, T \subseteq Nat, T # {}
  PROVE  Min(T) \in T /\ \A y \in T : Min(T) <= y
<1>1. IsWellFoundedOn(Less, Nat)
  BY NatLessThanWellFounded DEF OpToRel, Less
<1>2. PICK x \in T : \A y \in T : ~(<<y,x>> \in Less)
  BY <1>1, WFMin
<1>3. \A y \in T : x <= y
  <2> SUFFICES ASSUME NEW y \in T PROVE x <= y
    OBVIOUS
  <2>1. x \in Nat /\ y \in Nat
    OBVIOUS
  <2>2. ~(y < x)
    BY <1>2, <2>1 DEF Less
  <2> QED
    BY <2>1, <2>2
<1> QED
  BY <1>3 DEF Min

(***************************************************************************)
(* A sequence put into another one, before position `at`.                  *)
(***************************************************************************)
LEMMA Splice ==
  ASSUME NEW S, NEW s \in Seq(S), NEW m \in Seq(S), NEW at \in 1..Len(s)+1
  PROVE LET new == SubSeq(s,1,at-1) \o m \o SubSeq(s,at,Len(s))
        IN /\ new \in Seq(S) /\ Len(new) = Len(s)+Len(m)
           /\ \A i \in 1..Len(s)+Len(m) :
                new[i] = IF i < at THEN s[i]
                         ELSE IF i < at+Len(m) THEN m[i-at+1] ELSE s[i-Len(m)]
<1> DEFINE head == SubSeq(s,1,at-1)
           tail == SubSeq(s,at,Len(s))
<1>1. Len(s) \in Nat /\ Len(m) \in Nat /\ at \in Nat /\ at >= 1 /\ at <= Len(s)+1
  BY LenProperties
<1>2. \A i \in 1..Len(s) : s[i] \in S
  BY ElementOfSeq
<1>3. head \in Seq(S) /\ Len(head) = at - 1 /\ \A i \in 1..at-1 : head[i] = s[i]
  <2>1. \A i \in 1..at-1 : s[i] \in S
    BY <1>1, <1>2
  <2>2. /\ SubSeq(s,1,at-1) \in Seq(S)
        /\ Len(SubSeq(s,1,at-1)) = IF 1<=at-1 THEN at-1-1+1 ELSE 0
        /\ \A i \in 1 .. at-1-1+1 : SubSeq(s,1,at-1)[i] = s[1+i-1]
    BY <1>1, <2>1, SubSeqProperties
  <2> QED
    BY <1>1, <2>2
<1>4. /\ tail \in Seq(S) /\ Len(tail) = Len(s) - at + 1
      /\ \A i \in 1..Len(s)-at+1 : tail[i] = s[at+i-1]
  <2>1. \A i \in at..Len(s) : s[i] \in S
    BY <1>1, <1>2
  <2>2. /\ SubSeq(s,at,Len(s)) \in Seq(S)
        /\ Len(SubSeq(s,at,Len(s))) = IF at<=Len(s) THEN Len(s)-at+1 ELSE 0
        /\ \A i \in 1 .. Len(s)-at+1 : SubSeq(s,at,Len(s))[i] = s[at+i-1]
    BY <1>1, <2>1, SubSeqProperties
  <2> QED
    BY <1>1, <2>2
<1> HIDE DEF head, tail
<1>5. /\ head \o m \in Seq(S)
      /\ Len(head \o m) = Len(head) + Len(m)
      /\ \A i \in 1..Len(head) + Len(m) :
           (head \o m)[i] = IF i <= Len(head) THEN head[i] ELSE m[i-Len(head)]
  BY <1>3, ConcatProperties
<1> DEFINE fore == head \o m
<1>6. fore \in Seq(S) /\ Len(fore) = at-1+Len(m)
      /\ \A i \in 1..at-1+Len(m) : fore[i] = IF i < at THEN s[i] ELSE m[i-at+1]
  <2>1. fore \in Seq(S) /\ Len(fore) = at-1+Len(m)
    BY <1>5, <1>3
  <2>2. ASSUME NEW i \in 1..at-1+Len(m) PROVE fore[i] = IF i < at THEN s[i] ELSE m[i-at+1]
    <3>1. fore[i] = IF i <= at-1 THEN head[i] ELSE m[i-(at-1)]
      BY <1>5, <1>3
    <3>2. CASE i < at
      BY <3>1, <3>2, <1>3, <1>1
    <3>3. CASE ~(i < at)
      <4>1. i - (at-1) = i-at+1 /\ ~(i <= at-1)
        BY <3>3, <1>1
      <4> QED
        BY <3>1, <3>3, <4>1
    <3> QED
      BY <3>2, <3>3
  <2> QED
    BY <2>1, <2>2
<1> HIDE DEF fore
<1>7. /\ fore \o tail \in Seq(S)
      /\ Len(fore \o tail) = Len(fore) + Len(tail)
      /\ \A i \in 1..Len(fore) + Len(tail) :
           (fore \o tail)[i] = IF i <= Len(fore) THEN fore[i] ELSE tail[i-Len(fore)]
  <2>1. fore \in Seq(S) /\ tail \in Seq(S)
    BY <1>6, <1>4
  <2> QED
    BY <2>1, ConcatProperties
<1>8. Len(fore) + Len(tail) = Len(s) + Len(m)
  BY <1>1, <1>4, <1>6
<1>9. ASSUME NEW i \in 1..Len(s)+Len(m)
      PROVE (fore \o tail)[i] = IF i < at THEN s[i]
                                 ELSE IF i < at+Len(m) THEN m[i-at+1] ELSE s[i-Len(m)]
  <2>1. (fore \o tail)[i] = IF i <= at-1+Len(m) THEN fore[i] ELSE tail[i-(at-1+Len(m))]
    BY <1>6, <1>7, <1>8
  <2>2. CASE i < at+Len(m)
    <3>1. i \in 1..at-1+Len(m) /\ i <= at-1+Len(m)
      BY <2>2, <1>1
    <3>2. CASE i < at
      BY <3>1, <3>2, <2>1, <1>6
    <3>3. CASE ~(i < at)
      BY <3>1, <3>3, <2>1, <2>2, <1>6
    <3> QED
      BY <3>2, <3>3
  <2>3. CASE ~(i < at+Len(m))
    <3>1. /\ i-(at-1+Len(m)) \in 1..Len(s)-at+1 /\ ~(i <= at-1+Len(m))
          /\ at+(i-(at-1+Len(m)))-1 = i-Len(m) /\ ~(i < at)
      BY <2>3, <1>1
    <3>2. tail[i-(at-1+Len(m))] = s[at+(i-(at-1+Len(m)))-1]
      BY <3>1, <1>4
    <3> QED
      BY <3>1, <3>2, <2>1, <2>3
  <2> QED
    BY <2>2, <2>3
<1> QED
  BY <1>7, <1>8, <1>9 DEF fore, head, tail
(***************************************************************************)
(* next_pending is the first pending entry, if there is one.               *)
(***************************************************************************)
LEMMA NextPendingIsFirst ==
  ASSUME NEW tasks, Queue(tasks)
  PROVE  LET at == next_pending(tasks)
         IN  \/ at = 0 /\ \A i \in 1..Len(tasks) : tasks[i].status # "pending"
             \/ /\ at \in 1..Len(tasks) /\ tasks[at].status = "pending"
                /\ \A i \in 1..Len(tasks) : i < at => tasks[i].status # "pending"
<1> DEFINE I == {i \in 1..Len(tasks) : tasks[i].status = "pending"}
<1>1. next_pending(tasks) = IF I # {} THEN Min(I) ELSE 0
  BY DEF next_pending, SelectInSeq
<1>2. I \subseteq 1..Len(tasks) /\ I \subseteq Nat
  BY QueueIsLedger
<1>3. \A i \in 1..Len(tasks) : i \in I <=> tasks[i].status = "pending"
  OBVIOUS
<1> HIDE DEF I
<1>4. CASE I = {}
  BY <1>1, <1>3, <1>4
<1>5. CASE I # {}
  <2>1. Min(I) \in I /\ \A y \in I : Min(I) <= y
    BY <1>2, <1>5, Smallest
  <2>2. Min(I) \in 1..Len(tasks) /\ tasks[Min(I)].status = "pending"
    BY <2>1, <1>2, <1>3
  <2>3. ASSUME NEW i \in 1..Len(tasks), i < Min(I)
        PROVE  tasks[i].status # "pending"
    <3>1. CASE i \in I
      <4>1. i \in Nat /\ Min(I) \in Nat /\ Min(I) <= i
        BY <3>1, <2>1, <1>2
      <4> QED
        BY <4>1, <2>3
    <3> QED
      BY <3>1, <1>3
  <2> QED
    BY <2>2, <2>3, <1>1, <1>3, <1>5
<1> QED
  BY <1>4, <1>5

(***************************************************************************)
(* add_tasks puts new entries, numbered on, between two parts of the       *)
(* ledger it leaves as they are.                                           *)
(***************************************************************************)
Inserted(tasks, count, unblocker, at, i) ==
  IF i < at THEN tasks[i]
  ELSE IF i < at + count
         THEN [id |-> Len(tasks) + i - at + 1, status |-> "pending", unblocks |-> unblocker]
         ELSE tasks[i - count]

LEMMA AddTasksInserts ==
  ASSUME NEW tasks, Queue(tasks), NEW count \in Nat \ {0}, Len(tasks) + count <= MaxTasks,
         NEW unblocker \in 0..MaxTasks, NEW frontTo,
         place(tasks, unblocker, frontTo) \in 1..Len(tasks) + 1
  PROVE  LET new == add_tasks(tasks, count, unblocker, frontTo)
         IN  /\ Queue(new) /\ Len(new) = Len(tasks) + count
             /\ \A i \in 1..Len(tasks) + count :
                  new[i] = Inserted(tasks, count, unblocker, place(tasks, unblocker, frontTo), i)
<1> DEFINE at == place(tasks, unblocker, frontTo)
           mid == added(tasks, count, unblocker)
           new == add_tasks(tasks, count, unblocker, frontTo)
<1>1. Len(tasks) \in Nat /\ at \in 1..Len(tasks) + 1 /\ tasks \in Seq(EntryOK)
  BY QueueIsLedger DEF Queue
<1>2. new = SubSeq(tasks, 1, at - 1) \o mid \o SubSeq(tasks, at, Len(tasks))
  BY DEF add_tasks
<1>3. /\ mid \in Seq(EntryOK) /\ Len(mid) = count
      /\ \A i \in 1..count :
           mid[i] = [id |-> Len(tasks) + i, status |-> "pending", unblocks |-> unblocker]
  <2>1. \A i \in 1..count : Len(tasks) + i \in 1..MaxTasks
    BY <1>1, Bounds
  <2>2. \A i \in 1..count :
          [id |-> Len(tasks) + i, status |-> "pending", unblocks |-> unblocker] \in EntryOK
    BY <2>1 DEF EntryOK, TaskStatus
  <2> QED
    BY <2>2 DEF added
<1> HIDE DEF at, mid, new
<1>4. /\ new \in Seq(EntryOK) /\ Len(new) = Len(tasks) + count
      /\ \A i \in 1..Len(tasks) + count :
           new[i] = IF i < at THEN tasks[i]
                    ELSE IF i < at + count THEN mid[i - at + 1] ELSE tasks[i - count]
  <2>1. mid \in Seq(EntryOK) /\ tasks \in Seq(EntryOK) /\ at \in 1..Len(tasks) + 1
    BY <1>1, <1>3
  <2>2. /\ new \in Seq(EntryOK) /\ Len(new) = Len(tasks) + Len(mid)
        /\ \A i \in 1..Len(tasks) + Len(mid) :
             new[i] = IF i < at THEN tasks[i]
                      ELSE IF i < at + Len(mid) THEN mid[i - at + 1] ELSE tasks[i - Len(mid)]
    BY <2>1, <1>2, Splice, ZenonT(60)
  <2> QED
    BY <2>2, <1>3
<1> DEFINE from(i) == IF i < at THEN i ELSE i - count
           isNew(i) == at <= i /\ i < at + count
<1>5. ASSUME NEW i \in 1..Len(tasks) + count
      PROVE  /\ isNew(i) => new[i] = [id |-> Len(tasks) + i - at + 1, status |-> "pending",
                                      unblocks |-> unblocker]
             /\ ~isNew(i) => from(i) \in 1..Len(tasks) /\ new[i] = tasks[from(i)]
  <2>1. CASE isNew(i)
    <3>1. i - at + 1 \in 1..count /\ Len(tasks) + (i - at + 1) = Len(tasks) + i - at + 1
          /\ ~(i < at) /\ i < at + count
      BY <2>1, <1>1
    <3>2. new[i] = mid[i - at + 1]
      BY <3>1, <1>4
    <3>3. new[i] = [id |-> Len(tasks) + (i - at + 1), status |-> "pending",
                    unblocks |-> unblocker]
      BY <3>1, <3>2, <1>3
    <3> QED
      BY <3>1, <3>3, <2>1
  <2>2. CASE ~isNew(i)
    BY <2>2, <1>1, <1>4
  <2> QED
    BY <2>1, <2>2
<1>6. \A i \in 1..Len(tasks) + count : new[i] = Inserted(tasks, count, unblocker, at, i)
  <2> SUFFICES ASSUME NEW i \in 1..Len(tasks) + count
               PROVE  new[i] = Inserted(tasks, count, unblocker, at, i)
    OBVIOUS
  <2>1. i \in Int /\ at \in Int /\ (isNew(i) <=> ~(i < at) /\ i < at + count)
    BY <1>1
  <2>2. CASE isNew(i)
    BY <2>1, <2>2, <1>5 DEF Inserted
  <2>3. CASE ~isNew(i)
    BY <2>1, <2>3, <1>5 DEF Inserted
  <2> QED
    BY <2>2, <2>3
<1>9. \A i \in 1..Len(tasks) + count :
        /\ isNew(i) => new[i].id = Len(tasks) + i - at + 1
        /\ ~isNew(i) => from(i) \in 1..Len(tasks) /\ new[i] = tasks[from(i)]
  <2> SUFFICES ASSUME NEW i \in 1..Len(tasks) + count
               PROVE  /\ isNew(i) => new[i].id = Len(tasks) + i - at + 1
                      /\ ~isNew(i) => from(i) \in 1..Len(tasks) /\ new[i] = tasks[from(i)]
    OBVIOUS
  <2>1. ASSUME isNew(i) PROVE new[i].id = Len(tasks) + i - at + 1
    <3>1. new[i] = [id |-> Len(tasks) + i - at + 1, status |-> "pending",
                    unblocks |-> unblocker]
      BY <2>1, <1>5
    <3> QED
      BY <3>1
  <2>2. ~isNew(i) => from(i) \in 1..Len(tasks) /\ new[i] = tasks[from(i)]
    BY <1>5
  <2> QED
    BY <2>1, <2>2
<1> HIDE DEF isNew, from
<1>10. \A i \in 1..Len(tasks) : tasks[i].id \in 1..Len(tasks)
  <2>1. \A i \in 1..Len(tasks) : tasks[i].id \in 1..MaxTasks /\ tasks[i].id <= Len(tasks)
    BY QueueIsLedger DEF Queue, EntryOK
  <2> QED
    BY <2>1, <1>1, Bounds
<1>11. ASSUME NEW i \in 1..Len(tasks) + count
       PROVE  /\ new[i].id \in 1..Len(tasks) + count
              /\ isNew(i) => new[i].id > Len(tasks)
              /\ ~isNew(i) => new[i].id <= Len(tasks)
  <2>1. CASE isNew(i)
    <3>1. new[i].id = Len(tasks) + i - at + 1 /\ at <= i /\ i < at + count
      BY <2>1, <1>9 DEF isNew
    <3> QED
      BY <3>1, <2>1, <1>1
  <2>2. CASE ~isNew(i)
    <3>1. new[i].id \in 1..Len(tasks)
      BY <2>2, <1>9, <1>10
    <3> QED
      BY <3>1, <2>2, <1>1
  <2> QED
    BY <2>1, <2>2
<1>12. ASSUME NEW i \in 1..Len(tasks) + count, NEW j \in 1..Len(tasks) + count,
              new[i].id = new[j].id
       PROVE  i = j
  <2>1. CASE isNew(i) /\ isNew(j)
    <3>1. Len(tasks) + i - at + 1 = Len(tasks) + j - at + 1
      BY <2>1, <1>9, <1>12
    <3> QED
      BY <3>1, <1>1
  <2>2. CASE isNew(i) /\ ~isNew(j)
    <3>1. new[i].id > Len(tasks) /\ new[j].id <= Len(tasks) /\ new[j].id \in Int
      BY <2>2, <1>1, <1>11
    <3> QED
      BY <3>1, <1>1, <1>12
  <2>3. CASE ~isNew(i) /\ isNew(j)
    <3>1. new[j].id > Len(tasks) /\ new[i].id <= Len(tasks) /\ new[i].id \in Int
      BY <2>3, <1>1, <1>11
    <3> QED
      BY <3>1, <1>1, <1>12
  <2>4. CASE ~isNew(i) /\ ~isNew(j)
    <3>1. from(i) \in 1..Len(tasks) /\ from(j) \in 1..Len(tasks)
          /\ tasks[from(i)].id = tasks[from(j)].id
      BY <2>4, <1>9, <1>12
    <3>2. from(i) = from(j)
      BY <3>1 DEF Queue
    <3> QED
      BY <2>4, <3>2, <1>1 DEF isNew, from
  <2> QED
    BY <2>1, <2>2, <2>3, <2>4
<1>13. ASSUME NEW n \in 1..Len(tasks) + count
       PROVE  \E i \in 1..Len(tasks) + count : new[i].id = n
  <2>1. CASE n <= Len(tasks)
    <3>1. PICK k \in 1..Len(tasks) : tasks[k].id = n
      BY <2>1, <1>1 DEF Queue
    <3> DEFINE i == IF k < at THEN k ELSE k + count
    <3>2. i \in 1..Len(tasks) + count /\ ~isNew(i) /\ from(i) = k
      BY <1>1 DEF isNew, from
    <3> QED
      BY <3>1, <3>2, <1>9
  <2>2. CASE n > Len(tasks)
    <3> DEFINE i == n - Len(tasks) + at - 1
    <3>1. i \in 1..Len(tasks) + count /\ isNew(i) /\ Len(tasks) + i - at + 1 = n
      BY <2>2, <1>1 DEF isNew
    <3> QED
      BY <3>1, <1>9
  <2> QED
    BY <2>1, <2>2, <1>1
<1>14. Queue(new)
  BY <1>4, <1>11, <1>12, <1>13 DEF Queue
<1> QED
  BY <1>4, <1>6, <1>14 DEF at, new

-----------------------------------------------------------------------------
(***************************************************************************)
(* The inductive invariant.                                                *)
(***************************************************************************)
Typed ==
  /\ Queue(ledger) /\ Queue(disk) /\ Queue(previous)
  /\ unblocking \in 0..MaxTasks /\ frontAt \in 0..Len(ledger) + 1
  /\ pc \in Planners \cup {"down", "saving", "settling", "picking", "working", "closing"}
  /\ current \in 0..MaxTasks /\ (pc = "working" <=> current # NoTask)
  /\ revisions \in 0..MaxRevisions
  /\ baselineRed \in BOOLEAN /\ consultedOnEmpty \in BOOLEAN /\ consultedOnStale \in BOOLEAN
  /\ blockedConsults \in 0..MaxBlockedConsults + 1
  /\ processes \in 0..MaxProcesses /\ consults \in Nat /\ plan \in 0..MaxProcesses

\* What memory and disk hold between two steps.
Standing ==
  /\ pc \in {"down", "saving"} => ledger = NoLedger /\ frontAt = 0
  /\ pc \notin {"down", "saving"} => ledger = disk
  /\ frontAt # 0 => unblocking # Nobody
  /\ unblocking # Nobody => pc = "consult"
  /\ pc = "saving" /\ resumable(disk) # {} => previous = disk

\* A block pays for two consults: its own, and one more on an empty ledger.
One(flag) == IF flag THEN 1 ELSE 0

Budget ==
  /\ pc # "closing" =>
       /\ blockedConsults <= MaxBlockedConsults
       /\ consults <= 2 * blockedConsults + One(consultedOnStale) + One(consultedOnEmpty)
  /\ consults <= 2 * MaxBlockedConsults + 2

\* The entry numbered id has that status.
Shows(tasks, id, st) == \E k \in 1..Len(tasks) : tasks[k].id = id /\ tasks[k].status = st

\* The task being worked keeps its place: a stop puts it back there.
Queued(tasks, id, i) ==
  tasks[i].status = "pending" \/ (tasks[i].status = "in_progress" /\ tasks[i].id = id)

Precedes(a, b) ==
  IF a.unblocks = b.unblocks THEN a.id < b.id ELSE b.unblocks # Nobody => b.id < a.id

InOrder(tasks, id) ==
  \A i, j \in 1..Len(tasks) :
    i < j /\ Queued(tasks, id, i) /\ Queued(tasks, id, j) => Precedes(tasks[i], tasks[j])

\* A task is put in front only for one that is blocked, and so stays blocked.
Linked(tasks) ==
  \A i \in 1..Len(tasks) :
    tasks[i].unblocks # Nobody => Shows(tasks, tasks[i].unblocks, "blocked")

\* What this consult has put in front is what stands before frontAt.
Fronted ==
  unblocking # Nobody =>
    /\ Shows(ledger, unblocking, "blocked")
    /\ \A i \in 1..Len(ledger) :
         ledger[i].status = "pending" => (ledger[i].unblocks = unblocking <=> i < frontAt)

Order ==
  /\ InOrder(ledger, current) /\ InOrder(disk, current)
  /\ Linked(ledger) /\ Linked(disk)
  /\ current # NoTask => Shows(ledger, current, "in_progress")
  /\ Fronted

IInv == Typed /\ Standing /\ Budget /\ Order

LEMMA EmptyQueue == Queue(NoLedger) /\ Len(NoLedger) = 0
  BY Bounds DEF Queue, NoLedger

\* Two entries with one number are one entry.
LEMMA OneEntry ==
  ASSUME NEW tasks, Queue(tasks), NEW i \in 1..Len(tasks), NEW j \in 1..Len(tasks),
         tasks[i].id = tasks[j].id
  PROVE  i = j
  BY DEF Queue

-----------------------------------------------------------------------------
(***************************************************************************)
(* Order through the operators: a change of one status adds nothing to the *)
(* queue, or unsettles nothing.                                            *)
(***************************************************************************)
LEMMA StatusKeepsOrder ==
  ASSUME NEW tasks, Queue(tasks), NEW id, NEW st \in TaskStatus, NEW before, NEW after,
         InOrder(tasks, before), Linked(tasks),
         st = "blocked" \/ ~Shows(tasks, id, "blocked"),
         \A i \in 1..Len(tasks) :
           Queued(set_status(tasks, id, st), after, i) => Queued(tasks, before, i)
  PROVE  InOrder(set_status(tasks, id, st), after) /\ Linked(set_status(tasks, id, st))
<1> DEFINE new == set_status(tasks, id, st)
<1>1. /\ Len(new) = Len(tasks)
      /\ \A i \in 1..Len(tasks) :
           /\ new[i].id = tasks[i].id /\ new[i].unblocks = tasks[i].unblocks
           /\ new[i].status = IF tasks[i].id = id THEN st ELSE tasks[i].status
  BY SetStatusKeeps
<1>2. \A i \in 1..Len(tasks) : Queued(new, after, i) => Queued(tasks, before, i)
  OBVIOUS
<1> HIDE DEF new
<1>3. InOrder(new, after)
  <2> SUFFICES ASSUME NEW i \in 1..Len(tasks), NEW j \in 1..Len(tasks),
                      i < j, Queued(new, after, i), Queued(new, after, j)
               PROVE  Precedes(new[i], new[j])
    BY <1>1 DEF InOrder
  <2>1. Precedes(tasks[i], tasks[j])
    BY <1>2 DEF InOrder
  <2> QED
    BY <1>1, <2>1 DEF Precedes
<1>4. Linked(new)
  <2> SUFFICES ASSUME NEW i \in 1..Len(tasks), new[i].unblocks # Nobody
               PROVE  Shows(new, new[i].unblocks, "blocked")
    BY <1>1 DEF Linked
  <2>1. PICK k \in 1..Len(tasks) : tasks[k].id = tasks[i].unblocks /\ tasks[k].status = "blocked"
    BY <1>1 DEF Linked, Shows
  <2>2. new[k].id = new[i].unblocks /\ new[k].status = "blocked"
    <3>1. CASE tasks[k].id = id
      BY <3>1, <2>1, <1>1 DEF Shows
    <3>2. CASE tasks[k].id # id
      BY <3>2, <2>1, <1>1
    <3> QED
      BY <3>1, <3>2
  <2> QED
    BY <1>1, <2>2 DEF Shows
<1> QED
  BY <1>3, <1>4 DEF new

(***************************************************************************)
(* New entries, numbered on and put where place says, keep the order.      *)
(***************************************************************************)
LEMMA AddingKeepsOrder ==
  ASSUME NEW tasks, Queue(tasks), NEW count \in Nat \ {0}, Len(tasks) + count <= MaxTasks,
         NEW unblocker \in 0..MaxTasks, NEW frontTo,
         place(tasks, unblocker, frontTo) \in 1..Len(tasks) + 1,
         InOrder(tasks, NoTask), Linked(tasks),
         unblocker = Nobody => place(tasks, unblocker, frontTo) = Len(tasks) + 1,
         unblocker # Nobody =>
           /\ Shows(tasks, unblocker, "blocked")
           /\ \A i \in 1..Len(tasks) :
                tasks[i].status = "pending" =>
                  (tasks[i].unblocks = unblocker <=> i < place(tasks, unblocker, frontTo))
  PROVE  LET new == add_tasks(tasks, count, unblocker, frontTo)
         IN  /\ InOrder(new, NoTask) /\ Linked(new)
             /\ unblocker # Nobody =>
                  /\ Shows(new, unblocker, "blocked")
                  /\ \A i \in 1..Len(new) :
                       new[i].status = "pending" =>
                         (new[i].unblocks = unblocker
                            <=> i < place(tasks, unblocker, frontTo) + count)
<1> DEFINE at == place(tasks, unblocker, frontTo)
           new == add_tasks(tasks, count, unblocker, frontTo)
<1>1. /\ Len(tasks) \in Nat /\ at \in 1..Len(tasks) + 1 /\ Len(new) = Len(tasks) + count
      /\ \A i \in 1..Len(tasks) + count : new[i] = Inserted(tasks, count, unblocker, at, i)
      /\ Queue(new)
  BY QueueIsLedger, AddTasksInserts
<1>2. /\ unblocker = Nobody => at = Len(tasks) + 1
      /\ unblocker # Nobody =>
           \A i \in 1..Len(tasks) :
             tasks[i].status = "pending" => (tasks[i].unblocks = unblocker <=> i < at)
  OBVIOUS
<1> HIDE DEF at, new
<1> DEFINE from(i) == IF i < at THEN i ELSE i - count
           isNew(i) == at <= i /\ i < at + count
<1>3. ASSUME NEW i \in 1..Len(tasks) + count, isNew(i)
      PROVE  /\ new[i].id = Len(tasks) + i - at + 1 /\ new[i].status = "pending"
             /\ new[i].unblocks = unblocker
  <2>1. new[i] = [id |-> Len(tasks) + i - at + 1, status |-> "pending", unblocks |-> unblocker]
    BY <1>1, <1>3 DEF Inserted
  <2> QED
    BY <2>1
<1>4. ASSUME NEW i \in 1..Len(tasks) + count, ~isNew(i)
      PROVE  from(i) \in 1..Len(tasks) /\ new[i] = tasks[from(i)]
             /\ (i < at <=> i < at + count) /\ (i < at <=> from(i) < at)
  BY <1>1, <1>4 DEF Inserted
<1>5. \A i \in 1..Len(tasks) : tasks[i].id \in Nat /\ 1 <= tasks[i].id /\ tasks[i].id <= Len(tasks)
  <2>1. \A i \in 1..Len(tasks) : tasks[i].id \in 1..MaxTasks /\ tasks[i].id <= Len(tasks)
    BY QueueIsLedger DEF Queue, EntryOK
  <2> QED
    BY <2>1, Bounds
<1>6. \A i \in 1..Len(tasks) + count : Queued(new, NoTask, i) <=> new[i].status = "pending"
  <2>1. \A i \in 1..Len(tasks) + count : new[i].id # NoTask
    BY <1>1, QueueIsLedger DEF EntryOK, NoTask
  <2> QED
    BY <2>1 DEF Queued
<1>7. ASSUME NEW k \in 1..Len(tasks)
      PROVE  \E i \in 1..Len(tasks) + count : new[i] = tasks[k]
  <2> DEFINE i == IF k < at THEN k ELSE k + count
  <2>1. i \in 1..Len(tasks) + count /\ ~isNew(i) /\ from(i) = k
    BY <1>1
  <2> QED
    BY <2>1, <1>4
<1>8. \A id : Shows(tasks, id, "blocked") => Shows(new, id, "blocked")
  BY <1>1, <1>7 DEF Shows
<1>9. Linked(new)
  <2> SUFFICES ASSUME NEW i \in 1..Len(tasks) + count, new[i].unblocks # Nobody
               PROVE  Shows(new, new[i].unblocks, "blocked")
    BY <1>1 DEF Linked
  <2>1. CASE isNew(i)
    BY <2>1, <1>3, <1>8
  <2>2. CASE ~isNew(i)
    BY <2>2, <1>4, <1>8 DEF Linked
  <2> QED
    BY <2>1, <2>2
<1>10. InOrder(new, NoTask)
  <2> SUFFICES ASSUME NEW i \in 1..Len(tasks) + count, NEW j \in 1..Len(tasks) + count,
                      i < j, new[i].status = "pending", new[j].status = "pending"
               PROVE  Precedes(new[i], new[j])
    BY <1>1, <1>6 DEF InOrder
  <2>1. CASE isNew(i) /\ isNew(j)
    <3>1. /\ new[i].id = Len(tasks) + i - at + 1 /\ new[j].id = Len(tasks) + j - at + 1
          /\ new[i].unblocks = new[j].unblocks
      BY <2>1, <1>3
    <3>2. new[i].id < new[j].id
      BY <3>1, <1>1
    <3> QED
      BY <3>1, <3>2 DEF Precedes
  <2>2. CASE isNew(i) /\ ~isNew(j)
    <3>1. from(j) \in 1..Len(tasks) /\ new[j] = tasks[from(j)] /\ new[i].unblocks = unblocker
          /\ new[i].id > Len(tasks)
      BY <2>2, <1>3, <1>4, <1>1
    <3>2. ~(from(j) < at) /\ at # Len(tasks) + 1
      BY <2>2, <3>1, <1>4, <1>1
    <3>3. unblocker # Nobody /\ new[j].unblocks # unblocker
      BY <3>1, <3>2, <1>2
    <3>4. new[j].id < new[i].id
      BY <3>1, <1>5, <1>1, <1>3, <2>2
    <3> QED
      BY <3>1, <3>3, <3>4 DEF Precedes
  <2>3. CASE ~isNew(i) /\ isNew(j)
    <3>1. from(i) \in 1..Len(tasks) /\ new[i] = tasks[from(i)] /\ new[j].unblocks = unblocker
          /\ new[j].id > Len(tasks)
      BY <2>3, <1>3, <1>4, <1>1
    <3>2. from(i) < at
      BY <2>3, <1>4, <1>1
    <3>3. new[i].id < new[j].id
      BY <3>1, <1>5, <1>1, <1>3, <2>3
    <3>4. new[i].unblocks = unblocker \/ unblocker = Nobody
      BY <3>1, <3>2, <1>2
    <3> QED
      BY <3>1, <3>3, <3>4 DEF Precedes
  <2>4. CASE ~isNew(i) /\ ~isNew(j)
    <3>1. /\ from(i) \in 1..Len(tasks) /\ new[i] = tasks[from(i)]
          /\ from(j) \in 1..Len(tasks) /\ new[j] = tasks[from(j)]
      BY <2>4, <1>4
    <3>2. from(i) < from(j)
      BY <2>4, <1>1
    <3> HIDE DEF from
    <3> QED
      BY <3>1, <3>2 DEF InOrder, Queued
  <2> QED
    BY <2>1, <2>2, <2>3, <2>4
<1>11. ASSUME unblocker # Nobody, NEW i \in 1..Len(new), new[i].status = "pending"
       PROVE  new[i].unblocks = unblocker <=> i < at + count
  <2>1. CASE isNew(i)
    BY <2>1, <1>1, <1>3
  <2>2. CASE ~isNew(i)
    <3>1. from(i) \in 1..Len(tasks) /\ new[i] = tasks[from(i)]
          /\ (i < at <=> i < at + count) /\ (i < at <=> from(i) < at)
      BY <2>2, <1>1, <1>4
    <3> HIDE DEF from
    <3> QED
      BY <3>1, <1>11, <1>2
  <2> QED
    BY <2>1, <2>2
<1>12. unblocker # Nobody => Shows(new, unblocker, "blocked")
  BY <1>8
<1> QED
  BY <1>9, <1>10, <1>11, <1>12 DEF at, new

-----------------------------------------------------------------------------
(***************************************************************************)
(* The invariant holds initially, and every step keeps it.                 *)
(***************************************************************************)
queues == <<ledger, disk, current, unblocking, frontAt>>

LEMMA IInvInit == Init => IInv
<1> SUFFICES ASSUME Init PROVE IInv
  OBVIOUS
<1>1. ledger = NoLedger /\ disk = NoLedger /\ previous = NoLedger
  BY DEF Init, NoLedger
<1>2. Len(ledger) = 0 /\ Len(disk) = 0 /\ Len(previous) = 0
  BY <1>1, EmptyQueue
<1>3. Typed
  <2>1. Queue(ledger) /\ Queue(disk) /\ Queue(previous)
    BY <1>1, EmptyQueue
  <2>2. frontAt \in 0..Len(ledger) + 1
    BY <1>2 DEF Init
  <2>3. unblocking \in 0..MaxTasks /\ current \in 0..MaxTasks
    BY Bounds DEF Init, Nobody, NoTask
  <2>4. /\ pc \in Planners \cup {"down", "saving", "settling", "picking", "working", "closing"}
        /\ (pc = "working" <=> current # NoTask)
    BY DEF Init
  <2>5. /\ baselineRed \in BOOLEAN /\ consultedOnEmpty \in BOOLEAN
        /\ consultedOnStale \in BOOLEAN
    BY DEF Init
  <2>6. /\ revisions \in 0..MaxRevisions /\ blockedConsults \in 0..MaxBlockedConsults + 1
        /\ processes \in 0..MaxProcesses /\ consults \in Nat /\ plan \in 0..MaxProcesses
    BY Bounds DEF Init
  <2> QED
    BY <2>1, <2>2, <2>3, <2>4, <2>5, <2>6 DEF Typed
<1>4. resumable(disk) = {}
  BY <1>1 DEF resumable, InStatus, NoLedger
<1>5. Standing
  BY <1>1, <1>4 DEF Init, Standing, NoLedger
<1>6. Budget
  BY Bounds DEF Init, Budget, One
<1>7. Order
  BY <1>2 DEF Init, Order, InOrder, Linked, Fronted
<1> QED
  BY <1>3, <1>5, <1>6, <1>7 DEF IInv

\* A step that leaves the queues alone keeps their order.
LEMMA OrderStutters ==
  ASSUME Order, UNCHANGED queues
  PROVE  Order'
  BY DEF Order, queues, Fronted

\* The memory of a process that goes is typed.
LEMMA ForgetTyped ==
  ASSUME Typed, Forget, pc' = "down", Queue(disk'), Queue(previous'),
         processes' \in 0..MaxProcesses, plan' \in 0..MaxProcesses
  PROVE  Typed'
<1>1. Queue(ledger') /\ Len(ledger') = 0
  BY EmptyQueue DEF Forget, NoLedger
<1>2. frontAt' \in 0..Len(ledger') + 1 /\ unblocking' \in 0..MaxTasks
  BY <1>1, Bounds DEF Forget, Nobody
<1>3. /\ pc' \in Planners \cup {"down", "saving", "settling", "picking", "working", "closing"}
      /\ current' \in 0..MaxTasks /\ (pc' = "working" <=> current' # NoTask)
  BY Bounds DEF Forget, NoTask
<1>4. /\ revisions' \in 0..MaxRevisions /\ blockedConsults' \in 0..MaxBlockedConsults + 1
      /\ consults' \in Nat
  BY Bounds DEF Forget
<1>5. /\ baselineRed' \in BOOLEAN /\ consultedOnEmpty' \in BOOLEAN
      /\ consultedOnStale' \in BOOLEAN
  BY DEF Forget
<1> QED
  BY <1>1, <1>2, <1>3, <1>4, <1>5 DEF Typed

\* A process that goes keeps the disk's order, and nothing else.
LEMMA OrderSurvives ==
  ASSUME Typed, Order, Forget, UNCHANGED disk
  PROVE  Order'
<1>1. /\ Len(ledger') = 0 /\ current' = NoTask /\ unblocking' = Nobody
      /\ disk' = disk
  BY EmptyQueue DEF Forget, NoLedger
<1>2. \A i \in 1..Len(disk) : Queued(disk, NoTask, i) => Queued(disk, current, i)
  BY QueueIsLedger DEF Typed, Queued, EntryOK, NoTask
<1>3. InOrder(disk, NoTask)
  BY <1>2 DEF Order, InOrder
<1>4. InOrder(ledger', NoTask) /\ Linked(ledger')
  BY <1>1 DEF InOrder, Linked
<1> QED
  BY <1>1, <1>3, <1>4 DEF Order, Fronted

\* What a change of one status does to the queues it leaves behind.
LEMMA StatusStep ==
  ASSUME Typed, Standing, Order, pc \notin {"down", "saving"},
         NEW id, NEW st \in TaskStatus,
         disk' = set_status(ledger, id, st),
         Shows(ledger, id, "in_progress") \/ Shows(ledger, id, "pending"),
         \A i \in 1..Len(ledger) :
           Queued(set_status(ledger, id, st), current', i) => Queued(ledger, current, i)
  PROVE  /\ Queue(disk') /\ Len(disk') = Len(ledger)
         /\ InOrder(disk', current') /\ Linked(disk')
<1>1. Queue(ledger) /\ InOrder(ledger, current) /\ Linked(ledger)
  BY DEF Typed, Order
<1>2. ~Shows(ledger, id, "blocked")
  BY <1>1, OneEntry DEF Shows
<1> QED
  BY <1>1, <1>2, SetStatusKeeps, StatusKeepsOrder

\* The task being worked settles, or goes back to its place.
LEMMA VerdictStep ==
  ASSUME Typed, Standing, Order, pc = "working", current' = NoTask,
         NEW st \in {"done", "blocked", "pending"},
         disk' = set_status(ledger, current, st)
  PROVE  /\ Queue(disk') /\ Len(disk') = Len(ledger)
         /\ InOrder(disk', current') /\ Linked(disk')
         /\ Shows(disk', current, st)
<1>1. Queue(ledger) /\ st \in TaskStatus
  BY DEF Typed, TaskStatus
<1>2. Shows(ledger, current, "in_progress")
  BY DEF Typed, Order
<1>3. PICK k \in 1..Len(ledger) : ledger[k].id = current /\ ledger[k].status = "in_progress"
  BY <1>2 DEF Shows
<1>4. ASSUME NEW i \in 1..Len(ledger),
             Queued(set_status(ledger, current, st), NoTask, i)
      PROVE  Queued(ledger, current, i)
  <2>1. CASE ledger[i].id = current
    <3>1. i = k
      BY <1>1, <1>3, <2>1, OneEntry
    <3> QED
      BY <3>1, <1>3 DEF Queued
  <2>2. CASE ledger[i].id # current
    <3>1. /\ set_status(ledger, current, st)[i].status = ledger[i].status
          /\ set_status(ledger, current, st)[i].id = ledger[i].id
      BY <2>2, <1>1, SetStatusKeeps
    <3>2. ledger[i].id # NoTask
      BY <1>1, QueueIsLedger DEF EntryOK, NoTask
    <3> QED
      BY <3>1, <3>2, <1>4 DEF Queued
  <2> QED
    BY <2>1, <2>2
<1>5. /\ Queue(disk') /\ Len(disk') = Len(ledger)
      /\ InOrder(disk', current') /\ Linked(disk')
  <2>1. pc \notin {"down", "saving"}
    OBVIOUS
  <2> QED
    BY <2>1, <1>1, <1>2, <1>4, StatusStep
<1>6. disk'[k].id = current /\ disk'[k].status = st
  BY <1>1, <1>3, SetStatusKeeps
<1> QED
  BY <1>5, <1>6 DEF Shows

-----------------------------------------------------------------------------
\* The steps that change a queue.
LEMMA AddStep ==
  ASSUME IInv, NEW count \in 1..MaxBatch, add_tasks_tool(count)
  PROVE  IInv'
<1>1. /\ Queue(ledger) /\ Len(ledger) \in Nat /\ count \in Nat \ {0}
      /\ unblocking \in 0..MaxTasks /\ frontAt \in 0..Len(ledger) + 1
      /\ Len(ledger) + count <= MaxTasks /\ pc \in Breakdowns
  BY QueueIsLedger, Bounds DEF IInv, Typed, add_tasks_tool
<1>2. /\ ledger' = add_tasks(ledger, count, unblocking, frontAt) /\ disk' = ledger'
      /\ frontAt' = IF unblocking = Nobody THEN 0 ELSE front(ledger, frontAt) + count
      /\ UNCHANGED <<previous, plan, unblocking, pc, current, memoryVars, processes, consults>>
  BY DEF add_tasks_tool, Save
<1>3. pc \notin {"down", "saving", "working"} /\ current = NoTask /\ ledger = disk
  BY <1>1 DEF Breakdowns, IInv, Typed, Standing
<1> DEFINE at == place(ledger, unblocking, frontAt)
<1>4. front(ledger, frontAt) \in 1..Len(ledger) + 1
  BY <1>1, NextPendingIsFirst DEF front
<1>5. at \in 1..Len(ledger) + 1
  BY <1>1, <1>4 DEF place
<1>6. unblocking = Nobody => at = Len(ledger) + 1
  BY DEF place
<1>7. InOrder(ledger, NoTask) /\ Linked(ledger)
  BY <1>3 DEF IInv, Order
<1>8. ASSUME unblocking # Nobody
      PROVE  /\ at = front(ledger, frontAt) /\ Shows(ledger, unblocking, "blocked")
             /\ \A i \in 1..Len(ledger) :
                  ledger[i].status = "pending" => (ledger[i].unblocks = unblocking <=> i < at)
  <2>1. at = front(ledger, frontAt)
    BY <1>8 DEF place
  <2>2. /\ Shows(ledger, unblocking, "blocked")
        /\ \A i \in 1..Len(ledger) :
             ledger[i].status = "pending" => (ledger[i].unblocks = unblocking <=> i < frontAt)
    BY <1>8 DEF IInv, Order, Fronted
  <2>3. CASE frontAt # 0
    BY <2>1, <2>2, <2>3 DEF front
  <2>4. CASE frontAt = 0
    <3>1. \A i \in 1..Len(ledger) : ledger[i].status = "pending" => ~(i < at)
      <4>1. \A i \in 1..Len(ledger) : i \in Int /\ ~(i < 0)
        BY <1>1
      <4>2. at = IF next_pending(ledger) # 0 THEN next_pending(ledger) ELSE Len(ledger) + 1
        BY <2>1, <2>4 DEF front
      <4>3. CASE next_pending(ledger) = 0
        BY <4>3, <1>1, NextPendingIsFirst
      <4>4. CASE next_pending(ledger) # 0
        BY <4>2, <4>4, <1>1, NextPendingIsFirst
      <4> QED
        BY <4>3, <4>4
    <3>2. \A i \in 1..Len(ledger) : ~(i < frontAt)
      BY <1>1, <2>4
    <3> QED
      BY <2>1, <2>2, <3>1, <3>2
  <2> QED
    BY <2>3, <2>4
<1>9. /\ Queue(ledger') /\ Len(ledger') = Len(ledger) + count
      /\ InOrder(ledger', NoTask) /\ Linked(ledger')
      /\ unblocking # Nobody =>
           /\ Shows(ledger', unblocking, "blocked")
           /\ \A i \in 1..Len(ledger') :
                ledger'[i].status = "pending" =>
                  (ledger'[i].unblocks = unblocking <=> i < at + count)
  <2>1. Queue(ledger') /\ Len(ledger') = Len(ledger) + count
    BY <1>1, <1>2, <1>5, AddTasksInserts
  <2>2. /\ Queue(ledger) /\ count \in Nat \ {0} /\ Len(ledger) + count <= MaxTasks
        /\ unblocking \in 0..MaxTasks
        /\ place(ledger, unblocking, frontAt) \in 1..Len(ledger) + 1
        /\ InOrder(ledger, NoTask) /\ Linked(ledger)
    BY <1>1, <1>5, <1>7
  <2>3. unblocking = Nobody => place(ledger, unblocking, frontAt) = Len(ledger) + 1
    BY <1>6
  <2>4. unblocking # Nobody =>
          /\ Shows(ledger, unblocking, "blocked")
          /\ \A i \in 1..Len(ledger) :
               ledger[i].status = "pending" =>
                 (ledger[i].unblocks = unblocking <=> i < place(ledger, unblocking, frontAt))
    BY <1>8
  <2> DEFINE new == add_tasks(ledger, count, unblocking, frontAt)
  <2>5. /\ InOrder(new, NoTask) /\ Linked(new)
        /\ unblocking # Nobody =>
             /\ Shows(new, unblocking, "blocked")
             /\ \A i \in 1..Len(new) :
                  new[i].status = "pending" =>
                    (new[i].unblocks = unblocking
                       <=> i < place(ledger, unblocking, frontAt) + count)
    BY <2>2, <2>3, <2>4, AddingKeepsOrder
  <2>6. ledger' = new
    BY <1>2
  <2> HIDE DEF new
  <2> QED
    BY <2>1, <2>5, <2>6
<1>10. frontAt' \in 0..Len(ledger') + 1
  BY <1>1, <1>2, <1>4, <1>9
<1>11. Typed'
  BY <1>2, <1>9, <1>10 DEF IInv, Typed, memoryVars
<1>12. Standing'
  BY <1>1, <1>2, <1>3 DEF IInv, Standing
<1>13. Budget'
  BY <1>2 DEF IInv, Budget, memoryVars
<1>14. Fronted'
  BY <1>2, <1>8, <1>9 DEF Fronted
<1>15. Order'
  BY <1>2, <1>3, <1>9, <1>14 DEF Order
<1> QED
  BY <1>11, <1>12, <1>13, <1>15 DEF IInv

LEMMA DropStep ==
  ASSUME IInv, NEW id \in 1..MaxTasks, drop_task(id)
  PROVE  IInv' /\ current = NoTask /\ disk = ledger
         /\ (Shows(ledger, id, "in_progress") \/ Shows(ledger, id, "pending"))
<1>1. /\ disk' = set_status(ledger, id, "dropped") /\ ledger' = disk'
      /\ UNCHANGED <<previous, plan, queueVars, pc, current, memoryVars, processes, consults>>
      /\ pc \in Breakdowns /\ id \in droppable(ledger)
  BY DEF drop_task, Save
<1>2. pc \notin {"down", "saving", "working"} /\ current = NoTask /\ ledger = disk
      /\ Queue(ledger) /\ "dropped" \in TaskStatus
  BY <1>1 DEF Breakdowns, IInv, Typed, Standing, TaskStatus
<1>3. Shows(ledger, id, "in_progress") \/ Shows(ledger, id, "pending")
  BY <1>1, <1>2, QueueIsLedger DEF droppable, InStatus, Shows
<1>4. /\ Len(ledger') = Len(ledger)
      /\ \A i \in 1..Len(ledger) :
           /\ ledger'[i].id = ledger[i].id /\ ledger'[i].unblocks = ledger[i].unblocks
           /\ ledger'[i].status = IF ledger[i].id = id THEN "dropped" ELSE ledger[i].status
  BY <1>1, <1>2, SetStatusKeeps
<1>5. \A i \in 1..Len(ledger) :
        Queued(set_status(ledger, id, "dropped"), current', i) => Queued(ledger, current, i)
  BY <1>1, <1>4 DEF Queued
<1>6. Queue(disk') /\ InOrder(disk', current') /\ Linked(disk')
  BY <1>1, <1>2, <1>3, <1>5, StatusStep DEF IInv
<1>7. Fronted'
  <2> SUFFICES ASSUME unblocking # Nobody PROVE Fronted'
    BY <1>1 DEF Fronted, queueVars
  <2>1. /\ Shows(ledger, unblocking, "blocked")
        /\ \A i \in 1..Len(ledger) :
             ledger[i].status = "pending" => (ledger[i].unblocks = unblocking <=> i < frontAt)
    BY DEF IInv, Order, Fronted
  <2>2. Shows(ledger', unblocking, "blocked")
    <3>1. PICK k \in 1..Len(ledger) : ledger[k].id = unblocking /\ ledger[k].status = "blocked"
      BY <2>1 DEF Shows
    <3>2. ledger[k].id # id
      BY <1>2, <1>3, <3>1, OneEntry DEF Shows
    <3> QED
      BY <1>4, <3>1, <3>2 DEF Shows
  <2>3. \A i \in 1..Len(ledger) : ledger'[i].status = "pending" =>
          ledger[i].status = "pending" /\ ledger'[i].unblocks = ledger[i].unblocks
    BY <1>4
  <2> QED
    BY <1>1, <1>4, <2>1, <2>2, <2>3 DEF Fronted, queueVars
<1>8. Typed'
  BY <1>1, <1>4, <1>6 DEF IInv, Typed, queueVars, memoryVars
<1>9. Standing'
  BY <1>1, <1>2 DEF IInv, Standing, queueVars
<1>10. Budget'
  BY <1>1 DEF IInv, Budget, memoryVars
<1>11. Order'
  BY <1>1, <1>2, <1>6, <1>7 DEF Order
<1> QED
  BY <1>2, <1>3, <1>8, <1>9, <1>10, <1>11 DEF IInv

LEMMA PickUpStep ==
  ASSUME IInv, PickUp
  PROVE  IInv' /\ current = NoTask /\ current' \in 1..MaxTasks /\ disk = ledger
         /\ disk' = set_status(ledger, current', "in_progress")
         /\ Shows(ledger, current', "pending")
<1> DEFINE at == next_pending(ledger)
           id == ledger[at].id
<1>1. /\ pc = "picking" /\ at # 0 /\ current' = id
      /\ disk' = set_status(ledger, id, "in_progress") /\ ledger' = disk' /\ pc' = "working"
      /\ UNCHANGED <<previous, plan, queueVars, memoryVars, processes, consults>>
  BY DEF PickUp, Save
<1>2. /\ pc \notin {"down", "saving", "working", "consult", "closing"}
      /\ current = NoTask /\ ledger = disk /\ Queue(ledger)
      /\ unblocking = Nobody /\ "in_progress" \in TaskStatus
  BY <1>1 DEF IInv, Typed, Standing, TaskStatus
<1>3. at \in 1..Len(ledger) /\ ledger[at].status = "pending"
  BY <1>1, <1>2, NextPendingIsFirst
<1>4. id \in 1..MaxTasks /\ id # NoTask
  BY <1>2, <1>3, QueueIsLedger DEF EntryOK, NoTask
<1>5. Shows(ledger, id, "pending")
  BY <1>3 DEF Shows
<1>6. /\ Len(ledger') = Len(ledger)
      /\ \A i \in 1..Len(ledger) :
           /\ ledger'[i].id = ledger[i].id
           /\ ledger'[i].status = IF ledger[i].id = id THEN "in_progress" ELSE ledger[i].status
  BY <1>1, <1>2, SetStatusKeeps
<1>7. \A i \in 1..Len(ledger) :
        Queued(set_status(ledger, id, "in_progress"), current', i) => Queued(ledger, current, i)
  <2> SUFFICES ASSUME NEW i \in 1..Len(ledger), Queued(ledger', id, i)
               PROVE  Queued(ledger, current, i)
    BY <1>1
  <2>1. CASE ledger[i].id = id
    <3>1. i = at
      BY <1>2, <1>3, <2>1, OneEntry
    <3> QED
      BY <3>1, <1>3 DEF Queued
  <2>2. CASE ledger[i].id # id
    BY <2>2, <1>6 DEF Queued
  <2> QED
    BY <2>1, <2>2
<1>8. Queue(disk') /\ InOrder(disk', current') /\ Linked(disk')
  BY <1>1, <1>2, <1>5, <1>7, StatusStep DEF IInv
<1>9. Shows(ledger', current', "in_progress")
  BY <1>1, <1>3, <1>6 DEF Shows
<1>10. Typed'
  BY <1>1, <1>4, <1>6, <1>8 DEF IInv, Typed, queueVars, memoryVars
<1>11. Standing'
  BY <1>1, <1>2 DEF IInv, Standing, queueVars
<1>12. Budget'
  BY <1>1 DEF IInv, Budget, memoryVars
<1>13. Order'
  BY <1>1, <1>2, <1>8, <1>9 DEF Order, Fronted, queueVars
<1> QED
  BY <1>1, <1>2, <1>4, <1>5, <1>10, <1>11, <1>12, <1>13 DEF IInv

LEMMA VerdictKeeps ==
  ASSUME IInv, TaskDone \/ TaskStops \/ CancelTask \/ TaskBlocked
  PROVE  IInv' /\ current \in 1..MaxTasks /\ current' = NoTask /\ disk = ledger
         /\ Shows(ledger, current, "in_progress")
         /\ \E st \in {"done", "blocked", "pending"} : disk' = set_status(ledger, current, st)
<1>1. /\ pc = "working" /\ current' = NoTask
      /\ UNCHANGED <<previous, plan, processes>>
  BY DEF TaskDone, TaskStops, CancelTask, TaskBlocked, Forget
<1>2. /\ current \in 1..MaxTasks /\ ledger = disk /\ Queue(ledger)
      /\ unblocking = Nobody /\ frontAt = 0 /\ Len(ledger) \in Nat
      /\ Shows(ledger, current, "in_progress")
  <2>1. current \in 0..MaxTasks /\ current # NoTask /\ unblocking = Nobody /\ ledger = disk
    BY <1>1 DEF IInv, Typed, Standing
  <2>2. frontAt = 0
    BY <2>1 DEF IInv, Standing
  <2>3. Queue(ledger) /\ Shows(ledger, current, "in_progress")
    BY <2>1 DEF IInv, Typed, Order
  <2> QED
    BY <2>1, <2>2, <2>3, QueueIsLedger, Bounds DEF NoTask
<1>3. ASSUME NEW st \in {"done", "blocked", "pending"},
             disk' = set_status(ledger, current, st)
      PROVE  /\ Queue(disk') /\ Len(disk') = Len(ledger) /\ Shows(disk', current, st)
             /\ InOrder(disk', NoTask) /\ Linked(disk')
  BY <1>1, <1>3, VerdictStep DEF IInv
<1>4. CASE TaskDone \/ TaskStops
  <2>1. PICK st \in {"done", "pending"} : disk' = set_status(ledger, current, st)
    BY <1>4 DEF TaskDone, TaskStops, Save
  <2>2. /\ ledger' = disk' /\ pc' \in {"picking", "closing"} /\ baselineRed' \in BOOLEAN
        /\ UNCHANGED <<queueVars, revisions, consultedOnEmpty, consultedOnStale,
                       blockedConsults, consults>>
    BY <1>4 DEF TaskDone, TaskStops, Save, memoryVars, IInv, Typed
  <2>3. /\ Queue(disk') /\ Len(disk') = Len(ledger)
        /\ InOrder(disk', NoTask) /\ Linked(disk')
    BY <2>1, <1>3
  <2>4. Typed'
    <3>1. Queue(ledger') /\ Queue(disk') /\ Queue(previous')
      BY <1>1, <2>2, <2>3 DEF IInv, Typed
    <3>2. frontAt' \in 0..Len(ledger') + 1
      BY <1>2, <2>2, <2>3 DEF queueVars
    <3>3. current' \in 0..MaxTasks /\ (pc' = "working" <=> current' # NoTask)
      BY <1>1, <2>2, Bounds DEF NoTask
    <3> QED
      BY <1>1, <2>2, <3>1, <3>2, <3>3 DEF IInv, Typed, queueVars
  <2>5. Standing'
    BY <1>1, <1>2, <2>2 DEF IInv, Standing, queueVars
  <2>6. Budget'
    BY <1>1, <2>2 DEF IInv, Budget
  <2>7. Order'
    BY <1>1, <1>2, <2>2, <2>3 DEF Order, Fronted, queueVars
  <2> QED
    BY <1>1, <1>2, <2>1, <2>4, <2>5, <2>6, <2>7 DEF IInv
<1>5. CASE CancelTask
  <2>1. /\ disk' = set_status(ledger, current, "pending") /\ pc' = "down" /\ Forget
    BY <1>5 DEF CancelTask
  <2>2. /\ Queue(disk') /\ InOrder(disk', NoTask) /\ Linked(disk')
    BY <2>1, <1>3
  <2>3. ledger' = NoLedger /\ Queue(ledger') /\ Len(ledger') = 0
    BY <2>1, EmptyQueue DEF Forget, NoLedger
  <2>4. Typed'
    BY <1>1, <2>1, <2>2, ForgetTyped DEF IInv, Typed
  <2>5. Standing'
    BY <2>1, <2>3 DEF Standing, Forget
  <2>6. Budget'
    BY <2>1, Bounds DEF Budget, Forget, One
  <2>7. InOrder(ledger', NoTask) /\ Linked(ledger')
    BY <2>3 DEF InOrder, Linked
  <2>8. Order'
    BY <1>1, <2>1, <2>2, <2>7 DEF Order, Fronted, Forget
  <2> QED
    BY <1>1, <1>2, <2>1, <2>4, <2>5, <2>6, <2>8 DEF IInv
<1>6. CASE TaskBlocked
  <2>1. /\ disk' = set_status(ledger, current, "blocked") /\ ledger' = disk'
        /\ baselineRed' \in BOOLEAN /\ blockedConsults' = blockedConsults + 1
        /\ UNCHANGED <<revisions, consultedOnStale>>
    BY <1>6 DEF TaskBlocked, Save
  <2>2. /\ Queue(disk') /\ Len(disk') = Len(ledger) /\ Shows(disk', current, "blocked")
        /\ InOrder(disk', NoTask) /\ Linked(disk')
    BY <2>1, <1>3
  <2>3. CASE OutOfConsults /\ pc' = "closing"
             /\ UNCHANGED <<queueVars, consultedOnEmpty, consults>>
    <3>1. Typed'
      BY <1>1, <1>2, <2>1, <2>2, <2>3, Bounds DEF IInv, Typed, Budget, queueVars, NoTask
    <3>2. Standing'
      BY <1>1, <1>2, <2>1, <2>3 DEF IInv, Standing, queueVars
    <3>3. Budget'
      BY <1>1, <2>1, <2>3 DEF IInv, Budget
    <3>4. Order'
      BY <1>1, <1>2, <2>1, <2>2, <2>3 DEF Order, Fronted, queueVars
    <3> QED
      BY <1>1, <1>2, <2>1, <3>1, <3>2, <3>3, <3>4 DEF IInv
  <2>4. CASE /\ ~OutOfConsults /\ consultedOnEmpty' = FALSE
             /\ unblocking' = current /\ frontAt' = 0 /\ Consult
    <3>1. pc' = "consult" /\ consults' = consults + 1
      BY <2>4 DEF Consult
    <3>2. Typed'
      <4>1. Queue(ledger') /\ Queue(disk') /\ Queue(previous') /\ frontAt' \in 0..Len(ledger') + 1
        BY <1>1, <1>2, <2>1, <2>2, <2>4 DEF IInv, Typed
      <4>2. unblocking' \in 0..MaxTasks /\ blockedConsults' \in 0..MaxBlockedConsults + 1
            /\ current' \in 0..MaxTasks
        BY <1>1, <1>2, <2>1, <2>4, Bounds DEF IInv, Typed, OutOfConsults, NoTask
      <4>3. /\ pc' \in Planners \cup {"down", "saving", "settling", "picking", "working", "closing"}
            /\ (pc' = "working" <=> current' # NoTask)
        BY <1>1, <3>1 DEF Planners, Breakdowns
      <4>4. consults' \in Nat
        BY <3>1 DEF IInv, Typed
      <4> QED
        BY <1>1, <2>1, <2>4, <4>1, <4>2, <4>3, <4>4 DEF IInv, Typed
    <3>3. Standing'
      BY <1>1, <1>2, <2>1, <2>4, <3>1 DEF IInv, Standing
    <3>4. Budget'
      <4>1. /\ blockedConsults \in Nat /\ consults \in Nat
            /\ consultedOnEmpty \in BOOLEAN /\ consultedOnStale \in BOOLEAN
            /\ consults <= 2 * blockedConsults + One(consultedOnStale) + One(consultedOnEmpty)
        BY <1>1 DEF IInv, Typed, Budget
      <4>2. One(consultedOnStale) \in 0..1 /\ One(consultedOnEmpty) \in 0..1
            /\ One(FALSE) = 0
        BY DEF One
      <4>3. blockedConsults' <= MaxBlockedConsults
        BY <2>1, <2>4, <4>1, Bounds DEF OutOfConsults
      <4>4. consults' <= 2 * blockedConsults' + One(consultedOnStale) + One(FALSE)
        <5> DEFINE s == One(consultedOnStale)
                   e == One(consultedOnEmpty)
        <5>1. /\ s \in Nat /\ e \in Nat /\ e <= 1
              /\ blockedConsults \in Nat /\ consults \in Nat
              /\ consults <= 2 * blockedConsults + s + e
          BY <4>1, <4>2
        <5> HIDE DEF s, e
        <5>2. consults + 1 <= 2 * (blockedConsults + 1) + s + 0
          BY <5>1
        <5> QED
          BY <5>2, <2>1, <3>1, <4>2 DEF s
      <4>5. consults' <= 2 * MaxBlockedConsults + 2
        BY <2>1, <3>1, <4>1, <4>2, <4>3, <4>4, Bounds
      <4> QED
        BY <2>1, <2>4, <4>3, <4>4, <4>5 DEF Budget
    <3>5. \A i \in 1..Len(ledger) :
            ledger'[i].unblocks # current
      <4>1. \A i \in 1..Len(ledger) : ledger'[i].unblocks = ledger[i].unblocks
        BY <1>2, <2>1, SetStatusKeeps DEF TaskStatus
      <4>2. ~Shows(ledger, current, "blocked")
        BY <1>2, OneEntry DEF Shows
      <4>3. current # Nobody
        BY <1>2, Bounds DEF Nobody
      <4>4. \A i \in 1..Len(ledger) : ledger[i].unblocks # current
        BY <4>2, <4>3 DEF IInv, Order, Linked
      <4> QED
        BY <4>1, <4>4
    <3>6. Fronted'
      <4>1. \A i \in 1..Len(ledger') : ~(i < 0)
        BY <1>2, <2>1, <2>2
      <4> QED
        BY <2>1, <2>2, <2>4, <3>5, <4>1 DEF Fronted
    <3>7. Order'
      BY <1>1, <2>1, <2>2, <3>6 DEF Order
    <3> QED
      BY <1>1, <1>2, <2>1, <3>2, <3>3, <3>4, <3>7 DEF IInv
  <2> QED
    BY <1>6, <2>3, <2>4 DEF TaskBlocked
<1> QED
  BY <1>4, <1>5, <1>6

-----------------------------------------------------------------------------
\* The steps that end a process, and those that touch no entry of a queue.
LEMMA ExitKeeps ==
  ASSUME IInv, Exit
  PROVE  IInv' /\ current' = NoTask /\ UNCHANGED <<disk, plan>>
<1>1. pc' = "down" /\ Forget /\ UNCHANGED <<disk, previous, plan, processes>>
  BY DEF Exit, fileVars
<1>2. Typed'
  BY <1>1, ForgetTyped DEF IInv, Typed
<1>3. Standing'
  BY <1>1 DEF Standing, Forget, NoLedger
<1>4. Budget'
  BY <1>1, Bounds DEF Budget, Forget, One
<1>5. Order'
  BY <1>1, OrderSurvives DEF IInv
<1> QED
  BY <1>1, <1>2, <1>3, <1>4, <1>5 DEF IInv, Forget

LEMMA StartKeeps ==
  ASSUME IInv, preserve_previous_ledger
  PROVE  IInv' /\ UNCHANGED <<disk, current, plan>>
<1>1. /\ pc = "down" /\ pc' = "saving" /\ processes < MaxProcesses
      /\ processes' = processes + 1
      /\ previous' = IF resumable(disk) # {} THEN disk ELSE previous
      /\ UNCHANGED <<disk, plan, ledger, queueVars, current, memoryVars, consults>>
  BY DEF preserve_previous_ledger
<1>2. Typed'
  <2>1. Queue(ledger') /\ Queue(disk') /\ Queue(previous')
    BY <1>1 DEF IInv, Typed
  <2>2. processes' \in 0..MaxProcesses
    BY <1>1, Bounds DEF IInv, Typed
  <2>3. /\ pc' \in Planners \cup {"down", "saving", "settling", "picking", "working", "closing"}
        /\ (pc' = "working" <=> current' # NoTask)
    BY <1>1 DEF IInv, Typed
  <2> QED
    BY <1>1, <2>1, <2>2, <2>3 DEF IInv, Typed, queueVars, memoryVars
<1>3. Standing'
  BY <1>1 DEF IInv, Standing, queueVars
<1>4. Budget'
  BY <1>1 DEF IInv, Budget, memoryVars
<1>5. Order'
  BY <1>1, OrderStutters DEF IInv, queues, queueVars
<1> QED
  BY <1>1, <1>2, <1>3, <1>4, <1>5 DEF IInv

LEMMA SaveRequestKeeps ==
  ASSUME IInv, SaveRequest
  PROVE  IInv' /\ current = NoTask /\ current' = NoTask /\ disk' = NoLedger
         /\ (resumable(disk) # {} => previous' = disk)
<1>1. /\ pc = "saving" /\ pc' = "clarify" /\ ledger' = NoLedger /\ disk' = NoLedger
      /\ plan' = processes
      /\ UNCHANGED <<previous, queueVars, current, memoryVars, processes, consults>>
  BY DEF SaveRequest, Save, NoLedger
<1>2. Len(ledger') = 0 /\ Len(disk') = 0 /\ Queue(ledger') /\ Queue(disk')
  BY <1>1, EmptyQueue
<1>3. current = NoTask /\ frontAt = 0 /\ unblocking = Nobody
      /\ (resumable(disk) # {} => previous = disk)
  BY <1>1 DEF IInv, Typed, Standing
<1>4. Typed'
  <2>1. frontAt' \in 0..Len(ledger') + 1
    BY <1>1, <1>2, <1>3 DEF queueVars
  <2>2. /\ pc' \in Planners \cup {"down", "saving", "settling", "picking", "working", "closing"}
        /\ (pc' = "working" <=> current' # NoTask)
    BY <1>1, <1>3 DEF Planners
  <2> QED
    BY <1>1, <1>2, <2>1, <2>2 DEF IInv, Typed, queueVars, memoryVars
<1>5. Standing'
  BY <1>1, <1>3 DEF IInv, Standing, queueVars
<1>6. Budget'
  BY <1>1 DEF IInv, Budget, memoryVars
<1>7. Order'
  <2>1. InOrder(ledger', NoTask) /\ Linked(ledger')
    BY <1>2 DEF InOrder, Linked
  <2> QED
    BY <2>1, <1>1, <1>3 DEF Order, Fronted, queueVars
<1> QED
  BY <1>1, <1>3, <1>4, <1>5, <1>6, <1>7 DEF IInv

LEMMA ResumeKeeps ==
  ASSUME IInv, Resume
  PROVE  IInv' /\ UNCHANGED <<disk, current, plan>>
<1>1. /\ pc = "down" /\ pc' = "settling" /\ processes < MaxProcesses
      /\ processes' = processes + 1 /\ ledger' = disk
      /\ UNCHANGED <<disk, previous, plan, queueVars, current, memoryVars, consults>>
  BY DEF Resume, fileVars
<1>2. current = NoTask /\ frontAt = 0 /\ unblocking = Nobody
  BY <1>1 DEF IInv, Typed, Standing
<1>3. Typed'
  <2>1. Queue(ledger') /\ Queue(disk') /\ Queue(previous') /\ Len(ledger') \in Nat
    BY <1>1, QueueIsLedger DEF IInv, Typed
  <2>2. processes' \in 0..MaxProcesses /\ frontAt' \in 0..Len(ledger') + 1
    BY <1>1, <1>2, <2>1, Bounds DEF IInv, Typed, queueVars
  <2>3. /\ pc' \in Planners \cup {"down", "saving", "settling", "picking", "working", "closing"}
        /\ (pc' = "working" <=> current' # NoTask)
    BY <1>1, <1>2
  <2> QED
    BY <1>1, <2>1, <2>2, <2>3 DEF IInv, Typed, queueVars, memoryVars
<1>4. Standing'
  BY <1>1, <1>2 DEF IInv, Standing, queueVars
<1>5. Budget'
  BY <1>1 DEF IInv, Budget, memoryVars
<1>6. Order'
  BY <1>1, <1>2 DEF IInv, Order, Fronted, queueVars
<1> QED
  BY <1>1, <1>3, <1>4, <1>5, <1>6 DEF IInv

\* Every other step moves pc, and the counters of the consults.
Quiet ==
  \/ StageEnds \/ Approve \/ Revise \/ RevisionEnds
  \/ ConsultOnStale \/ ConsultOnEmpty \/ NothingLeft \/ ConsultEnds

LEMMA QuietKeeps ==
  ASSUME IInv, Quiet
  PROVE  IInv' /\ UNCHANGED <<disk, current, plan>>
<1>1. UNCHANGED <<disk, previous, plan, ledger, current, processes, baselineRed,
                  blockedConsults>>
  BY DEF Quiet, StageEnds, Approve, Revise, RevisionEnds, ConsultOnStale, ConsultOnEmpty,
         NothingLeft, ConsultEnds, fileVars, memoryVars
<1>2. /\ pc \in {"clarify", "architect", "breakdown", "settling", "revision", "picking", "consult"}
      /\ pc' \in {"architect", "breakdown", "settling", "revision", "picking", "consult", "closing"}
      /\ current = NoTask
  BY DEF Quiet, StageEnds, Approve, Revise, RevisionEnds, ConsultOnStale, ConsultOnEmpty,
         NothingLeft, ConsultEnds, Stages, Consult, IInv, Typed
<1>3. \/ UNCHANGED queueVars /\ (pc = "consult" => pc' = "consult")
      \/ unblocking' = Nobody /\ frontAt' = 0
  BY DEF Quiet, StageEnds, Approve, Revise, RevisionEnds, ConsultOnStale, ConsultOnEmpty,
         NothingLeft, ConsultEnds, Stages, queueVars
<1>4. /\ consultedOnEmpty' \in BOOLEAN /\ consultedOnStale' \in BOOLEAN
      /\ revisions' \in 0..MaxRevisions
  <2>1. /\ consultedOnEmpty' = consultedOnEmpty \/ consultedOnEmpty' = TRUE
        /\ consultedOnStale' = consultedOnStale \/ consultedOnStale' = TRUE
        /\ revisions' = revisions \/ (revisions < MaxRevisions /\ revisions' = revisions + 1)
    BY DEF Quiet, StageEnds, Approve, Revise, RevisionEnds, ConsultOnStale, ConsultOnEmpty,
           NothingLeft, ConsultEnds, memoryVars
  <2>2. consultedOnEmpty' \in BOOLEAN /\ consultedOnStale' \in BOOLEAN
    BY <2>1 DEF IInv, Typed
  <2>3. revisions' \in 0..MaxRevisions
    BY <2>1, Bounds DEF IInv, Typed
  <2> QED
    BY <2>2, <2>3
<1>5. \/ UNCHANGED <<consults, consultedOnEmpty, consultedOnStale>>
      \/ /\ consults' = consults + 1
         /\ \/ ~consultedOnStale /\ consultedOnStale' /\ UNCHANGED consultedOnEmpty
            \/ ~consultedOnEmpty /\ consultedOnEmpty' /\ UNCHANGED consultedOnStale
  BY DEF Quiet, StageEnds, Approve, Revise, RevisionEnds, ConsultOnStale, ConsultOnEmpty,
         NothingLeft, ConsultEnds, memoryVars, Consult
<1>6. Typed'
  <2>1. Queue(ledger') /\ Queue(disk') /\ Queue(previous')
    BY <1>1 DEF IInv, Typed
  <2>2. unblocking' \in 0..MaxTasks /\ frontAt' \in 0..Len(ledger') + 1
    <3>1. Len(ledger) \in Nat
      BY QueueIsLedger DEF IInv, Typed
    <3> QED
      BY <3>1, <1>1, <1>3, Bounds DEF IInv, Typed, queueVars, Nobody
  <2>3. /\ pc' \in Planners \cup {"down", "saving", "settling", "picking", "working", "closing"}
        /\ (pc' = "working" <=> current' # NoTask)
    BY <1>1, <1>2 DEF Planners, Breakdowns
  <2>4. consults' \in Nat
    BY <1>5 DEF IInv, Typed
  <2> QED
    BY <1>1, <1>4, <2>1, <2>2, <2>3, <2>4 DEF IInv, Typed
<1>7. Standing'
  BY <1>1, <1>2, <1>3 DEF IInv, Standing, queueVars
<1>8. Budget'
  <2> DEFINE s == One(consultedOnStale)
             e == One(consultedOnEmpty)
             s2 == One(consultedOnStale')
             e2 == One(consultedOnEmpty')
  <2>1. s \in 0..1 /\ e \in 0..1 /\ s2 \in 0..1 /\ e2 \in 0..1
    BY DEF One
  <2>2. \/ consults' = consults /\ s2 = s /\ e2 = e
        \/ consults' = consults + 1 /\ s = 0 /\ s2 = 1 /\ e2 = e
        \/ consults' = consults + 1 /\ s2 = s /\ e = 0 /\ e2 = 1
    BY <1>5 DEF One
  <2>3. /\ blockedConsults \in Nat /\ consults \in Nat
        /\ blockedConsults <= MaxBlockedConsults /\ consults <= 2 * blockedConsults + s + e
    <3>1. pc # "closing"
      BY <1>2
    <3> QED
      BY <3>1, Bounds DEF IInv, Typed, Budget
  <2> HIDE DEF s, e, s2, e2
  <2>4. consults' <= 2 * blockedConsults + s2 + e2
    BY <2>1, <2>2, <2>3
  <2>5. consults' <= 2 * MaxBlockedConsults + 2
    <3>1. consults' \in Nat
      BY <2>2, <2>3
    <3> QED
      BY <3>1, <2>1, <2>3, <2>4, Bounds
  <2> QED
    BY <1>1, <2>3, <2>4, <2>5 DEF Budget, s2, e2
<1>9. Order'
  <2>1. CASE UNCHANGED queueVars
    BY <2>1, <1>1, OrderStutters DEF IInv, queues, queueVars
  <2>2. CASE unblocking' = Nobody /\ frontAt' = 0
    BY <2>2, <1>1, <1>2 DEF IInv, Order, Fronted
  <2> QED
    BY <2>1, <2>2, <1>3
<1> QED
  BY <1>1, <1>6, <1>7, <1>8, <1>9 DEF IInv

\* Next, by what its actions do to the queues.
LEMMA NextCases ==
  ASSUME Next
  PROVE  \/ preserve_previous_ledger \/ SaveRequest \/ Resume \/ Quiet \/ Exit \/ PickUp
         \/ TaskDone \/ TaskStops \/ CancelTask \/ TaskBlocked
         \/ \E count \in 1..MaxBatch : add_tasks_tool(count)
         \/ \E id \in 1..MaxTasks : drop_task(id)
  BY DEF Next, WorkStep, Quiet, PlannerFails, Decline, Close, Crash

LEMMA IInvStep == IInv /\ [Next]_vars => IInv'
<1> SUFFICES ASSUME IInv, [Next]_vars PROVE IInv'
  OBVIOUS
<1>1. CASE Next
  BY <1>1, NextCases, StartKeeps, SaveRequestKeeps, ResumeKeeps, QuietKeeps, ExitKeeps,
     PickUpStep, VerdictKeeps, AddStep, DropStep
<1>2. CASE UNCHANGED vars
  <2>1. UNCHANGED <<disk, previous, plan, ledger, unblocking, frontAt, pc, current, revisions,
                    baselineRed, consultedOnEmpty, consultedOnStale, blockedConsults,
                    processes, consults>>
    BY <1>2 DEF vars, fileVars, queueVars, memoryVars
  <2>2. Typed'
    BY <2>1 DEF IInv, Typed
  <2>3. Standing' /\ Budget'
    BY <2>1 DEF IInv, Standing, Budget
  <2>4. Order'
    BY <2>1, OrderStutters DEF IInv, queues
  <2> QED
    BY <2>2, <2>3, <2>4 DEF IInv
<1> QED
  BY <1>1, <1>2

(***************************************************************************)
(* What holds between any two steps of a serial run and its restarts.      *)
(***************************************************************************)
THEOREM WorkInvariance == Spec => []IInv
  BY IInvInit, IInvStep, PTL DEF Spec

LEMMA WorkTypes == IInv => TypeOK
<1> SUFFICES ASSUME IInv PROVE TypeOK
  OBVIOUS
<1>1. IsLedger(ledger) /\ IsLedger(disk) /\ IsLedger(previous)
  BY QueueIsLedger DEF IInv, Typed
<1>2. frontAt \in 0..MaxTasks + 1
  <2>1. Len(ledger) \in Nat /\ Len(ledger) <= MaxTasks
    BY QueueIsLedger DEF IInv, Typed, Queue
  <2> QED
    BY <2>1, Bounds DEF IInv, Typed
<1> QED
  BY <1>1, <1>2 DEF IInv, Typed, TypeOK

(***************************************************************************)
(* The state of a run is what its types say, and each ledger, in memory or *)
(* on disk, is numbered from one without a gap or a number twice.          *)
(***************************************************************************)
THEOREM WorkTypeCorrect == Spec => []TypeOK
  BY WorkTypes, WorkInvariance, PTL

(***************************************************************************)
(* What a blocked task's consult asked for is worked before every task     *)
(* that was waiting then (engine.py's work, ledger.py's add_tasks).        *)
(***************************************************************************)
THEOREM UnblockersLeadAlways == Spec => []UnblockersLead
<1>1. IInv => UnblockersLead
  <2> SUFFICES ASSUME IInv, NEW i \in DOMAIN ledger, NEW j \in DOMAIN ledger,
                      i < j, Waiting(i), Waiting(j)
               PROVE  Precedes(ledger[i], ledger[j])
    BY DEF UnblockersLead, Precedes
  <2>1. i \in 1..Len(ledger) /\ j \in 1..Len(ledger)
    BY QueueIsLedger DEF IInv, Typed
  <2> QED
    BY <2>1 DEF IInv, Order, InOrder, Queued, Waiting
<1> QED
  BY <1>1, WorkInvariance, PTL

(***************************************************************************)
(* However the planner answers, a run asks it a bounded number of times    *)
(* (engine.py's MAX_BLOCKED_CONSULTS and its two consulted flags).         *)
(***************************************************************************)
THEOREM ConsultsBoundedAlways == Spec => []ConsultsBounded
<1>1. IInv => ConsultsBounded
  BY DEF IInv, Budget, ConsultsBounded
<1> QED
  BY <1>1, WorkInvariance, PTL

(***************************************************************************)
(* No new plan replaces unfinished work that has not been copied, wherever *)
(* earlier processes died (preserve_previous_ledger).                      *)
(***************************************************************************)
THEOREM WorkIsCopied == Spec => UnfinishedWorkIsCopied
<1> DEFINE Copied == plan' # plan /\ resumable(disk) # {} => previous' = disk
<1>1. IInv /\ [Next]_vars => [Copied]_vars
  <2> SUFFICES ASSUME IInv, Next, plan' # plan, resumable(disk) # {}
               PROVE  previous' = disk
    OBVIOUS
  <2>1. plan' = plan \/ SaveRequest
    BY NextCases, StartKeeps, ResumeKeeps, QuietKeeps, ExitKeeps
       DEF PickUp, TaskDone, TaskStops, CancelTask, TaskBlocked, add_tasks_tool, drop_task
  <2> QED
    BY <2>1, SaveRequestKeeps
<1> HIDE DEF Copied
<1>2. Spec => [][Copied]_vars
  BY <1>1, WorkInvariance, PTL DEF Spec
<1> QED
  BY <1>2 DEF Copied, UnfinishedWorkIsCopied

-----------------------------------------------------------------------------
(***************************************************************************)
(* What the disk shows implements TaskLifecycle.                           *)
(***************************************************************************)
Shown(tasks) ==
  [t \in 1..MaxTasks |->
     IF t \in Ids(tasks)
       THEN CHOOSE st \in TaskStatus : t \in InStatus(tasks, st)
       ELSE "absent"]

\* A task's status is that of its one entry; a number no entry has is absent.
LEMMA ShownIsEntry ==
  ASSUME NEW tasks, Queue(tasks)
  PROVE  /\ \A i \in 1..Len(tasks) : Shown(tasks)[tasks[i].id] = tasks[i].status
         /\ \A t \in 1..MaxTasks : t > Len(tasks) => Shown(tasks)[t] = "absent"
<1>1. /\ Ids(tasks) = 1..Len(tasks) /\ DOMAIN tasks = 1..Len(tasks) /\ Len(tasks) \in Nat
      /\ \A i \in 1..Len(tasks) : tasks[i] \in EntryOK
  BY QueueIsLedger DEF IsLedger
<1>2. ASSUME NEW i \in 1..Len(tasks)
      PROVE  Shown(tasks)[tasks[i].id] = tasks[i].status
  <2>1. tasks[i].id \in 1..MaxTasks /\ tasks[i].id \in Ids(tasks) /\ tasks[i].status \in TaskStatus
    BY <1>1 DEF EntryOK, Ids
  <2>2. \A st : tasks[i].id \in InStatus(tasks, st) <=> st = tasks[i].status
    <3> SUFFICES ASSUME NEW st
                 PROVE  tasks[i].id \in InStatus(tasks, st) <=> st = tasks[i].status
      OBVIOUS
    <3>1. ASSUME tasks[i].id \in InStatus(tasks, st) PROVE st = tasks[i].status
      <4>1. PICK k \in 1..Len(tasks) : tasks[k].status = st /\ tasks[k].id = tasks[i].id
        BY <3>1, <1>1 DEF InStatus
      <4> QED
        BY <4>1, OneEntry
    <3>2. ASSUME st = tasks[i].status PROVE tasks[i].id \in InStatus(tasks, st)
      BY <3>2, <1>1 DEF InStatus
    <3> QED
      BY <3>1, <3>2
  <2>3. (CHOOSE st \in TaskStatus : tasks[i].id \in InStatus(tasks, st)) = tasks[i].status
    BY <2>1, <2>2
  <2> QED
    BY <2>1, <2>3 DEF Shown
<1>3. ASSUME NEW t \in 1..MaxTasks, t > Len(tasks)
      PROVE  Shown(tasks)[t] = "absent"
  <2>1. t \notin Ids(tasks)
    BY <1>1, <1>3
  <2> QED
    BY <2>1 DEF Shown
<1> QED
  BY <1>2, <1>3

LEMMA ShownIsFunction ==
  ASSUME NEW tasks
  PROVE  Shown(tasks) = [t \in 1..MaxTasks |-> Shown(tasks)[t]]
         /\ DOMAIN Shown(tasks) = 1..MaxTasks
  BY DEF Shown

\* Changing one entry's status changes what is shown of it alone.
LEMMA ShownStatus ==
  ASSUME NEW tasks, Queue(tasks), NEW id \in 1..MaxTasks, NEW st \in TaskStatus,
         NEW was, Shows(tasks, id, was)
  PROVE  /\ Shown(set_status(tasks, id, st)) = [Shown(tasks) EXCEPT ![id] = st]
         /\ Shown(tasks)[id] = was
<1> DEFINE new == set_status(tasks, id, st)
<1>1. /\ Queue(new) /\ Len(new) = Len(tasks) /\ Len(tasks) \in Nat
      /\ \A i \in 1..Len(tasks) :
           /\ new[i].id = tasks[i].id
           /\ new[i].status = IF tasks[i].id = id THEN st ELSE tasks[i].status
  BY SetStatusKeeps, QueueIsLedger
<1> HIDE DEF new
<1>2. PICK k \in 1..Len(tasks) : tasks[k].id = id /\ tasks[k].status = was
  BY DEF Shows
<1>3. Shown(tasks)[id] = was
  BY <1>2, ShownIsEntry
<1>4. ASSUME NEW t \in 1..MaxTasks
      PROVE  Shown(new)[t] = IF t = id THEN st ELSE Shown(tasks)[t]
  <2>1. CASE t > Len(tasks)
    <3>1. Shown(new)[t] = "absent" /\ Shown(tasks)[t] = "absent"
      BY <2>1, <1>1, ShownIsEntry
    <3>2. id <= Len(tasks)
      BY <1>2 DEF Queue
    <3> QED
      BY <3>1, <3>2, <2>1, <1>1
  <2>2. CASE t \in 1..Len(tasks)
    <3>1. PICK i \in 1..Len(tasks) : tasks[i].id = t
      BY <2>2 DEF Queue
    <3>2. Shown(tasks)[t] = tasks[i].status /\ Shown(new)[new[i].id] = new[i].status
      BY <3>1, <1>1, ShownIsEntry
    <3> QED
      BY <3>1, <3>2, <1>1
  <2> QED
    BY <2>1, <2>2, <1>1
<1>5. Shown(new) = [Shown(tasks) EXCEPT ![id] = st]
  <2>1. /\ Shown(new) = [t \in 1..MaxTasks |-> Shown(new)[t]]
        /\ DOMAIN Shown(tasks) = 1..MaxTasks
    BY ShownIsFunction
  <2>2. [Shown(tasks) EXCEPT ![id] = st]
          = [t \in 1..MaxTasks |-> IF t = id THEN st ELSE Shown(tasks)[t]]
    BY <2>1
  <2> QED
    BY <2>1, <2>2, <1>4
<1> QED
  BY <1>3, <1>5 DEF new

LEMMA LifecycleInit == Init => Lifecycle!Init
<1> SUFFICES ASSUME Init PROVE Lifecycle!Init
  OBVIOUS
<1>1. Ids(disk) = {}
  BY DEF Init, NoLedger, Ids
<1>2. StatusOnDisk = [t \in 1..MaxTasks |-> "absent"]
  BY <1>1 DEF StatusOnDisk
<1> QED
  BY <1>2 DEF Init, Lifecycle!Init

LEMMA LifecycleStep ==
  ASSUME IInv, IInv', [Next]_vars
  PROVE  [Lifecycle!Next]_<<StatusOnDisk, current>>
<1>1. StatusOnDisk = Shown(disk) /\ StatusOnDisk' = Shown(disk')
  BY DEF StatusOnDisk, Shown
<1>2. Queue(ledger) /\ Queue(disk) /\ Queue(disk')
  BY DEF IInv, Typed
<1>3. CASE disk' = disk /\ current' \in {current, NoTask}
  BY <1>1, <1>3 DEF Lifecycle!Next, Lifecycle!Die
<1>4. CASE SaveRequest
  <2>1. current = NoTask /\ current' = NoTask /\ disk' = NoLedger
    BY <1>4, SaveRequestKeeps
  <2>2. Ids(disk') = {}
    BY <2>1 DEF Ids, NoLedger
  <2>3. StatusOnDisk' = [t \in 1..MaxTasks |-> "absent"]
    BY <1>1, <2>2 DEF Shown
  <2> QED
    BY <2>1, <2>3 DEF Lifecycle!Next, Lifecycle!Replace
<1>5. ASSUME NEW count \in 1..MaxBatch, add_tasks_tool(count)
      PROVE  Lifecycle!Next
  <2> DEFINE new == Len(ledger) + 1 .. Len(ledger) + count
             at == place(ledger, unblocking, frontAt)
  <2>1. /\ disk' = add_tasks(ledger, count, unblocking, frontAt) /\ ledger' = disk'
        /\ Len(ledger) + count <= MaxTasks /\ pc \in Breakdowns /\ current' = current
    BY <1>5 DEF add_tasks_tool, Save
  <2>2. disk = ledger /\ unblocking \in 0..MaxTasks /\ frontAt \in 0..Len(ledger) + 1
        /\ count \in Nat \ {0} /\ Len(ledger) \in Nat
    <3>1. pc \notin {"down", "saving"}
      BY <2>1 DEF Breakdowns
    <3>2. disk = ledger
      BY <3>1 DEF IInv, Standing
    <3>3. unblocking \in 0..MaxTasks /\ frontAt \in 0..Len(ledger) + 1
      BY DEF IInv, Typed
    <3>4. Len(ledger) \in Nat /\ count \in Nat \ {0}
      BY <1>2, QueueIsLedger
    <3> QED
      BY <3>2, <3>3, <3>4
  <2>3. at \in 1..Len(ledger) + 1
    BY <1>2, <2>2, NextPendingIsFirst DEF place, front
  <2>4. /\ Len(disk') = Len(ledger) + count
        /\ \A i \in 1..Len(ledger) + count :
             disk'[i] = Inserted(ledger, count, unblocking, at, i)
    BY <1>2, <2>1, <2>2, <2>3, AddTasksInserts
  <2> HIDE DEF at
  <2>5. ASSUME NEW t \in 1..MaxTasks
        PROVE  Shown(disk')[t] = IF t \in new THEN "pending" ELSE Shown(ledger)[t]
    <3>1. CASE t > Len(ledger) + count
      BY <3>1, <1>2, <2>2, <2>4, ShownIsEntry
    <3>2. CASE t \in new
      <4> DEFINE i == t - Len(ledger) + at - 1
      <4>1. /\ i \in 1..Len(ledger) + count /\ ~(i < at) /\ i < at + count
            /\ Len(ledger) + i - at + 1 = t
        BY <3>2, <2>2, <2>3
      <4>2. disk'[i] = [id |-> Len(ledger) + i - at + 1, status |-> "pending",
                        unblocks |-> unblocking]
        BY <4>1, <2>4 DEF Inserted
      <4>3. disk'[i].id = t /\ disk'[i].status = "pending"
        BY <4>1, <4>2
      <4> HIDE DEF i
      <4> QED
        BY <3>2, <4>1, <4>3, <1>2, <2>4, ShownIsEntry
    <3>3. CASE t \in 1..Len(ledger)
      <4>1. PICK k \in 1..Len(ledger) : ledger[k].id = t
        BY <3>3, <1>2 DEF Queue
      <4> DEFINE i == IF k < at THEN k ELSE k + count
      <4>2. /\ i \in 1..Len(ledger) + count
            /\ (k < at => i < at /\ i = k)
            /\ (~(k < at) => ~(i < at) /\ ~(i < at + count) /\ i - count = k)
        BY <2>2, <2>3
      <4> HIDE DEF i
      <4>3. disk'[i] = ledger[k]
        BY <4>2, <2>4 DEF Inserted
      <4>4. Shown(disk')[disk'[i].id] = disk'[i].status /\ Shown(ledger)[t] = ledger[k].status
        BY <4>1, <4>2, <1>2, <2>4, ShownIsEntry
      <4>5. t \notin new
        BY <3>3, <2>2
      <4> QED
        BY <4>1, <4>3, <4>4, <4>5
    <3> QED
      BY <3>1, <3>2, <3>3, <2>2
  <2>6. new \in SUBSET (1..MaxTasks) /\ new # {}
    <3>1. \A t \in new : t \in 1..MaxTasks
      BY <2>1, <2>2, Bounds
    <3>2. Len(ledger) + 1 \in new
      BY <2>2
    <3> QED
      BY <3>1, <3>2
  <2>7. \A t \in new : Shown(ledger)[t] = "absent"
    <3>1. \A t \in new : t \in 1..MaxTasks /\ t > Len(ledger)
      BY <2>1, <2>2, Bounds
    <3> QED
      BY <3>1, <1>2, ShownIsEntry
  <2> HIDE DEF new
  <2>8. Shown(disk') = [t \in 1..MaxTasks |-> IF t \in new THEN "pending" ELSE Shown(ledger)[t]]
    BY <2>5, ShownIsFunction
  <2>9. Lifecycle!Declare(new)
    BY <1>1, <2>1, <2>2, <2>6, <2>7, <2>8 DEF Lifecycle!Declare
  <2> QED
    BY <2>6, <2>9 DEF Lifecycle!Next
<1>6. ASSUME NEW id \in 1..MaxTasks, drop_task(id)
      PROVE  Lifecycle!Next
  <2>1. /\ disk' = set_status(ledger, id, "dropped") /\ current' = current
        /\ current = NoTask /\ disk = ledger
        /\ (Shows(ledger, id, "in_progress") \/ Shows(ledger, id, "pending"))
    BY <1>6, DropStep DEF drop_task, Save
  <2>2. PICK was \in {"pending", "in_progress"} : Shows(ledger, id, was)
    BY <2>1
  <2>3. Shown(disk') = [Shown(disk) EXCEPT ![id] = "dropped"] /\ Shown(disk)[id] = was
    BY <1>2, <2>1, <2>2, ShownStatus DEF TaskStatus
  <2>4. Lifecycle!Drop(id)
    BY <1>1, <2>1, <2>2, <2>3 DEF Lifecycle!Drop
  <2> QED
    BY <2>4 DEF Lifecycle!Next
<1>7. CASE PickUp
  <2>1. /\ current = NoTask /\ current' \in 1..MaxTasks /\ disk = ledger
        /\ disk' = set_status(ledger, current', "in_progress")
        /\ Shows(ledger, current', "pending")
    BY <1>7, PickUpStep
  <2>2. /\ Shown(disk') = [Shown(disk) EXCEPT ![current'] = "in_progress"]
        /\ Shown(disk)[current'] = "pending"
    BY <1>2, <2>1, ShownStatus DEF TaskStatus
  <2>3. Lifecycle!PickUp(current')
    BY <1>1, <2>1, <2>2 DEF Lifecycle!PickUp
  <2> QED
    BY <2>1, <2>3 DEF Lifecycle!Next
<1>8. CASE TaskDone \/ TaskStops \/ CancelTask \/ TaskBlocked
  <2>1. /\ current \in 1..MaxTasks /\ current' = NoTask /\ disk = ledger
        /\ Shows(ledger, current, "in_progress")
        /\ \E st \in {"done", "blocked", "pending"} : disk' = set_status(ledger, current, st)
    BY <1>8, VerdictKeeps
  <2>2. PICK st \in {"done", "blocked", "pending"} : disk' = set_status(ledger, current, st)
    BY <2>1
  <2>3. Shown(disk') = [Shown(disk) EXCEPT ![current] = st]
    BY <1>2, <2>1, <2>2, ShownStatus DEF TaskStatus
  <2>4. Lifecycle!Settle(current) \/ Lifecycle!PutBack(current)
    BY <1>1, <2>1, <2>3 DEF Lifecycle!Settle, Lifecycle!PutBack
  <2> QED
    BY <2>1, <2>4 DEF Lifecycle!Next
<1>9. CASE preserve_previous_ledger \/ Resume \/ Quiet \/ Exit
  BY <1>3, <1>9, StartKeeps, ResumeKeeps, QuietKeeps, ExitKeeps
<1>10. CASE UNCHANGED vars
  BY <1>3, <1>10 DEF vars, fileVars
<1> QED
  BY <1>4, <1>5, <1>6, <1>7, <1>8, <1>9, <1>10, NextCases

(***************************************************************************)
(* Whatever plans, consults, drops, crashes and resumes happen, each task  *)
(* on disk follows TaskLifecycle: WorkLoop implements it.                  *)
(***************************************************************************)
THEOREM DiskFollowsLifecycle == Spec => LifecycleOnDisk
<1>1. IInv /\ IInv' /\ [Next]_vars => [Lifecycle!Next]_<<StatusOnDisk, current>>
  BY LifecycleStep
<1> QED
  BY <1>1, LifecycleInit, WorkInvariance, PTL DEF Spec, LifecycleOnDisk, Lifecycle!Spec
=============================================================================
