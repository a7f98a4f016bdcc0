-------------------------- MODULE Process_proofs --------------------------
(***************************************************************************)
(* Session, for any processes, modes and bounds: what a session leaves     *)
(* open, whose ledger a request replaces, and what the archive holds.      *)
(* Config, for any settings, roles, layers and edits: that what is         *)
(* reported of a configuration is true and a request runs under the files  *)
(* as they are.  And the machine that has both beside a driver.            *)
(***************************************************************************)
EXTENDS MCProcess, WorkLoop_proofs, RecursiveFunctions, SequenceTheorems

-----------------------------------------------------------------------------
(***************************************************************************)
(* Session.                                                                *)
(***************************************************************************)

Runs == [run : Nat, usage : Nat, size : Nat, stuck : BOOLEAN]

LEMMA SessionBounds ==
  /\ KEEP_RUNS \in Nat \ {0} /\ MAX_PROJECT_BYTES \in Nat /\ MaxSessions \in Nat
  /\ RunSizes \subseteq Nat
  BY SessionAssumption

-----------------------------------------------------------------------------
(***************************************************************************)
(* Recursion over a sequence.                                              *)
(***************************************************************************)
(***************************************************************************)
(* Bytes is the sum it is written as ...                                   *)
(***************************************************************************)
LEMMA BytesSum ==
  ASSUME NEW runs \in Seq(Runs)
  PROVE  \E sum \in [0..Len(runs) -> Nat] :
           /\ sum[0] = 0 /\ \A i \in 1..Len(runs) : sum[i] = sum[i - 1] + runs[i].size
           /\ Bytes(runs) = sum[Len(runs)]
<1> DEFINE N == Len(runs)
           F(f) == [i \in 0..N |-> IF i = 0 THEN 0 ELSE f[i - 1] + runs[i].size]
           step == [i \in 1..N |-> [n \in Nat |-> n + runs[i].size]]
           h == CHOOSE f : f = F(f)
<1>1. N \in Nat /\ \A i \in 1..N : runs[i] \in Runs
  BY LenProperties, ElementOfSeq
<1>2. \A i \in 1..N : runs[i].size \in Nat
  BY <1>1 DEF Runs
<1>3. step \in [1..N -> [Nat -> Nat]]
  BY <1>2
<1>4. \A i \in 1..N, n \in Nat : step[i][n] = n + runs[i].size
  OBVIOUS
<1> HIDE DEF step, N
<1>5. PICK g \in [0..N -> Nat] : g[0] = 0 /\ \A i \in 1..N : g[i] = step[i][g[i - 1]]
  <2>1. 0 \in Nat
    OBVIOUS
  <2>2. N \in Nat
    BY <1>1
  <2>3. \E f \in [0..N -> Nat] : f[0] = 0 /\ \A i \in 1..N : f[i] = step[i][f[i - 1]]
    <3>1. step \in Steps(N, Nat)
      BY <1>3 DEF Steps
    <3>2. Computed(N, Nat, 0, step)
      BY <2>1, <2>2, <3>1, RecursionExists
    <3> QED
      BY <3>2 DEF Computed
  <2> QED
    BY <2>3
<1>6. \A i \in 1..N : g[i] = g[i - 1] + runs[i].size
  <2> SUFFICES ASSUME NEW i \in 1..N PROVE g[i] = g[i - 1] + runs[i].size
    OBVIOUS
  <2>1. g[i - 1] \in Nat
    BY <1>1
  <2> QED
    BY <2>1, <1>4, <1>5
<1>7. g = F(g)
  BY <1>1, <1>5, <1>6
<1>8. h = F(h)
  <2> HIDE DEF F
  <2> QED
    BY <1>7, Zenon
<1>9. \A i \in 0..N : h[i] = IF i = 0 THEN 0 ELSE h[i - 1] + runs[i].size
  BY <1>8, Zenon
<1>10. Bytes(runs) = h[N]
  BY DEF Bytes, N
<1> HIDE DEF h, F
<1> DEFINE T == {n \in 0..N : h[n] = g[n]}
<1>11. 0 \in T
  BY <1>1, <1>5, <1>9
<1>12. ASSUME NEW n \in 0..N, n < N, n \in T
       PROVE  n + 1 \in T
  <2>1. n + 1 \in 0..N /\ n + 1 \in 1..N /\ n + 1 # 0 /\ n + 1 - 1 = n
    BY <1>1, <1>12
  <2>2. h[n + 1] = h[n] + runs[n + 1].size
    BY <2>1, <1>9
  <2>3. g[n + 1] = g[n] + runs[n + 1].size
    BY <2>1, <1>6
  <2> QED
    BY <2>1, <2>2, <2>3, <1>12
<1> HIDE DEF T
<1>13. N \in T
  <2>1. N \in Nat /\ N \in 0..N
    BY <1>1
  <2>2. \A n \in 0..N : n < N /\ n \in T => n + 1 \in T
    BY <1>12
  <2> QED
    BY <2>1, <2>2, <1>11, Inductive, Zenon
<1>14. Bytes(runs) = g[N]
  BY <1>10, <1>13 DEF T
<1> QED
  BY <1>5, <1>6, <1>14 DEF N

(***************************************************************************)
(* ... so a run more makes it larger by its size.                          *)
(***************************************************************************)
LEMMA BytesOfAppend ==
  ASSUME NEW runs \in Seq(Runs), NEW run \in Runs
  PROVE  /\ Bytes(runs) \in Nat
         /\ Bytes(Append(runs, run)) = Bytes(runs) + run.size
<1> DEFINE N == Len(runs)
           more == Append(runs, run)
<1>1. /\ more \in Seq(Runs) /\ Len(more) = N + 1 /\ N \in Nat
      /\ more[N + 1] = run /\ \A i \in 1..N : more[i] = runs[i]
  BY LenProperties, AppendProperties
<1>2. PICK sum \in [0..N -> Nat] :
        /\ sum[0] = 0 /\ \A i \in 1..N : sum[i] = sum[i - 1] + runs[i].size
        /\ Bytes(runs) = sum[N]
  BY BytesSum
<1> HIDE DEF more
<1>3. PICK all \in [0..Len(more) -> Nat] :
        /\ all[0] = 0 /\ \A i \in 1..Len(more) : all[i] = all[i - 1] + more[i].size
        /\ Bytes(more) = all[Len(more)]
  BY <1>1, BytesSum
<1> HIDE DEF N
<1> DEFINE T == {n \in 0..N : sum[n] = all[n]}
<1>4. 0 \in T
  BY <1>1, <1>2, <1>3
<1>5. ASSUME NEW n \in 0..N, n < N, n \in T
      PROVE  n + 1 \in T
  <2>1. n + 1 \in 0..N /\ n + 1 \in 1..N /\ n + 1 \in 1..N + 1 /\ n + 1 - 1 = n
    BY <1>1, <1>5
  <2>2. sum[n + 1] = sum[n] + runs[n + 1].size
    BY <2>1, <1>2
  <2>3. all[n + 1] = all[n] + runs[n + 1].size
    <3>1. all[n + 1] = all[n + 1 - 1] + more[n + 1].size
      BY <2>1, <1>1, <1>3
    <3>2. more[n + 1] = runs[n + 1]
      BY <2>1, <1>1
    <3> QED
      BY <2>1, <3>1, <3>2
  <2> QED
    BY <2>1, <2>2, <2>3, <1>5
<1> HIDE DEF T
<1>6. N \in T
  <2>1. N \in Nat /\ N \in 0..N
    BY <1>1
  <2>2. \A n \in 0..N : n < N /\ n \in T => n + 1 \in T
    BY <1>5
  <2> QED
    BY <2>1, <2>2, <1>4, Inductive, Zenon
<1>7. sum[N] = all[N] /\ sum[N] \in Nat
  BY <1>1, <1>6 DEF T
<1>8. N + 1 \in 1..N + 1 /\ N + 1 - 1 = N
  BY <1>1
<1>9. all[N + 1] = all[N] + run.size
  BY <1>1, <1>3, <1>8
<1> QED
  BY <1>1, <1>2, <1>3, <1>7, <1>9 DEF more

-----------------------------------------------------------------------------
(***************************************************************************)
(* prune_runs.                                                             *)
(***************************************************************************)
\* ArchiveFits, of a list of runs.
Fits(runs) ==
  \A i \in 2..Len(runs) :
    ~runs[i].stuck => i <= KEEP_RUNS /\ Bytes(SubSeq(runs, 1, i)) <= MAX_PROJECT_BYTES

(***************************************************************************)
(* What was kept before stays in front, and still fits.                    *)
(***************************************************************************)
LEMMA AppendFits ==
  ASSUME NEW kept \in Seq(Runs), NEW i \in Nat, Len(kept) < i, Fits(kept), NEW run \in Runs,
         \/ i <= KEEP_RUNS /\ (kept = <<>> \/ Bytes(kept) + run.size <= MAX_PROJECT_BYTES)
         \/ run.stuck
  PROVE  Fits(Append(kept, run))
<1> DEFINE N == Len(kept)
           more == Append(kept, run)
<1>1. /\ more \in Seq(Runs) /\ Len(more) = N + 1 /\ N \in Nat
      /\ more[N + 1] = run /\ \A j \in 1..N : more[j] = kept[j]
  BY LenProperties, AppendProperties
<1>2. Bytes(more) = Bytes(kept) + run.size
  BY BytesOfAppend
<1> SUFFICES ASSUME NEW j \in 2..N + 1, ~more[j].stuck
             PROVE  j <= KEEP_RUNS /\ Bytes(SubSeq(more, 1, j)) <= MAX_PROJECT_BYTES
  BY <1>1 DEF Fits
<1>3. CASE j <= N
  <2>1. j \in 1..N /\ j \in 2..N /\ 1 \in 1..N + 1
    BY <1>1, <1>3
  <2>2. SubSeq(more, 1, j) = [k \in 1..j |-> more[k]]
    BY <1>1, <2>1
  <2>3. SubSeq(kept, 1, j) = [k \in 1..j |-> kept[k]]
    BY <1>1, <2>1
  <2>4. \A k \in 1..j : more[k] = kept[k]
    BY <1>1, <2>1
  <2>5. SubSeq(more, 1, j) = SubSeq(kept, 1, j)
    BY <2>2, <2>3, <2>4
  <2>6. more[j] = kept[j]
    BY <1>1, <2>1
  <2> HIDE DEF more
  <2> QED
    BY <2>1, <2>5, <2>6 DEF Fits
<1>4. CASE ~(j <= N)
  <2>1. j = N + 1 /\ N # 0 /\ more[j] = run
    BY <1>1, <1>4
  <2>2. kept # <<>>
    BY <2>1, EmptySeq
  <2>3. i <= KEEP_RUNS /\ Bytes(kept) + run.size <= MAX_PROJECT_BYTES
    BY <2>1, <2>2
  <2>4. SubSeq(more, 1, j) = more
    BY <1>1, <2>1, SubSeqFull
  <2>5. j <= KEEP_RUNS
    BY <1>1, <2>1, <2>3, SessionBounds
  <2> QED
    BY <1>2, <2>3, <2>4, <2>5
<1> QED
  BY <1>3, <1>4

(***************************************************************************)
(* One run more is put behind those kept, or left out.                     *)
(***************************************************************************)
LEMMA WithKeeps ==
  ASSUME NEW kept \in Seq(Runs), NEW i \in Nat, Len(kept) < i, Fits(kept), NEW run \in Runs
  PROVE  /\ With(kept, i, run) \in Seq(Runs) /\ Len(With(kept, i, run)) <= i
         /\ Fits(With(kept, i, run))
         /\ kept # <<>> => With(kept, i, run) # <<>> /\ With(kept, i, run)[1] = kept[1]
         /\ i = 1 => With(kept, i, run) # <<>> /\ With(kept, i, run)[1] = run
<1> DEFINE more == Append(kept, run)
           new == With(kept, i, run)
           taken == \/ /\ i <= KEEP_RUNS
                       /\ kept = <<>> \/ Bytes(kept) + run.size <= MAX_PROJECT_BYTES
                    \/ run.stuck
<1>1. /\ more \in Seq(Runs) /\ Len(more) = Len(kept) + 1 /\ Len(kept) \in Nat
      /\ more[Len(kept) + 1] = run /\ \A j \in 1..Len(kept) : more[j] = kept[j]
  BY LenProperties, AppendProperties
<1>2. more # <<>>
  BY <1>1, EmptySeq
<1>3. kept # <<>> => more[1] = kept[1]
  BY <1>1, EmptySeq
<1>4. CASE taken
  <2>1. new = more
    BY <1>4 DEF With
  <2>2. Fits(more)
    BY <1>4, AppendFits
  <2>3. i = 1 => more[1] = run
    BY <1>1
  <2> HIDE DEF more
  <2> QED
    BY <1>1, <1>2, <1>3, <2>1, <2>2, <2>3
<1>5. CASE ~taken
  <2>1. new = kept
    BY <1>5 DEF With
  <2>2. i # 1
    <3>1. i = 1 => kept = <<>> /\ i <= KEEP_RUNS
      BY <1>1, EmptySeq, SessionBounds
    <3> QED
      BY <3>1, <1>5
  <2> QED
    BY <1>1, <2>1, <2>2
<1> QED
  BY <1>4, <1>5

(***************************************************************************)
(* Pruning keeps the newest run in front, and what it keeps fits.          *)
(***************************************************************************)
LEMMA PrunedHolds ==
  ASSUME NEW runs \in Seq(Runs), runs # <<>>
  PROVE  /\ Pruned(runs) \in Seq(Runs) /\ Pruned(runs) # <<>> /\ Pruned(runs)[1] = runs[1]
         /\ Fits(Pruned(runs))
<1> DEFINE N == Len(runs)
           F(f) == [i \in 0..N |-> IF i = 0 THEN <<>> ELSE With(f[i - 1], i, runs[i])]
           h == CHOOSE f : f = F(f)
           V == {k \in Seq(Runs) : Fits(k)}
           next(k, i) == IF Len(k) < i THEN With(k, i, runs[i]) ELSE k
           step == [i \in 1..N |-> [k \in V |-> next(k, i)]]
<1>1. N \in Nat /\ N # 0 /\ \A i \in 1..N : runs[i] \in Runs
  BY LenProperties, ElementOfSeq, EmptySeq
<1>2. step \in Steps(N, V)
  <2>1. ASSUME NEW i \in 1..N, NEW k \in V PROVE next(k, i) \in V
    <3>1. i \in Nat /\ runs[i] \in Runs /\ k \in Seq(Runs) /\ Fits(k)
      BY <1>1
    <3>2. CASE Len(k) < i
      <4>1. With(k, i, runs[i]) \in Seq(Runs) /\ Fits(With(k, i, runs[i]))
        BY <3>1, <3>2, WithKeeps
      <4> QED
        BY <3>2, <4>1
    <3> QED
      BY <3>2
  <2> HIDE DEF next, V
  <2> QED
    BY <2>1 DEF Steps
<1>3. <<>> \in V /\ Len(<<>>) = 0
  BY EmptySeq DEF Fits
<1>4. \A i \in 1..N, k \in V : step[i][k] = next(k, i)
  OBVIOUS
<1>5. \A k : k \in V <=> k \in Seq(Runs) /\ Fits(k)
  OBVIOUS
<1> HIDE DEF N, step, V
<1>6. Computed(N, V, <<>>, step)
  BY <1>1, <1>2, <1>3, RecursionExists
<1>7. PICK g \in [0..N -> V] : g[0] = <<>> /\ \A i \in 1..N : g[i] = step[i][g[i - 1]]
  BY <1>6 DEF Computed
<1> DEFINE T == {n \in 0..N : Len(g[n]) <= n
                    /\ (n > 0 => g[n] # <<>> /\ g[n][1] = runs[1])}
<1>8. ASSUME NEW n \in 0..N, n < N, n \in T
      PROVE  /\ n + 1 \in T
             /\ g[n + 1] = With(g[n], n + 1, runs[n + 1])
  <2>1. n + 1 \in 0..N /\ n + 1 \in 1..N /\ n + 1 \in Nat /\ n + 1 - 1 = n
    BY <1>1, <1>8
  <2>2. g[n] \in V /\ g[n] \in Seq(Runs) /\ Fits(g[n]) /\ Len(g[n]) <= n
    BY <1>5, <1>8
  <2>3. Len(g[n]) \in Nat /\ Len(g[n]) < n + 1 /\ runs[n + 1] \in Runs
    BY <1>1, <2>1, <2>2, LenProperties
  <2>4. g[n + 1] = step[n + 1][g[n]]
    BY <1>7, <2>1
  <2>5. step[n + 1][g[n]] = next(g[n], n + 1)
    BY <1>4, <2>1, <2>2
  <2>6. g[n + 1] = With(g[n], n + 1, runs[n + 1])
    BY <2>3, <2>4, <2>5
  <2> DEFINE new == With(g[n], n + 1, runs[n + 1])
  <2>7. /\ Len(new) <= n + 1
        /\ g[n] # <<>> => new # <<>> /\ new[1] = g[n][1]
        /\ n + 1 = 1 => new # <<>> /\ new[1] = runs[n + 1]
    BY <2>1, <2>2, <2>3, WithKeeps
  <2>8. n > 0 => g[n] # <<>> /\ g[n][1] = runs[1]
    BY <1>8
  <2> HIDE DEF new
  <2>9. new # <<>> /\ new[1] = runs[1]
    <3>1. CASE n = 0
      BY <2>7, <3>1
    <3>2. CASE n # 0
      BY <2>7, <2>8, <3>2
    <3> QED
      BY <3>1, <3>2
  <2> QED
    BY <2>1, <2>6, <2>7, <2>9 DEF new
<1>9. 0 \in T
  BY <1>1, <1>3, <1>7
<1>10. \A n \in 0..N : n < N /\ n \in T => n + 1 \in T
  BY <1>8
<1>11. \A n \in 0..N : n \in T
  <2> HIDE DEF T
  <2>1. N \in Nat
    BY <1>1
  <2> QED
    BY <2>1, <1>9, <1>10, Inductive, Zenon
<1>12. \A i \in 1..N : g[i] = With(g[i - 1], i, runs[i])
  <2> SUFFICES ASSUME NEW i \in 1..N PROVE g[i] = With(g[i - 1], i, runs[i])
    OBVIOUS
  <2>1. i - 1 \in 0..N /\ i - 1 < N /\ i - 1 + 1 = i
    BY <1>1
  <2>2. i - 1 \in T
    BY <1>11, <2>1
  <2> HIDE DEF T
  <2>3. g[i - 1 + 1] = With(g[i - 1], i - 1 + 1, runs[i - 1 + 1])
    BY <1>8, <2>1, <2>2
  <2> QED
    BY <2>1, <2>3
<1>13. g = F(g)
  BY <1>1, <1>7, <1>12
<1>14. h = F(h)
  <2> HIDE DEF F
  <2> QED
    BY <1>13, Zenon
<1>15. h[0] = <<>> /\ \A i \in 1..N : h[i] = With(h[i - 1], i, runs[i])
  <2>1. \A i \in 0..N : h[i] = IF i = 0 THEN <<>> ELSE With(h[i - 1], i, runs[i])
    BY <1>14, Zenon
  <2> HIDE DEF h, T, F
  <2>2. h[0] = <<>>
    <3>1. 0 \in 0..N
      BY <1>1
    <3> QED
      BY <2>1, <3>1
  <2>3. ASSUME NEW i \in 1..N PROVE h[i] = With(h[i - 1], i, runs[i])
    <3>1. i \in 0..N /\ i # 0
      BY <1>1
    <3> QED
      BY <2>1, <3>1, Zenon
  <2> QED
    BY <2>2, <2>3
<1>16. Pruned(runs) = h[N]
  BY DEF Pruned, N
<1> HIDE DEF h, F
<1> DEFINE Same == {n \in 0..N : h[n] = g[n]}
<1>17. 0 \in Same
  BY <1>1, <1>7, <1>15
<1>18. \A n \in 0..N : n < N /\ n \in Same => n + 1 \in Same
  <2> SUFFICES ASSUME NEW n \in 0..N, n < N, n \in Same PROVE n + 1 \in Same
    OBVIOUS
  <2>1. n + 1 \in 0..N /\ n + 1 \in 1..N /\ n + 1 - 1 = n
    BY <1>1
  <2>2. h[n + 1] = With(h[n], n + 1, runs[n + 1])
    BY <2>1, <1>15
  <2>3. g[n + 1] = With(g[n], n + 1, runs[n + 1])
    BY <2>1, <1>12
  <2> QED
    BY <2>1, <2>2, <2>3
<1>19. N \in Same
  <2> HIDE DEF Same
  <2>1. N \in Nat /\ N \in 0..N
    BY <1>1
  <2> QED
    BY <2>1, <1>17, <1>18, Inductive, Zenon
<1>20. Pruned(runs) = g[N] /\ g[N] \in V
  BY <1>1, <1>7, <1>16, <1>19
<1>21. N \in T /\ N > 0
  BY <1>1, <1>11
<1>22. g[N] # <<>> /\ g[N][1] = runs[1]
  BY <1>21
<1> QED
  BY <1>5, <1>20, <1>22

-----------------------------------------------------------------------------
(***************************************************************************)
(* The inductive invariant.                                                *)
(***************************************************************************)
Idle == {"down", "prompt", "ask"}
Making == {"create", "connect", "setup", "run", "running"}
Held == {"setup", "run", "running", "transcript", "db"}
Places == Idle \cup Making \cup Held \cup {"usage", "archive", "recorders", "closed"}

SessionTyped ==
  /\ ssProcess \in {NoProcess} \cup Processes /\ ssPc \in Places /\ ssSession \in Nat
  /\ ssSession <= MaxSessions /\ {ssFile, ssMode} \subseteq {"ask", "auto", "plan"}
  /\ ssResume \in BOOLEAN /\ ssCut \in BOOLEAN /\ ssReplace \in Nat
  /\ ssLedger \in [plan : Nat, pending : BOOLEAN] /\ ssUsage \in 0..ssSession
  /\ ssLog \subseteq 1..ssSession /\ ssTranscript \subseteq 1..ssSession
  /\ ssArchive \in Seq(Runs)
  /\ (ssPc = "down" <=> ssProcess = NoProcess)
  /\ ssPc \notin Idle => ssSession > 0

\* What is open: the session in progress alone has its database, and a log of
\* its own is the only one attached.
Opened ==
  /\ ssDb # {} => ssDb = {ssSession} /\ ssPc \in Held
  /\ ssSession \in ssLog => ssLog = {ssSession}

\* A request that has yet to save its plan over pending tasks has been agreed to.
Agreed ==
  /\ ssPc \in Making /\ ~ssResume /\ ssLedger.pending /\ ssLedger.plan # ssSession
  /\ ssProcess.kind = "repl" /\ ssProcess.tty /\ ssMode # "plan"
  => ssReplace = ssLedger.plan

IsNewest(archive) ==
  archive # <<>> /\ archive[1].run = ssSession /\ archive[1].usage = ssSession

\* What the close has done so far.
Evidence ==
  /\ ssPc \in Making => ssResult = "none"
  /\ ssPc = "archive" => ssUsage = ssSession
  /\ ssPc \in {"recorders", "closed"} => IsNewest(ssArchive)
  /\ ssPc \in Idle /\ ssResult # "none" /\ ~ssCut => IsNewest(ssArchive)

SessionInv == SessionTyped /\ Opened /\ Agreed /\ Evidence /\ ArchiveFits

-----------------------------------------------------------------------------
(***************************************************************************)
(* Every action keeps it.                                                  *)
(***************************************************************************)
LEMMA AfterEach ==
  After("usage") = "archive" /\ After("archive") = "recorders"
<1>1. CloseOrder = <<"usage", "archive", "recorders">> /\ DOMAIN CloseOrder = {1, 2, 3}
  BY DEF CloseOrder
<1>2. \A i \in {1, 2, 3} : (CloseOrder[i] = "usage" <=> i = 1) /\ (CloseOrder[i] = "archive" <=> i = 2)
  BY DEF CloseOrder
<1>3. (CHOOSE i \in {1, 2, 3} : CloseOrder[i] = "usage") = 1
  BY <1>2
<1>4. (CHOOSE i \in {1, 2, 3} : CloseOrder[i] = "archive") = 2
  BY <1>2
<1>5. After("usage") = CloseOrder[1 + 1] /\ After("archive") = CloseOrder[2 + 1]
  BY <1>1, <1>3, <1>4 DEF After
<1> QED
  BY <1>5 DEF CloseOrder

LEMMA SessionInitInv == SessionInit => SessionInv
<1> SUFFICES ASSUME SessionInit PROVE SessionInv
  OBVIOUS
<1> USE DEF SessionInit
<1>1. SessionTyped
  <2>1. ssArchive \in Seq(Runs)
    BY EmptySeq
  <2>2. ssProcess \in {NoProcess} \cup Processes /\ ssPc \in Places /\ (ssPc = "down" <=> ssProcess = NoProcess)
    BY DEF Places, Idle
  <2>3. ssSession \in Nat /\ ssSession <= MaxSessions /\ ssUsage \in 0..ssSession
    BY SessionBounds
  <2>4. {ssFile, ssMode} \subseteq {"ask", "auto", "plan"}
    BY SessionAssumption
  <2> QED
    BY <2>1, <2>2, <2>3, <2>4 DEF SessionTyped, Idle
<1>2. Opened /\ Agreed /\ Evidence
  BY DEF Opened, Agreed, Evidence, Making, Idle
<1>3. ArchiveFits
  BY EmptySeq DEF ArchiveFits
<1> QED
  BY <1>1, <1>2, <1>3 DEF SessionInv

(***************************************************************************)
(* The archive after a run was put in front of it.                         *)
(***************************************************************************)
LEMMA ArchiveGrows ==
  ASSUME SessionTyped, NEW size \in RunSizes, NEW stuck \in BOOLEAN, ArchiveRun(size, stuck)
  PROVE  /\ ssArchive' \in Seq(Runs) /\ ssArchive' # <<>>
         /\ ssArchive'[1].run = ssSession /\ ssArchive'[1].usage = ssUsage
         /\ ArchiveFits'
<1> DEFINE run == [run |-> ssSession, usage |-> ssUsage, size |-> size, stuck |-> stuck]
           runs == <<run>> \o ssArchive
<1>1. run \in Runs
  BY SessionBounds DEF SessionTyped, Runs
<1>2. <<run>> \in Seq(Runs) /\ Len(<<run>>) = 1 /\ <<run>>[1] = run
  BY <1>1
<1>3. ssArchive \in Seq(Runs)
  BY DEF SessionTyped
<1>4. runs \in Seq(Runs) /\ runs # <<>> /\ runs[1] = run
  <2> HIDE DEF run
  <2>1. runs \in Seq(Runs) /\ Len(runs) = 1 + Len(ssArchive) /\ Len(ssArchive) \in Nat /\ runs[1] = run
    BY <1>2, <1>3, ConcatProperties, LenProperties
  <2> HIDE DEF runs
  <2> QED
    BY <2>1, EmptySeq
<1>5. ssArchive' = Pruned(runs)
  BY DEF ArchiveRun
<1>6. run.run = ssSession /\ run.usage = ssUsage
  OBVIOUS
<1> HIDE DEF run, runs
<1>7. /\ Pruned(runs) \in Seq(Runs) /\ Pruned(runs) # <<>> /\ Pruned(runs)[1] = runs[1]
      /\ Fits(Pruned(runs))
  BY <1>4, PrunedHolds
<1>8. ArchiveFits'
  BY <1>5, <1>7 DEF ArchiveFits, Fits
<1> QED
  BY <1>4, <1>5, <1>6, <1>7, <1>8

(***************************************************************************)
(* A request is a session of its own, of a number none had before it.      *)
(***************************************************************************)
LEMMA BeginsFresh ==
  ASSUME SessionTyped, NEW resume \in BOOLEAN, Begins(resume)
  PROVE  /\ ssSession' = ssSession + 1 /\ ssSession' \in Nat /\ ssSession' <= MaxSessions
         /\ ssSession' > 0 /\ ssSession' # ssSession /\ ssSession' \notin ssLog
         /\ ssPc' = "create" /\ ssResume' = resume /\ ssResult' = "none" /\ ssCut' = FALSE
         /\ ssUsage \in 0..ssSession'
         /\ ssLog \subseteq 1..ssSession' /\ ssTranscript \subseteq 1..ssSession'
<1>1. ssSession \in Nat /\ ssSession' = ssSession + 1 /\ ssSession < MaxSessions /\ ssSession <= MaxSessions
  BY DEF SessionTyped, Begins
<1>2. ssSession' \in Nat /\ ssSession' <= MaxSessions /\ ssSession' > 0 /\ ssSession' # ssSession
  BY <1>1, SessionBounds
<1>3. ssUsage \in 0..ssSession /\ ssLog \subseteq 1..ssSession /\ ssTranscript \subseteq 1..ssSession
  BY DEF SessionTyped
<1>4. 0..ssSession \subseteq 0..ssSession' /\ 1..ssSession \subseteq 1..ssSession' /\ ssSession' \notin 1..ssSession
  BY <1>1
<1> QED
  BY <1>1, <1>2, <1>3, <1>4 DEF Begins

LEMMA NextTyped ==
  ASSUME SessionTyped, SessionNext
  PROVE  SessionTyped'
<1> USE DEF Idle, Making, Held, Places
<1>1. ASSUME NEW process \in Processes, NEW resume \in BOOLEAN, StartProcess(process, resume)
      PROVE  SessionTyped'
  <2>1. process \in [kind : {"shot", "repl"}, tty : BOOLEAN, flag : {"none", "ask", "auto", "plan"}]
    BY SessionAssumption
  <2>2. ssMode' \in {"ask", "auto", "plan"}
    BY <1>1, <2>1 DEF StartProcess, Configured, SessionTyped
  <2>3. process # NoProcess
    BY <2>1 DEF NoProcess
  <2>4. CASE Begins(resume)
    <3>1. ssPc' = "create" /\ ssResume' = resume /\ ssSession' \in Nat /\ ssSession' <= MaxSessions
          /\ ssSession' > 0 /\ ssCut' = FALSE /\ ssUsage \in 0..ssSession'
          /\ ssLog \subseteq 1..ssSession' /\ ssTranscript \subseteq 1..ssSession'
      BY <2>4, BeginsFresh
    <3>2. ssProcess' = process \/ (ssProcess' = ssProcess /\ ssPc' = ssPc)
      BY <1>1 DEF StartProcess
    <3>3. ssPc = "down"
      BY <1>1 DEF StartProcess
    <3> QED
      BY <1>1, <2>2, <2>3, <3>1, <3>2, <3>3 DEF StartProcess, SessionTyped, ssOpen, ssDisk, ssHistory
  <2>5. CASE ~Begins(resume)
    BY <1>1, <2>2, <2>3, <2>5 DEF StartProcess, SessionTyped, ssOpen, ssDisk, ssHistory
  <2> QED
    BY <2>4, <2>5
<1>2. ASSUME NEW mode \in Modes, EditConfig(mode)
      PROVE  SessionTyped'
  BY <1>2, SessionAssumption DEF EditConfig, SessionTyped, ssOpen, ssDisk, ssHistory
<1>3. ASSUME NEW intent \in {"request", "continue"}, Type(intent)
      PROVE  SessionTyped'
  <2>1. ssMode' \in {"ask", "auto", "plan"}
    <3>1. ssProcess # NoProcess
      BY <1>3 DEF Type, SessionTyped
    <3>2. ssProcess.flag \in {"none", "ask", "auto", "plan"}
      BY <3>1, SessionAssumption DEF SessionTyped
    <3> QED
      BY <1>3, <3>2 DEF Type, Configured, SessionTyped
  <2>2. ASSUME NEW resume \in BOOLEAN, Begins(resume)
        PROVE  SessionTyped'
    <3>1. ssPc' = "create" /\ ssResume' = resume /\ ssSession' \in Nat /\ ssSession' <= MaxSessions
          /\ ssSession' > 0 /\ ssCut' = FALSE /\ ssUsage \in 0..ssSession'
          /\ ssLog \subseteq 1..ssSession' /\ ssTranscript \subseteq 1..ssSession'
      BY <2>2, BeginsFresh
    <3>2. ssPc = "prompt" /\ ssProcess' = ssProcess /\ ssFile' = ssFile /\ ssReplace' = ssReplace
      BY <1>3 DEF Type
    <3> QED
      BY <1>3, <2>1, <3>1, <3>2 DEF Type, SessionTyped, ssOpen, ssDisk
  <2>3. CASE ~Begins(FALSE) /\ ~Begins(TRUE)
    BY <1>3, <2>1, <2>3 DEF Type, SessionTyped, ssOpen, ssDisk
  <2> QED
    BY <2>2, <2>3
<1>4. ASSUME NEW choice \in {"cancel", "continue", "replace"}, Choose(choice)
      PROVE  SessionTyped'
  <2>1. ssReplace' \in Nat
    BY <1>4 DEF Choose, SessionTyped, ssHistory
  <2>2. ASSUME NEW resume \in BOOLEAN, Begins(resume)
        PROVE  SessionTyped'
    <3>1. ssPc' = "create" /\ ssResume' = resume /\ ssSession' \in Nat /\ ssSession' <= MaxSessions
          /\ ssSession' > 0 /\ ssCut' = FALSE /\ ssUsage \in 0..ssSession'
          /\ ssLog \subseteq 1..ssSession' /\ ssTranscript \subseteq 1..ssSession'
      BY <2>2, BeginsFresh
    <3>2. ssPc = "ask" /\ ssProcess' = ssProcess /\ ssFile' = ssFile
      BY <1>4 DEF Choose
    <3> QED
      BY <1>4, <2>1, <3>1, <3>2 DEF Choose, SessionTyped, ssOpen, ssDisk
  <2>3. CASE ~Begins(FALSE) /\ ~Begins(TRUE)
    BY <1>4, <2>1, <2>3 DEF Choose, SessionTyped, ssOpen, ssDisk, ssHistory
  <2> QED
    BY <2>2, <2>3
<1>5. CASE Leave
  BY <1>5 DEF Leave, Quits, SessionTyped, ssDisk, ssHistory
<1>6. ASSUME NEW wanted \in BOOLEAN, OpenRunLog(wanted)
      PROVE  SessionTyped'
  BY <1>6 DEF OpenRunLog, Attached, SessionTyped, ssDisk, ssHistory
<1>7. CASE Connect
  BY <1>7 DEF Connect, Unwinds, Quits, SessionTyped, ssDisk, ssHistory
<1>8. CASE Setup
  BY <1>8 DEF Setup, Unwinds, Quits, SessionTyped, ssOpen, ssDisk, ssHistory
<1>9. CASE RunStarts
  BY <1>9 DEF RunStarts, SessionTyped, ssDisk, ssHistory
<1>10. CASE PlanSaves
  BY <1>10 DEF PlanSaves, SessionTyped, ssOpen, ssHistory
<1>11. ASSUME NEW pending \in BOOLEAN, Works(pending)
       PROVE  SessionTyped'
  BY <1>11 DEF Works, SessionTyped, ssOpen, ssHistory
<1>12. ASSUME NEW result, RunReturns(result)
       PROVE  SessionTyped'
  BY <1>12 DEF RunReturns, SessionTyped, ssOpen, ssDisk, ssHistory
<1>13. CASE CloseTranscript
  BY <1>13 DEF CloseTranscript, Unwinds, Quits, SessionTyped, ssDisk
<1>14. CASE CloseDb
  BY <1>14 DEF CloseDb, Unwinds, Quits, SessionTyped, ssDisk
<1>15. CASE WriteUsage
  BY <1>15, AfterEach DEF WriteUsage, SessionTyped, ssOpen, ssHistory
<1>16. ASSUME NEW size \in RunSizes, NEW stuck \in BOOLEAN, ArchiveRun(size, stuck)
       PROVE  SessionTyped'
  <2>1. ssArchive' \in Seq(Runs) /\ ssPc' = "recorders"
    BY <1>16, ArchiveGrows, AfterEach DEF ArchiveRun
  <2> QED
    BY <1>16, <2>1 DEF ArchiveRun, SessionTyped, ssOpen, ssHistory
<1>17. CASE DetachRecorders
  BY <1>17 DEF DetachRecorders, SessionTyped, ssDisk, ssHistory
<1>18. CASE Return
  BY <1>18 DEF Return, Quits, SessionTyped, ssOpen, ssDisk, ssHistory
<1>19. CASE Killed
  BY <1>19 DEF Killed, Quits, SessionTyped, ssDisk
<1> QED
  BY <1>1, <1>2, <1>3, <1>4, <1>5, <1>6, <1>7, <1>8, <1>9, <1>10, <1>11, <1>12, <1>13, <1>14,
     <1>15, <1>16, <1>17, <1>18, <1>19 DEF SessionNext, Closing

(***************************************************************************)
(* At the prompt, or before it: nothing that is open or on disk changes,   *)
(* and a session begins or none does.                                      *)
(***************************************************************************)
Untouched ==
  \/ \E process \in Processes, resume \in BOOLEAN : StartProcess(process, resume)
  \/ \E mode \in Modes : EditConfig(mode)
  \/ \E intent \in {"request", "continue"} : Type(intent)
  \/ \E choice \in {"cancel", "continue", "replace"} : Choose(choice)

LEMMA WaitingWaits ==
  ASSUME Untouched
  PROVE  /\ ssPc \in Idle
         /\ ssLog' = ssLog /\ ssDb' = ssDb /\ ssTranscript' = ssTranscript
         /\ ssLedger' = ssLedger /\ ssUsage' = ssUsage /\ ssArchive' = ssArchive
         /\ \/ \E resume \in BOOLEAN : Begins(resume)
            \/ ssPc' \in Idle /\ ssSession' = ssSession /\ ssResult' = ssResult /\ ssCut' = ssCut
<1> USE DEF Idle, ssOpen, ssDisk, ssHistory
<1>1. ASSUME NEW process \in Processes, NEW resume \in BOOLEAN, StartProcess(process, resume)
      PROVE  /\ ssPc \in Idle /\ UNCHANGED <<ssOpen, ssDisk>>
             /\ \/ Begins(resume)
                \/ ssPc' \in Idle /\ ssSession' = ssSession /\ ssResult' = ssResult /\ ssCut' = ssCut
  BY <1>1 DEF StartProcess
<1>2. ASSUME NEW mode \in Modes, EditConfig(mode)
      PROVE  /\ ssPc \in Idle /\ UNCHANGED <<ssOpen, ssDisk>>
             /\ ssPc' \in Idle /\ ssSession' = ssSession /\ ssResult' = ssResult /\ ssCut' = ssCut
  BY <1>2 DEF EditConfig
<1>3. ASSUME NEW intent \in {"request", "continue"}, Type(intent)
      PROVE  /\ ssPc \in Idle /\ UNCHANGED <<ssOpen, ssDisk>>
             /\ \/ Begins(FALSE) \/ Begins(TRUE)
                \/ ssPc' \in Idle /\ ssSession' = ssSession /\ ssResult' = ssResult /\ ssCut' = ssCut
  BY <1>3 DEF Type
<1>4. ASSUME NEW choice \in {"cancel", "continue", "replace"}, Choose(choice)
      PROVE  /\ ssPc \in Idle /\ UNCHANGED <<ssOpen, ssDisk>>
             /\ \/ Begins(FALSE) \/ Begins(TRUE)
                \/ ssPc' \in Idle /\ ssSession' = ssSession /\ ssResult' = ssResult /\ ssCut' = ssCut
  BY <1>4 DEF Choose
<1> HIDE DEF Idle
<1>5. /\ ssPc \in Idle /\ UNCHANGED <<ssOpen, ssDisk>>
      /\ \/ \E resume \in BOOLEAN : Begins(resume)
         \/ ssPc' \in Idle /\ ssSession' = ssSession /\ ssResult' = ssResult /\ ssCut' = ssCut
  BY <1>1, <1>2, <1>3, <1>4 DEF Untouched
<1> QED
  BY <1>5

(***************************************************************************)
(* What a session has open.                                                *)
(***************************************************************************)
LEMMA NextOpened ==
  ASSUME SessionTyped, Opened, SessionNext
  PROVE  Opened'
<1>1. CASE Untouched
  <2>1. /\ ssPc \in Idle /\ ssLog' = ssLog /\ ssDb' = ssDb
        /\ \/ \E resume \in BOOLEAN : Begins(resume)
           \/ ssPc' \in Idle /\ ssSession' = ssSession /\ ssResult' = ssResult /\ ssCut' = ssCut
    BY <1>1, WaitingWaits
  <2>2. ssDb = {}
    BY <2>1 DEF Opened, Idle, Held
  <2>3. CASE \E resume \in BOOLEAN : Begins(resume)
    <3>1. ssSession' \notin ssLog
      BY <2>3, BeginsFresh
    <3> QED
      BY <2>1, <2>2, <3>1 DEF Opened
  <2>4. CASE ssSession' = ssSession
    BY <2>1, <2>2, <2>4 DEF Opened
  <2> QED
    BY <2>1, <2>3, <2>4
<1> USE DEF Held
<1>2. CASE Leave
  BY <1>2 DEF Leave, Quits, Opened
<1>3. ASSUME NEW wanted \in BOOLEAN, OpenRunLog(wanted)
      PROVE  Opened'
  BY <1>3 DEF OpenRunLog, Attached, Opened
<1>4. CASE Connect
  BY <1>4 DEF Connect, Unwinds, Quits, Opened
<1>5. CASE Setup
  <2>1. CASE ssPc' = "run" /\ UNCHANGED <<ssProcess, ssOpen>>
    BY <1>5, <2>1 DEF Setup, Opened, ssOpen
  <2>2. CASE Quits
    BY <2>2 DEF Quits, Opened
  <2>3. CASE ssPc' = "prompt" /\ ssLog' = ssLog /\ ssDb' = ClosedOnError(ssDb)
    BY <1>5, <2>3 DEF Setup, ClosedOnError, Opened
  <2> QED
    BY <1>5, <2>1, <2>2, <2>3 DEF Setup, Unwinds
<1>6. CASE RunStarts
  BY <1>6 DEF RunStarts, Opened
<1>7. CASE PlanSaves
  BY <1>7 DEF PlanSaves, Opened, ssOpen
<1>8. ASSUME NEW pending \in BOOLEAN, Works(pending)
      PROVE  Opened'
  BY <1>8 DEF Works, Opened, ssOpen
<1>9. ASSUME NEW result, RunReturns(result)
      PROVE  Opened'
  BY <1>9 DEF RunReturns, Opened, ssOpen
<1>10. CASE CloseTranscript
  BY <1>10 DEF CloseTranscript, Unwinds, Quits, Opened
<1>11. CASE CloseDb
  <2>1. CASE ssDb' = ssDb \ {ssSession} /\ ssLog' = ssLog /\ ssSession' = ssSession
    BY <2>1 DEF Opened
  <2>2. CASE Quits
    BY <2>2 DEF Quits, Opened
  <2> QED
    BY <1>11, <2>1, <2>2 DEF CloseDb, Unwinds
<1>12. CASE WriteUsage
  BY <1>12 DEF WriteUsage, Opened, ssOpen
<1>13. ASSUME NEW size, NEW stuck, ArchiveRun(size, stuck)
       PROVE  Opened'
  BY <1>13 DEF ArchiveRun, Opened, ssOpen
<1>14. CASE DetachRecorders
  BY <1>14 DEF DetachRecorders, Opened
<1>15. CASE Return
  BY <1>15 DEF Return, Quits, Opened, ssOpen
<1>16. CASE Killed
  BY <1>16 DEF Killed, Quits, Opened
<1> QED
  BY <1>1, <1>2, <1>3, <1>4, <1>5, <1>6, <1>7, <1>8, <1>9, <1>10, <1>11, <1>12, <1>13, <1>14,
     <1>15, <1>16 DEF SessionNext, Untouched, Closing

(***************************************************************************)
(* Whom a request asked before it replaced what was pending.               *)
(***************************************************************************)
LEMMA NextAgreed ==
  ASSUME SessionTyped, Agreed, SessionNext
  PROVE  Agreed'
<1>1. ASSUME ssPc' \notin Making
      PROVE  Agreed'
  BY <1>1 DEF Agreed
<1>2. ASSUME ssPc \in Making, ssResume' = ssResume, ssLedger' = ssLedger, ssSession' = ssSession,
             ssProcess' = ssProcess, ssMode' = ssMode, ssReplace' = ssReplace
      PROVE  Agreed'
  BY <1>2 DEF Agreed
<1>3. ASSUME NEW process \in Processes, NEW resume \in BOOLEAN, StartProcess(process, resume)
      PROVE  Agreed'
  <2>1. CASE Begins(resume) /\ ssProcess' = process /\ process.kind = "shot"
    BY <2>1 DEF Agreed
  <2>2. CASE ssPc' \in Idle
    BY <1>1, <2>2 DEF Idle, Making
  <2> QED
    BY <1>3, <2>1, <2>2 DEF StartProcess, Idle, ssHistory
<1>4. ASSUME NEW mode \in Modes, EditConfig(mode)
      PROVE  Agreed'
  BY <1>1, <1>4 DEF EditConfig, Making
<1>5. ASSUME NEW intent \in {"request", "continue"}, Type(intent)
      PROVE  Agreed'
  <2>1. ssProcess' = ssProcess /\ ssLedger' = ssLedger
    BY <1>5 DEF Type, ssDisk
  <2>2. CASE Begins(TRUE)
    <3>1. ssResume' = TRUE
      BY <2>2 DEF Begins
    <3> QED
      BY <3>1 DEF Agreed
  <2>3. CASE ~(AsksBeforeReplacing(ssMode') /\ ssLedger.pending)
    <3>1. ~(ssProcess.tty /\ ssMode' # "plan" /\ ssLedger.pending)
      BY <2>3 DEF AsksBeforeReplacing
    <3> QED
      BY <2>1, <3>1 DEF Agreed
  <2>4. CASE ssPc' \in Idle
    BY <1>1, <2>4 DEF Idle, Making
  <2> QED
    BY <1>5, <2>2, <2>3, <2>4 DEF Type, Idle
<1>6. ASSUME NEW choice \in {"cancel", "continue", "replace"}, Choose(choice)
      PROVE  Agreed'
  <2>1. ssProcess' = ssProcess /\ ssLedger' = ssLedger
    BY <1>6 DEF Choose, ssDisk
  <2>2. CASE Begins(TRUE)
    <3>1. ssResume' = TRUE
      BY <2>2 DEF Begins
    <3> QED
      BY <3>1 DEF Agreed
  <2>3. CASE ssReplace' = ssLedger.plan
    BY <2>1, <2>3 DEF Agreed
  <2>4. CASE ssPc' \in Idle
    BY <1>1, <2>4 DEF Idle, Making
  <2> QED
    BY <1>6, <2>2, <2>3, <2>4 DEF Choose, Idle
<1> USE DEF Making, ssDisk, ssHistory
<1>7. CASE Leave \/ Killed
  BY <1>1, <1>7 DEF Leave, Killed, Quits
<1>8. ASSUME NEW wanted \in BOOLEAN, OpenRunLog(wanted)
      PROVE  Agreed'
  BY <1>2, <1>8 DEF OpenRunLog
<1>9. CASE Connect
  <2>1. CASE UNCHANGED ssProcess
    BY <1>2, <1>9, <2>1 DEF Connect
  <2>2. CASE ssPc' \in {"down", "prompt"}
    BY <1>1, <2>2
  <2> QED
    BY <1>9, <2>1, <2>2 DEF Connect, Unwinds, Quits
<1>10. CASE Setup
  <2>1. CASE UNCHANGED ssProcess
    BY <1>2, <1>10, <2>1 DEF Setup
  <2>2. CASE ssPc' \in {"down", "prompt"}
    BY <1>1, <2>2
  <2> QED
    BY <1>10, <2>1, <2>2 DEF Setup, Unwinds, Quits
<1>11. CASE RunStarts
  BY <1>2, <1>11 DEF RunStarts
<1>12. CASE PlanSaves
  <2>1. ssLedger'.plan = ssSession'
    BY <1>12 DEF PlanSaves
  <2> QED
    BY <2>1 DEF Agreed
<1>13. ASSUME NEW pending \in BOOLEAN, Works(pending)
       PROVE  Agreed'
  <2>1. ssLedger \in [plan : Nat, pending : BOOLEAN]
    BY DEF SessionTyped
  <2>2. ssLedger'.plan = ssLedger.plan /\ ssSession' = ssSession /\ ssResume' = ssResume
    BY <1>13, <2>1 DEF Works
  <2>3. ssResume' \/ ssLedger'.plan = ssSession'
    BY <1>13, <2>2 DEF Works
  <2> QED
    BY <2>3 DEF Agreed
<1>14. ASSUME NEW result, RunReturns(result)
       PROVE  Agreed'
  BY <1>1, <1>14 DEF RunReturns
<1>15. CASE CloseTranscript \/ CloseDb
  <2>1. ssPc' \in {"db", "usage", "down", "prompt"}
    BY <1>15 DEF CloseTranscript, CloseDb, Unwinds, Quits
  <2> QED
    BY <1>1, <2>1
<1>16. CASE WriteUsage
  BY <1>1, <1>16, AfterEach DEF WriteUsage
<1>17. ASSUME NEW size, NEW stuck, ArchiveRun(size, stuck)
       PROVE  Agreed'
  BY <1>1, <1>17, AfterEach DEF ArchiveRun
<1>18. CASE DetachRecorders \/ Return
  BY <1>1, <1>18 DEF DetachRecorders, Return, Quits
<1> QED
  BY <1>3, <1>4, <1>5, <1>6, <1>7, <1>8, <1>9, <1>10, <1>11, <1>12, <1>13, <1>14,
     <1>15, <1>16, <1>17, <1>18 DEF SessionNext, Closing

(***************************************************************************)
(* What the close leaves on disk.                                          *)
(***************************************************************************)
LEMMA NextEvidence ==
  ASSUME SessionTyped, Evidence, ArchiveFits, SessionNext
  PROVE  Evidence' /\ ArchiveFits'
<1>1. ASSUME UNCHANGED ssArchive
      PROVE  ArchiveFits'
  BY <1>1 DEF ArchiveFits
<1>2. ASSUME ssPc' \in {"down", "prompt"}, ssCut'
      PROVE  Evidence'
  BY <1>2 DEF Evidence, Making, Idle
<1>3. CASE Untouched
  <2>1. /\ ssPc \in Idle /\ ssUsage' = ssUsage /\ ssArchive' = ssArchive
        /\ \/ \E resume \in BOOLEAN : Begins(resume)
           \/ ssPc' \in Idle /\ ssSession' = ssSession /\ ssResult' = ssResult /\ ssCut' = ssCut
    BY <1>3, WaitingWaits
  <2>2. CASE \E resume \in BOOLEAN : Begins(resume)
    <3>1. ssPc' = "create" /\ ssResult' = "none"
      BY <2>2 DEF Begins
    <3> QED
      BY <1>1, <2>1, <3>1 DEF Evidence, Idle
  <2>3. CASE ssPc' \in Idle /\ ssSession' = ssSession /\ ssResult' = ssResult /\ ssCut' = ssCut
    <3>1. IsNewest(ssArchive)' <=> IsNewest(ssArchive)
      BY <2>1, <2>3 DEF IsNewest
    <3>2. ssPc' \notin Making /\ ssPc' \notin {"archive", "recorders", "closed"}
      BY <2>3 DEF Idle, Making
    <3> QED
      BY <1>1, <2>1, <2>3, <3>1, <3>2 DEF Evidence
  <2> QED
    BY <2>1, <2>2, <2>3
<1> USE DEF Making, Idle
<1>4. CASE Leave
  <2>1. UNCHANGED <<ssSession, ssArchive, ssResult, ssCut>> /\ ssPc = "prompt" /\ ssPc' = "down"
    BY <1>4 DEF Leave, Quits, ssDisk, ssHistory
  <2> QED
    BY <1>1, <2>1 DEF Evidence, IsNewest
\* On the way to a result there is none yet.
<1>5. ASSUME ssPc \in Making, UNCHANGED <<ssArchive, ssResult>>,
             ssPc' \in Making \cup {"down", "prompt"}
      PROVE  Evidence' /\ ArchiveFits'
  BY <1>1, <1>5 DEF Evidence
<1>6. ASSUME NEW wanted \in BOOLEAN, OpenRunLog(wanted)
      PROVE  Evidence' /\ ArchiveFits'
  BY <1>5, <1>6 DEF OpenRunLog, ssDisk
<1>7. CASE Connect \/ Setup
  <2>1. UNCHANGED <<ssArchive, ssResult>> /\ ssPc \in Making
    BY <1>7 DEF Connect, Setup, ssDisk
  <2>2. ssPc' \in Making \cup {"down", "prompt"}
    BY <1>7 DEF Connect, Setup, Unwinds, Quits
  <2> QED
    BY <1>5, <2>1, <2>2
<1>8. CASE RunStarts
  BY <1>5, <1>8 DEF RunStarts, ssDisk
<1>9. CASE PlanSaves
  BY <1>5, <1>9 DEF PlanSaves
<1>10. ASSUME NEW pending \in BOOLEAN, Works(pending)
       PROVE  Evidence' /\ ArchiveFits'
  BY <1>5, <1>10 DEF Works
<1>11. ASSUME NEW result, RunReturns(result)
       PROVE  Evidence' /\ ArchiveFits'
  BY <1>1, <1>11 DEF RunReturns, Evidence, ssDisk
<1>12. CASE CloseTranscript
  <2>1. UNCHANGED ssArchive
    BY <1>12 DEF CloseTranscript, ssDisk
  <2>2. CASE ssPc' = "db"
    BY <1>1, <2>1, <2>2 DEF Evidence
  <2>3. CASE ssPc' # "db"
    BY <1>1, <1>2, <1>12, <2>1, <2>3 DEF CloseTranscript, Unwinds, Quits
  <2> QED
    BY <2>2, <2>3
<1>13. CASE CloseDb
  <2>1. UNCHANGED ssArchive
    BY <1>13 DEF CloseDb, ssDisk
  <2>2. CASE ssPc' = "usage"
    BY <1>1, <2>1, <2>2 DEF Evidence
  <2>3. CASE ssPc' # "usage"
    BY <1>1, <1>2, <1>13, <2>1, <2>3 DEF CloseDb, Unwinds, Quits
  <2> QED
    BY <2>2, <2>3
<1>14. CASE WriteUsage
  BY <1>1, <1>14, AfterEach DEF WriteUsage, Evidence
<1>15. ASSUME NEW size \in RunSizes, NEW stuck \in BOOLEAN, ArchiveRun(size, stuck)
       PROVE  Evidence' /\ ArchiveFits'
  <2>1. ssPc = "archive" /\ ssPc' = "recorders" /\ ssSession' = ssSession
    BY <1>15, AfterEach DEF ArchiveRun
  <2>2. ssUsage = ssSession
    BY <2>1 DEF Evidence
  <2>3. /\ ssArchive' # <<>> /\ ssArchive'[1].run = ssSession /\ ssArchive'[1].usage = ssUsage
        /\ ArchiveFits'
    BY <1>15, ArchiveGrows
  <2>4. IsNewest(ssArchive)'
    BY <2>1, <2>2, <2>3 DEF IsNewest
  <2> QED
    BY <2>1, <2>3, <2>4 DEF Evidence
<1>16. CASE DetachRecorders
  BY <1>1, <1>16 DEF DetachRecorders, Evidence, IsNewest, ssDisk
<1>17. CASE Return
  <2>1. UNCHANGED <<ssSession, ssArchive>> /\ ssPc = "closed" /\ ssPc' \in {"prompt", "down"}
    BY <1>17 DEF Return, Quits, ssDisk
  <2> QED
    BY <1>1, <2>1 DEF Evidence, IsNewest
<1>18. CASE Killed
  BY <1>1, <1>2, <1>18 DEF Killed, Quits, ssDisk
<1> QED
  BY <1>3, <1>4, <1>6, <1>7, <1>8, <1>9, <1>10, <1>11, <1>12, <1>13, <1>14, <1>15, <1>16, <1>17,
     <1>18 DEF SessionNext, Untouched, Closing

LEMMA NextSessionInv ==
  ASSUME SessionInv, [SessionNext]_ssVars
  PROVE  SessionInv'
<1>1. CASE SessionNext
  BY <1>1, NextTyped, NextOpened, NextAgreed, NextEvidence DEF SessionInv
<1>2. CASE UNCHANGED ssVars
  <2>1. /\ ssProcess' = ssProcess /\ ssPc' = ssPc /\ ssSession' = ssSession /\ ssFile' = ssFile
        /\ ssMode' = ssMode /\ ssResume' = ssResume /\ ssLedger' = ssLedger /\ ssLog' = ssLog
        /\ ssDb' = ssDb /\ ssTranscript' = ssTranscript /\ ssUsage' = ssUsage
        /\ ssArchive' = ssArchive /\ ssResult' = ssResult /\ ssCut' = ssCut /\ ssReplace' = ssReplace
    BY <1>2 DEF ssVars
  <2>2. SessionTyped'
    BY <2>1 DEF SessionInv, SessionTyped
  <2>3. Opened'
    BY <2>1 DEF SessionInv, Opened
  <2>4. Agreed'
    BY <2>1 DEF SessionInv, Agreed
  <2>5. Evidence' /\ ArchiveFits'
    BY <2>1 DEF SessionInv, Evidence, IsNewest, ArchiveFits
  <2> QED
    BY <2>2, <2>3, <2>4, <2>5 DEF SessionInv
<1> QED
  BY <1>1, <1>2

-----------------------------------------------------------------------------
LEMMA SessionInvariant == SessionSpec => []SessionInv
<1>1. SessionInit => SessionInv
  BY SessionInitInv
<1>2. SessionInv /\ [SessionNext]_ssVars => SessionInv'
  BY NextSessionInv
<1> QED
  BY <1>1, <1>2, PTL DEF SessionSpec

(***************************************************************************)
(* Every variable of the session keeps its type.                           *)
(***************************************************************************)
THEOREM SessionTypeCorrect == SessionSpec => []SessionTypeOK
<1>1. SessionInv => SessionTypeOK
  <2> SUFFICES ASSUME SessionInv PROVE SessionTypeOK
    OBVIOUS
  <2>1. SessionTyped /\ Opened
    BY DEF SessionInv
  <2>2. ssDb \subseteq 1..ssSession
    BY <2>1 DEF SessionTyped, Opened, Held, Idle
  <2>3. ssProcess.kind \in {"none", "shot", "repl"}
    BY <2>1, SessionAssumption DEF SessionTyped, NoProcess
  <2>4. ssSession \in 0..MaxSessions
    BY <2>1, SessionBounds DEF SessionTyped
  <2> QED
    BY <2>1, <2>2, <2>3, <2>4 DEF SessionTyped, SessionTypeOK
<1> QED
  BY <1>1, SessionInvariant, PTL

(***************************************************************************)
(* No session is in another's way: whatever was raised or interrupted in   *)
(* its making, its run or its close, a log is written by its own run alone *)
(* and no database is left open.                                           *)
(***************************************************************************)
THEOREM SessionsAreApart == SessionSpec => []NothingIsLeftOpen
<1>1. SessionInv => NothingIsLeftOpen
  BY DEF SessionInv, Opened, Held, NothingIsLeftOpen, RunLogIsOwn, NoDatabaseIsLeft
<1> QED
  BY <1>1, SessionInvariant, PTL

(***************************************************************************)
(* The run that ended is the newest of the archive, with its own numbers,  *)
(* unless its close was cut; and what is kept beside it fits both bounds,  *)
(* whatever the sizes of the runs and whichever could not be deleted.      *)
(***************************************************************************)
THEOREM ArchiveIsSound == SessionSpec => []ArchiveHolds
<1>1. SessionInv => ArchiveHolds
  BY DEF SessionInv, Evidence, IsNewest, Idle, ArchiveHolds, EndedIsArchived
<1> QED
  BY <1>1, SessionInvariant, PTL

(***************************************************************************)
(* Pending tasks are replaced only after the user, asked about that very   *)
(* plan, said so.                                                          *)
(***************************************************************************)
THEOREM ReplacingIsAgreed == SessionSpec => ReplacedOnlyIfAgreed
<1> DEFINE A == ssLedger'.plan # ssLedger.plan /\ ssLedger.pending
                /\ ssProcess.kind = "repl" /\ ssProcess.tty /\ ssMode # "plan"
                => ssReplace = ssLedger.plan
<1>1. SessionInv /\ [SessionNext]_ssVars => [A]_ssVars
  <2> SUFFICES ASSUME SessionInv, SessionNext, ssLedger'.plan # ssLedger.plan, ssLedger.pending,
                      ssProcess.kind = "repl", ssProcess.tty, ssMode # "plan"
               PROVE  ssReplace = ssLedger.plan
    BY DEF ssVars
  <2>1. SessionTyped /\ Agreed
    BY DEF SessionInv
  <2>2. CASE PlanSaves
    BY <2>1, <2>2 DEF PlanSaves, Agreed, Making
  <2>3. ASSUME NEW pending \in BOOLEAN, Works(pending)
        PROVE  ssLedger'.plan = ssLedger.plan
    BY <2>1, <2>3 DEF Works, SessionTyped
  <2>4. ASSUME ~PlanSaves, \A pending \in BOOLEAN : ~Works(pending)
        PROVE  ssLedger' = ssLedger
    <3>1. Untouched => ssLedger' = ssLedger
      BY WaitingWaits
    <3> QED
      BY <2>4, <3>1
         DEF SessionNext, Untouched, Closing, Leave, OpenRunLog, Connect, Setup, RunStarts, RunReturns,
             CloseTranscript, CloseDb, WriteUsage, ArchiveRun, DetachRecorders, Return, Killed, ssDisk
  <2> QED
    BY <2>2, <2>3, <2>4
<1>2. SessionSpec => [][SessionNext]_ssVars
  BY PTL DEF SessionSpec
<1>3. SessionSpec => [][A]_ssVars
  BY <1>1, <1>2, SessionInvariant, PTL
<1> QED
  BY <1>3, PTL DEF ReplacedOnlyIfAgreed

-----------------------------------------------------------------------------
(***************************************************************************)
(* Config: tables of settings, and the merge of five of them.              *)
(***************************************************************************)
Values == SettingValues \cup {UNSET}
Partial(A, B) == UNION {[S -> B] : S \in SUBSET A}
Tables5 == Partial(AllSettings, Values)
LayerNames == {LAYER_NAMES[i] : i \in 1..5}
Origins == Partial(AllSettings, LayerNames)
Environs == Partial(EnvNames, SettingValues)
Merges == [value : Tables5, provenance : Origins]
FiveLayers == {layers \in Seq(Tables5) : Len(layers) = 5}

LEMMA PartialFunctions ==
  ASSUME NEW A, NEW B, NEW f
  PROVE  f \in Partial(A, B) <=> DOMAIN f \subseteq A /\ f \in [DOMAIN f -> B]
<1>1. ASSUME f \in Partial(A, B)
      PROVE  DOMAIN f \subseteq A /\ f \in [DOMAIN f -> B]
  <2>1. PICK S \in SUBSET A : f \in [S -> B]
    BY <1>1 DEF Partial
  <2> QED
    BY <2>1
<1> QED
  BY <1>1 DEF Partial

LEMMA OverIsPartial ==
  ASSUME NEW A, NEW B, NEW f \in Partial(A, B), NEW g \in Partial(A, B)
  PROVE  Over(f, g) \in Partial(A, B)
<1>1. /\ DOMAIN f \subseteq A /\ f \in [DOMAIN f -> B]
      /\ DOMAIN g \subseteq A /\ g \in [DOMAIN g -> B]
  BY PartialFunctions
<1> DEFINE h == Over(f, g)
<1>2. DOMAIN h \subseteq A /\ h \in [DOMAIN h -> B]
  BY <1>1 DEF Over
<1> HIDE DEF h
<1>3. h \in Partial(A, B)
  BY <1>2, PartialFunctions
<1> QED
  BY <1>3 DEF h

LEMMA NamedLayers ==
  /\ \A i \in 1..5 : LAYER_NAMES[i] \in LayerNames /\ LayerIndex(LAYER_NAMES[i]) = i
  /\ LAYER_NAMES[3] = "project"
<1>1. DOMAIN LAYER_NAMES = 1..5 /\ \A i \in 1..5 : LAYER_NAMES[i] \in LayerNames
  <2>1. DOMAIN LAYER_NAMES = 1..5
    BY DEF LAYER_NAMES
  <2> QED
    BY <2>1 DEF LayerNames
<1>2. \A i, j \in 1..5 : LAYER_NAMES[i] = LAYER_NAMES[j] => i = j
  <2>1. /\ LAYER_NAMES[1] = "builtin" /\ LAYER_NAMES[2] = "user" /\ LAYER_NAMES[3] = "project"
        /\ LAYER_NAMES[4] = "env" /\ LAYER_NAMES[5] = "cli"
    BY DEF LAYER_NAMES
  <2>2. \A i \in 1..5 : i = 1 \/ i = 2 \/ i = 3 \/ i = 4 \/ i = 5
    OBVIOUS
  <2> QED
    BY <2>1, <2>2
<1>3. ASSUME NEW i \in 1..5 PROVE LayerIndex(LAYER_NAMES[i]) = i
  BY <1>1, <1>2 DEF LayerIndex
<1>4. LAYER_NAMES[3] = "project"
  BY DEF LAYER_NAMES
<1> QED
  BY <1>1, <1>3, <1>4

(***************************************************************************)
(* Of the first n layers: p has what any of them gives, as the last of     *)
(* them that gives it has it, under that layer's name.                     *)
(***************************************************************************)
LastGives(layers, n, s, j) ==
  /\ s \in DOMAIN layers[j]
  /\ \A k \in 1..n : k > j => s \notin DOMAIN layers[k]

MergedUpTo(layers, n, p) ==
  /\ DOMAIN p.value = {s \in AllSettings : \E i \in 1..n : s \in DOMAIN layers[i]}
  /\ DOMAIN p.provenance = DOMAIN p.value
  /\ \A s \in DOMAIN p.value : \E j \in 1..n :
       LastGives(layers, n, s, j) /\ p.value[s] = layers[j][s] /\ p.provenance[s] = LAYER_NAMES[j]

LayerOver(layers, i, p) ==
  [value |-> Over(layers[i], p.value), provenance |-> Over(FromLayer(layers, i), p.provenance)]

LEMMA OneLayerOver ==
  ASSUME NEW layers \in FiveLayers, NEW i \in 1..5, NEW p \in Merges
  PROVE  /\ LayerOver(layers, i, p) \in Merges
         /\ MergedUpTo(layers, i - 1, p) => MergedUpTo(layers, i, LayerOver(layers, i, p))
<1> DEFINE value == Over(layers[i], p.value)
           from == FromLayer(layers, i)
           provenance == Over(from, p.provenance)
<1>1. layers[i] \in Tables5 /\ p.value \in Tables5 /\ p.provenance \in Origins
  BY ElementOfSeq DEF FiveLayers, Merges
<1>2. /\ value \in Tables5 /\ DOMAIN value = DOMAIN layers[i] \cup DOMAIN p.value
      /\ \A s \in DOMAIN layers[i] : value[s] = layers[i][s]
      /\ \A s \in DOMAIN p.value \ DOMAIN layers[i] : value[s] = p.value[s]
  <2>1. layers[i] \in Partial(AllSettings, Values) /\ p.value \in Partial(AllSettings, Values)
    BY <1>1 DEF Tables5
  <2>2. value \in Tables5
    BY <2>1, OverIsPartial DEF Tables5
  <2> QED
    BY <2>2 DEF Over
<1>3. from \in Origins /\ DOMAIN from = DOMAIN layers[i] /\ \A s \in DOMAIN from : from[s] = LAYER_NAMES[i]
  <2>1. DOMAIN from = DOMAIN layers[i] /\ \A s \in DOMAIN from : from[s] = LAYER_NAMES[i]
    BY DEF FromLayer
  <2>2. DOMAIN layers[i] \subseteq AllSettings
    BY <1>1, PartialFunctions DEF Tables5
  <2>3. from \in [DOMAIN from -> LayerNames]
    BY NamedLayers DEF FromLayer
  <2> HIDE DEF from
  <2> QED
    BY <2>1, <2>2, <2>3, PartialFunctions DEF Origins
<1> HIDE DEF from
<1>4. /\ provenance \in Origins /\ DOMAIN provenance = DOMAIN from \cup DOMAIN p.provenance
      /\ \A s \in DOMAIN from : provenance[s] = from[s]
      /\ \A s \in DOMAIN p.provenance \ DOMAIN from : provenance[s] = p.provenance[s]
  <2>1. provenance \in Origins
    BY <1>1, <1>3, OverIsPartial DEF Origins
  <2> QED
    BY <2>1 DEF Over
<1> DEFINE next == LayerOver(layers, i, p)
<1>5. next \in Merges /\ next.value = value /\ next.provenance = provenance
  BY <1>2, <1>4 DEF LayerOver, Merges, from
<1>6. ASSUME MergedUpTo(layers, i - 1, p)
      PROVE  MergedUpTo(layers, i, next)
  <2>1. \A k \in 1..i : k = i \/ k \in 1..(i - 1)
    OBVIOUS
  <2>2. i \in 1..i /\ \A k \in 1..(i - 1) : k \in 1..i /\ i > k
    OBVIOUS
  <2>3. DOMAIN layers[i] \subseteq AllSettings
    BY <1>1, PartialFunctions DEF Tables5
  <2>4. DOMAIN value = {s \in AllSettings : \E k \in 1..i : s \in DOMAIN layers[k]}
    BY <1>2, <1>6, <2>1, <2>2, <2>3 DEF MergedUpTo
  <2>5. DOMAIN provenance = DOMAIN value
    BY <1>2, <1>3, <1>4, <1>6 DEF MergedUpTo
  <2>6. ASSUME NEW s \in DOMAIN value
        PROVE  \E j \in 1..i : LastGives(layers, i, s, j) /\ value[s] = layers[j][s]
                                 /\ provenance[s] = LAYER_NAMES[j]
    <3>1. CASE s \in DOMAIN layers[i]
      <4>1. LastGives(layers, i, s, i)
        BY <3>1 DEF LastGives
      <4>2. value[s] = layers[i][s] /\ provenance[s] = LAYER_NAMES[i]
        BY <1>2, <1>3, <1>4, <3>1
      <4> QED
        BY <4>1, <4>2, <2>2
    <3>2. CASE s \notin DOMAIN layers[i]
      <4>1. s \in DOMAIN p.value /\ s \in DOMAIN p.provenance
        BY <1>2, <1>6, <3>2 DEF MergedUpTo
      <4>2. value[s] = p.value[s] /\ provenance[s] = p.provenance[s]
        BY <1>2, <1>3, <1>4, <3>2, <4>1
      <4>3. PICK j \in 1..(i - 1) : LastGives(layers, i - 1, s, j) /\ p.value[s] = layers[j][s]
                                   /\ p.provenance[s] = LAYER_NAMES[j]
        BY <1>6, <4>1 DEF MergedUpTo
      <4>4. LastGives(layers, i, s, j)
        BY <2>1, <3>2, <4>3 DEF LastGives
      <4> QED
        BY <2>2, <4>2, <4>3, <4>4
    <3> QED
      BY <3>1, <3>2
  <2> HIDE DEF value, provenance, next
  <2> QED
    BY <1>5, <2>4, <2>5, <2>6 DEF MergedUpTo
<1> QED
  BY <1>5, <1>6

LEMMA NothingMerged ==
  ASSUME NEW layers
  PROVE  Merging \in Merges /\ MergedUpTo(layers, 0, Merging)
<1>1. NoLayer \in [{} -> Values] /\ NoLayer \in [{} -> LayerNames] /\ DOMAIN NoLayer = {}
  BY DEF NoLayer
<1>2. NoLayer \in Tables5 /\ NoLayer \in Origins
  BY <1>1, PartialFunctions DEF Tables5, Origins
<1>3. Merging \in Merges /\ Merging.value = NoLayer /\ Merging.provenance = NoLayer
  BY <1>2 DEF Merging, Merges
<1> QED
  BY <1>1, <1>3 DEF MergedUpTo

(***************************************************************************)
(* deep_merge: a value is the one of the last layer that gives the setting *)
(* and its provenance the name of that layer.                              *)
(***************************************************************************)
LEMMA MergeIs ==
  ASSUME NEW layers \in FiveLayers
  PROVE  DeepMerge(layers) \in Merges /\ MergedUpTo(layers, 5, DeepMerge(layers))
<1> DEFINE N == Len(layers)
           V == Merges
           start == Merging
           F(f) == [i \in 0..N |-> IF i = 0 THEN start ELSE [value |-> Over(layers[i], f[i - 1].value), provenance |-> Over(FromLayer(layers, i), f[i - 1].provenance)]]
           one(i, p) == [value |-> Over(layers[i], p.value), provenance |-> Over(FromLayer(layers, i), p.provenance)]
           step == [i \in 1..N |-> [p \in V |-> one(i, p)]]
           h == CHOOSE f : f = F(f)
<1>1. N \in Nat /\ N = 5
  BY DEF FiveLayers
<1>2. start \in V
  BY NothingMerged
<1>3. \A i \in 1..N, p \in V : one(i, p) \in V
  BY <1>1, OneLayerOver DEF LayerOver
<1>a. ASSUME NEW i \in 1..N, NEW p \in V, MergedUpTo(layers, i - 1, p)
      PROVE  MergedUpTo(layers, i, one(i, p))
  BY <1>1, <1>a, OneLayerOver DEF LayerOver
<1>4. \A f : \A i \in 0..N : F(f)[i] = IF i = 0 THEN start ELSE one(i, f[i - 1])
  OBVIOUS
<1>5. DeepMerge(layers) = h[N]
  BY DEF DeepMerge
<1> HIDE DEF V, start, one, N
<1>6. step \in [1..N -> [V -> V]]
  BY <1>3
<1>7. \A i \in 1..N, p \in V : step[i][p] = one(i, p)
  OBVIOUS
<1> HIDE DEF step
<1>8. PICK g \in [0..N -> V] : g[0] = start /\ \A i \in 1..N : g[i] = step[i][g[i - 1]]
  <2>1. step \in Steps(N, V)
    BY <1>6 DEF Steps
  <2>2. Computed(N, V, start, step)
    BY <1>1, <1>2, <2>1, RecursionExists
  <2> QED
    BY <2>2 DEF Computed
<1>9. \A i \in 1..N : i - 1 \in 0..N /\ g[i] = one(i, g[i - 1])
  <2> SUFFICES ASSUME NEW i \in 1..N PROVE i - 1 \in 0..N /\ g[i] = one(i, g[i - 1])
    OBVIOUS
  <2>1. i - 1 \in 0..N
    BY <1>1
  <2>2. g[i - 1] \in V
    BY <2>1
  <2> QED
    BY <2>1, <2>2, <1>7, <1>8
<1>10. g = F(g)
  <2>1. DOMAIN F(g) = 0..N /\ DOMAIN g = 0..N
    OBVIOUS
  <2>2. \A i \in 0..N : F(g)[i] = g[i]
    <3> SUFFICES ASSUME NEW i \in 0..N PROVE F(g)[i] = g[i]
      OBVIOUS
    <3>1. F(g)[i] = IF i = 0 THEN start ELSE one(i, g[i - 1])
      BY <1>4
    <3>2. i # 0 => i \in 1..N
      BY <1>1
    <3> QED
      BY <3>1, <3>2, <1>8, <1>9
  <2>3. F(g) = [i \in 0..N |-> F(g)[i]] /\ g = [i \in 0..N |-> g[i]]
    OBVIOUS
  <2> HIDE DEF F
  <2> QED
    BY <2>2, <2>3
<1>11. h = F(h)
  <2> HIDE DEF F
  <2> QED
    BY <1>10, Zenon
<1> HIDE DEF h, F
<1>12. h[0] = start /\ \A i \in 1..N : h[i] = one(i, h[i - 1])
  <2>1. \A i \in 0..N : h[i] = IF i = 0 THEN start ELSE one(i, h[i - 1])
    BY <1>4, <1>11
  <2>2. 0 \in 0..N /\ \A i \in 1..N : i \in 0..N /\ i # 0
    BY <1>1
  <2> QED
    BY <2>1, <2>2
<1>13. \A i \in 0..N : h[i] \in V
  <2>1. \A i \in 1..N : h[i - 1] \in V => h[i] \in V
    BY <1>3, <1>12
  <2> QED
    BY <1>1, <1>2, <1>12, <2>1, StaysIn
<1> DEFINE T == {n \in 0..N : MergedUpTo(layers, n, h[n])}
<1>14. 0 \in T
  BY <1>1, <1>12, NothingMerged DEF start
<1>15. ASSUME NEW n \in 0..N, n < N, n \in T
       PROVE  n + 1 \in T
  <2>1. n + 1 \in 0..N /\ n + 1 \in 1..N /\ n + 1 - 1 = n
    BY <1>1, <1>15
  <2> DEFINE k == n + 1
  <2>2. h[k] = one(k, h[k - 1]) /\ h[k - 1] \in V
    BY <2>1, <1>12, <1>13
  <2>3. MergedUpTo(layers, k - 1, h[k - 1])
    BY <2>1, <1>15
  <2> HIDE DEF k
  <2>4. k \in 1..N
    BY <2>1 DEF k
  <2>5. MergedUpTo(layers, k, h[k])
    BY <1>a, <2>2, <2>3, <2>4
  <2> QED
    BY <2>1, <2>5 DEF k
<1> HIDE DEF T
<1>16. N \in T
  <2>1. \A n \in 0..N : n \in T
    BY <1>1, <1>14, <1>15, Inductive
  <2> QED
    BY <1>1, <2>1
<1>17. MergedUpTo(layers, 5, h[N])
  BY <1>1, <1>16 DEF T
<1>18. h[N] \in V
  BY <1>1, <1>13
<1> QED
  BY <1>5, <1>17, <1>18 DEF V
(***************************************************************************)
(* A merge of five layers of which the first is the builtin one.           *)
(***************************************************************************)
Base(k) == <<"model", "default", k>>
Own(r, k) == <<"model", r, k>>

LEMMA HighestIs ==
  ASSUME NEW layers \in FiveLayers, NEW s, NEW j \in 1..5, LastGives(layers, 5, s, j)
  PROVE  Gives(layers, s) /\ Highest(layers, s) = layers[j][s]
<1> DEFINE given == {i \in DOMAIN layers : s \in DOMAIN layers[i]}
<1>1. DOMAIN layers = 1..5
  BY LenProperties DEF FiveLayers
<1>2. j \in given /\ \A i \in given : i <= j
  BY <1>1 DEF LastGives
<1>3. \A i \in given : (\A k \in given : k <= i) => i = j
  BY <1>1, <1>2
<1> HIDE DEF given
<1>4. (CHOOSE i \in given : \A k \in given : k <= i) = j
  BY <1>2, <1>3
<1>5. Gives(layers, s)
  BY <1>2 DEF Gives, given
<1> QED
  BY <1>4, <1>5 DEF Highest, given

LEMMA BuiltinIs ==
  /\ Builtin \in Tables5
  /\ DOMAIN Builtin = {Base(k) : k \in ModelKeys} \cup PlainSettings
<1> DEFINE some == CHOOSE v \in SettingValues : v # BAD
<1>1. some \in SettingValues
  BY ConfigAssumption
<1> HIDE DEF some
<1>2. DOMAIN Builtin = {Base(k) : k \in ModelKeys} \cup PlainSettings
  BY DEF Builtin, Base
<1>3. \A s \in DOMAIN Builtin : Builtin[s] \in Values
  BY <1>1 DEF Builtin, Values, some
<1>4. Builtin = [s \in DOMAIN Builtin |-> Builtin[s]]
  BY DEF Builtin
<1>5. DOMAIN Builtin \subseteq AllSettings
  BY <1>2, ConfigAssumption DEF AllSettings, ModelSettings, Base
<1>6. Builtin \in [DOMAIN Builtin -> Values]
  BY <1>3, <1>4
<1> QED
  BY <1>2, <1>5, <1>6, PartialFunctions DEF Tables5

LEMMA MergedIs ==
  ASSUME NEW layers \in FiveLayers, layers[1] = Builtin
  PROVE  LET m == DeepMerge(layers) IN
           /\ m \in Merges /\ DOMAIN m.provenance = DOMAIN m.value
           /\ \A s \in AllSettings : s \in DOMAIN m.value <=> Gives(layers, s)
           /\ \A s \in DOMAIN m.value : m.value[s] = Highest(layers, s)
           /\ \A s \in DOMAIN m.value : \E j \in 1..5 :
                LastGives(layers, 5, s, j) /\ m.value[s] = layers[j][s] /\ m.provenance[s] = LAYER_NAMES[j]
           /\ DOMAIN m.value \subseteq AllSettings /\ PlainSettings \subseteq DOMAIN m.value
           /\ \A k \in ModelKeys : Base(k) \in DOMAIN m.value
<1> DEFINE m == DeepMerge(layers)
<1>1. m \in Merges /\ MergedUpTo(layers, 5, m)
  BY MergeIs
<1> HIDE DEF m
<1>2. DOMAIN layers = 1..5
  BY LenProperties DEF FiveLayers
<1>3. \A s \in AllSettings : s \in DOMAIN m.value <=> Gives(layers, s)
  BY <1>1, <1>2 DEF MergedUpTo, Gives
<1>4. \A s \in DOMAIN m.value : \E j \in 1..5 :
        LastGives(layers, 5, s, j) /\ m.value[s] = layers[j][s] /\ m.provenance[s] = LAYER_NAMES[j]
  BY <1>1 DEF MergedUpTo
<1>5. \A s \in DOMAIN m.value : m.value[s] = Highest(layers, s)
  BY <1>4, HighestIs
<1>6. DOMAIN m.value \subseteq AllSettings /\ DOMAIN m.provenance = DOMAIN m.value
  BY <1>1 DEF MergedUpTo
<1>7. DOMAIN Builtin \subseteq AllSettings
  BY BuiltinIs, PartialFunctions DEF Tables5
<1>8. DOMAIN Builtin \subseteq DOMAIN m.value
  BY <1>2, <1>3, <1>7 DEF Gives
<1>9. PlainSettings \subseteq DOMAIN m.value /\ \A k \in ModelKeys : Base(k) \in DOMAIN m.value
  BY <1>8, BuiltinIs
<1> QED
  BY <1>1, <1>3, <1>4, <1>5, <1>6, <1>9 DEF m

(***************************************************************************)
(* What was built of it, and what of that is shown.                        *)
(***************************************************************************)
LEMMA TablesAre ==
  ASSUME NEW m \in Merges
  PROVE  Tables(m) \subseteq RoleNames /\ "default" \in Tables(m)
<1>1. \A s \in ModelSettings : s[2] \in RoleNames
  BY DEF ModelSettings
<1> QED
  BY <1>1, ConfigAssumption DEF Tables

LEMMA ModelsAre ==
  ASSUME NEW m \in Merges, NEW r \in Tables(m), NEW k \in ModelKeys
  PROVE  /\ DOMAIN BuildModels(m) = Tables(m) \X ModelKeys /\ <<r, k>> \in DOMAIN BuildModels(m)
         /\ BuildModels(m)[<<r, k>>] =
              IF Own(r, k) \in DOMAIN m.value THEN m.value[Own(r, k)] ELSE m.value[Base(k)]
<1>1. <<r, k>> \in Tables(m) \X ModelKeys /\ <<r, k>>[1] = r /\ <<r, k>>[2] = k
  OBVIOUS
<1> QED
  BY <1>1 DEF BuildModels, Own, Base

LEMMA ModelIs ==
  ASSUME NEW m \in Merges, NEW r \in Tables(m), NEW k \in ModelKeys
  PROVE  BuildModels(m)[<<r, k>>] =
           IF Own(r, k) \in DOMAIN m.value THEN m.value[Own(r, k)] ELSE m.value[Base(k)]
  BY ModelsAre

LEMMA ShownIs ==
  ASSUME NEW m \in Merges, NEW s \in DOMAIN Flatten(Built(m))
  PROVE  \/ s \in PlainSettings /\ s[1] # "model" /\ Flatten(Built(m))[s] = m.value[s]
         \/ \E r \in Tables(m), k \in ModelKeys :
              /\ s = Own(r, k) /\ s[1] = "model" /\ s[2] = r /\ s[3] = k
              /\ Flatten(Built(m))[s] = IF s \in DOMAIN m.value THEN m.value[s] ELSE m.value[Base(k)]
<1> DEFINE config == Built(m)
<1>1. config.models = BuildModels(m) /\ config.plain = Sections(m)
  BY DEF Built
<1> HIDE DEF config
<1>2. DOMAIN BuildModels(m) = Tables(m) \X ModelKeys
  BY DEF BuildModels
<1>3. DOMAIN Flatten(config) = {<<"model", p[1], p[2]>> : p \in Tables(m) \X ModelKeys} \cup PlainSettings
  BY <1>1, <1>2 DEF Flatten
<1>4. s \in DOMAIN Flatten(config)
  BY DEF config
<1>5. Flatten(config)[s] = IF s[1] = "model" THEN config.models[<<s[2], s[3]>>] ELSE config.plain[s]
  BY <1>4 DEF Flatten
<1>6. CASE s \in PlainSettings
  <2>1. s[1] # "model"
    BY <1>6, ConfigAssumption
  <2>2. Flatten(config)[s] = m.value[s]
    BY <1>1, <1>5, <1>6, <2>1 DEF Sections
  <2> QED
    BY <1>6, <2>1, <2>2 DEF config
<1>7. CASE s \notin PlainSettings
  <2>1. PICK p \in Tables(m) \X ModelKeys : s = <<"model", p[1], p[2]>>
    BY <1>3, <1>4, <1>7
  <2> DEFINE r == p[1]
             k == p[2]
  <2>2. r \in Tables(m) /\ k \in ModelKeys /\ s = Own(r, k)
    BY <2>1 DEF Own
  <2> HIDE DEF r, k
  <2>3. s[1] = "model" /\ s[2] = r /\ s[3] = k
    BY <2>2 DEF Own
  <2>4. Flatten(config)[s] = BuildModels(m)[<<r, k>>]
    BY <1>1, <1>5, <2>3
  <2>5. Flatten(config)[s] = IF s \in DOMAIN m.value THEN m.value[s] ELSE m.value[Base(k)]
    BY <2>2, <2>4, ModelsAre
  <2> QED
    BY <2>2, <2>3, <2>5 DEF config
<1> QED
  BY <1>6, <1>7

LEMMA NothingBadIsShown ==
  ASSUME NEW layers \in FiveLayers, layers[1] = Builtin, Refused(DeepMerge(layers)) = {},
         NEW s \in DOMAIN Flatten(Built(DeepMerge(layers)))
  PROVE  Flatten(Built(DeepMerge(layers)))[s] # BAD
<1> DEFINE m == DeepMerge(layers)
<1>1. /\ m \in Merges /\ DOMAIN m.value \subseteq AllSettings /\ PlainSettings \subseteq DOMAIN m.value
      /\ \A k \in ModelKeys : Base(k) \in DOMAIN m.value
  BY MergedIs
<1>2. Refused(m) = {} /\ s \in DOMAIN Flatten(Built(m))
  OBVIOUS
<1> HIDE DEF m
<1>3. \A t \in DOMAIN m.value : m.value[t] # BAD
  BY <1>1, <1>2 DEF Refused, RefusedModels, RefusedSections, AllSettings
<1>4. Flatten(Built(m))[s] # BAD
  BY <1>1, <1>2, <1>3, ShownIs
<1> QED
  BY <1>4 DEF m

(***************************************************************************)
(* The layers a build reads.                                               *)
(***************************************************************************)
LEMMA LayersArePartial == Layers = Partial(AllSettings, SettingValues)
  BY DEF Layers, Partial

LEMMA Widens ==
  ASSUME NEW f \in Partial(AllSettings, SettingValues)
  PROVE  f \in Tables5
<1>1. DOMAIN f \subseteq AllSettings /\ f \in [DOMAIN f -> SettingValues]
  BY PartialFunctions
<1>2. f \in [DOMAIN f -> Values]
  BY <1>1 DEF Values
<1> QED
  BY <1>1, <1>2, PartialFunctions DEF Tables5

LEMMA NoLayerIs ==
  ASSUME NEW A, NEW B
  PROVE  NoLayer \in Partial(A, B)
<1>1. DOMAIN NoLayer \subseteq A /\ NoLayer \in [DOMAIN NoLayer -> B]
  BY DEF NoLayer
<1> QED
  BY <1>1, PartialFunctions

FlagLayers == Flags \cup {NoLayer}

LEMMA FlagsAre ==
  ASSUME NEW flags \in FlagLayers
  PROVE  DOMAIN flags \subseteq PlainSettings /\ flags \in Tables5
<1>1. CASE flags = NoLayer
  BY <1>1, NoLayerIs DEF Tables5, NoLayer
<1>2. CASE flags \in Flags
  <2>1. DOMAIN flags \subseteq PlainSettings /\ flags \in [DOMAIN flags -> SettingValues]
    BY <1>2, ConfigAssumption
  <2>2. DOMAIN flags \subseteq AllSettings
    BY <2>1 DEF AllSettings
  <2>3. flags \in Partial(AllSettings, SettingValues)
    BY <2>1, <2>2, PartialFunctions
  <2> QED
    BY <2>1, <2>3, Widens
<1> QED
  BY <1>1, <1>2 DEF FlagLayers

LEMMA EnvLayerIs ==
  ASSUME NEW environ \in Environs, NEW declared, NEW shortFirst
  PROVE  EnvLayer(environ, declared, shortFirst) \in Tables5
<1> DEFINE layer == EnvLayer(environ, declared, shortFirst)
           modern == {s \in AllSettings : Modern(s) \in DOMAIN environ /\ Routed(s, declared, shortFirst)}
           legacy == {s \in AllSettings : Legacy(s, environ) # {}}
           value(s) == IF s \in modern THEN environ[Modern(s)]
                       ELSE CHOOSE v \in Legacy(s, environ) : TRUE
<1>1. environ \in [DOMAIN environ -> SettingValues]
  BY PartialFunctions DEF Environs
<1>2. \A s \in AllSettings : Legacy(s, environ) \subseteq SettingValues
  BY <1>1 DEF Legacy
<1>3. \A s \in modern : value(s) \in SettingValues
  BY <1>1
<1>4. \A s \in legacy : s \notin modern => value(s) \in SettingValues
  BY <1>2
<1>5. layer = [s \in modern \cup legacy |-> value(s)]
  BY DEF EnvLayer
<1>6. modern \cup legacy \subseteq AllSettings
  OBVIOUS
<1> HIDE DEF modern, legacy, value, layer
<1>7. DOMAIN layer \subseteq AllSettings /\ layer \in [DOMAIN layer -> SettingValues]
  BY <1>3, <1>4, <1>5, <1>6
<1>8. layer \in Tables5
  BY <1>7, PartialFunctions, Widens
<1> QED
  BY <1>8 DEF layer

LEMMA ReadIs ==
  ASSUME NEW environ \in Environs, NEW flags \in FlagLayers, NEW shortFirst,
         cfUser \in Layers, cfProject \in Layers
  PROVE  /\ ReadLayers(environ, flags, shortFirst) \in FiveLayers
         /\ ReadLayers(environ, flags, shortFirst)[1] = Builtin
         /\ ReadLayers(environ, flags, shortFirst)[3] = cfProject
         /\ ReadLayers(environ, flags, shortFirst)[5] = flags
<1> DEFINE fourth == EnvLayer(environ, Declared(cfUser, cfProject), shortFirst)
           layers == <<Builtin, cfUser, cfProject, fourth, flags>>
<1>1. fourth \in Tables5 /\ flags \in Tables5 /\ Builtin \in Tables5
  BY EnvLayerIs, FlagsAre, BuiltinIs
<1>2. cfUser \in Tables5 /\ cfProject \in Tables5
  BY LayersArePartial, Widens
<1> HIDE DEF fourth
<1>3. layers \in Seq(Tables5) /\ Len(layers) = 5
  BY <1>1, <1>2
<1>4. layers[1] = Builtin /\ layers[3] = cfProject /\ layers[5] = flags
  OBVIOUS
<1> QED
  BY <1>3, <1>4 DEF FiveLayers, ReadLayers, fourth

(***************************************************************************)
(* A process has what it built of layers it read, with nothing in it that  *)
(* validate refuses; while a request runs, of the layers as they are.      *)
(***************************************************************************)
ConfigTyped ==
  /\ cfUser \in Layers /\ cfProject \in Layers
  /\ cfDotenv \in Environs /\ cfShell \in Environs /\ cfEnviron \in Environs
  /\ cfShortFirst \in BOOLEAN /\ cfFlags \in FlagLayers
  /\ cfProcess \in {"down", "prompt", "work"} /\ cfEdits \in 0..ConfigEdits
  /\ cfNoticed \subseteq RoleNames

BuiltFrom(config, layers) ==
  /\ layers \in FiveLayers /\ layers[1] = Builtin
  /\ config = Built(DeepMerge(layers)) /\ Refused(DeepMerge(layers)) = {}

ConfigInv ==
  /\ ConfigTyped
  /\ cfProcess = "down" => cfConfig = NotBuilt /\ cfRead = <<>>
  /\ cfProcess # "down" => BuiltFrom(cfConfig, cfRead)
  /\ cfProcess = "work" => cfRead = ReadLayers(cfEnviron, cfFlags, cfShortFirst)

\* A build ends the process, or leaves it with what was built.
LEMMA BuildsIs ==
  ASSUME ConfigTyped, NEW flags \in FlagLayers, NEW environ \in Environs,
         NEW next, NEW notices, Builds(flags, environ, next, notices)
  PROVE  \/ /\ cfProcess' = "down" /\ cfConfig' = NotBuilt /\ cfRead' = <<>> /\ cfNoticed' = {}
            /\ cfEnviron' = NoLayer /\ cfFlags' = NoLayer /\ cfShortFirst' \in BOOLEAN
         \/ /\ cfProcess' = next /\ BuiltFrom(cfConfig', cfRead')
            /\ cfRead' = ReadLayers(environ, flags, cfShortFirst')
            /\ cfRead'[3] = cfProject /\ cfRead'[5] = flags
            /\ cfNoticed' = IF notices THEN Noticed(cfConfig') ELSE cfNoticed
            /\ cfEnviron' = environ /\ cfFlags' = flags /\ cfShortFirst' \in BOOLEAN
<1>1. PICK shortFirst \in BOOLEAN :
        LET layers == ReadLayers(environ, flags, shortFirst)  merged == DeepMerge(layers)
        IN  /\ cfShortFirst' = shortFirst
            /\ IF EnvRaises(environ) \/ Refused(merged) # {}
               THEN /\ cfProcess' = "down" /\ cfConfig' = NotBuilt /\ cfRead' = <<>> /\ cfNoticed' = {}
                    /\ cfEnviron' = NoLayer /\ cfFlags' = NoLayer
               ELSE /\ cfProcess' = next /\ cfConfig' = Built(merged) /\ cfRead' = layers
                    /\ cfNoticed' = IF notices THEN Noticed(Built(merged)) ELSE cfNoticed
                    /\ cfEnviron' = environ /\ cfFlags' = flags
  BY DEF Builds
<1> DEFINE layers == ReadLayers(environ, flags, shortFirst)
<1>2. /\ layers \in FiveLayers /\ layers[1] = Builtin /\ layers[3] = cfProject /\ layers[5] = flags
  BY ReadIs DEF ConfigTyped
<1> HIDE DEF layers
<1>3. CASE EnvRaises(environ) \/ Refused(DeepMerge(layers)) # {}
  BY <1>1, <1>3 DEF layers
<1>4. CASE ~(EnvRaises(environ) \/ Refused(DeepMerge(layers)) # {})
  <2>1. /\ cfShortFirst' = shortFirst /\ cfProcess' = next /\ cfConfig' = Built(DeepMerge(layers))
        /\ cfRead' = layers /\ cfEnviron' = environ /\ cfFlags' = flags
        /\ cfNoticed' = IF notices THEN Noticed(Built(DeepMerge(layers))) ELSE cfNoticed
    BY <1>1, <1>4 DEF layers
  <2>2. BuiltFrom(cfConfig', cfRead')
    BY <1>2, <1>4, <2>1 DEF BuiltFrom
  <2>3. cfRead' = ReadLayers(environ, flags, cfShortFirst')
    BY <2>1 DEF layers
  <2> QED
    BY <1>2, <2>1, <2>2, <2>3
<1> QED
  BY <1>3, <1>4

LEMMA LoadedIs ==
  ASSUME NEW environ \in Environs, cfDotenv \in Environs
  PROVE  Loaded(environ) \in Environs
  BY OverIsPartial DEF Loaded, Environs

\* committed_api_key_notice names roles.
LEMMA NoticedAreRoles ==
  ASSUME NEW config
  PROVE  Noticed(config) \subseteq RoleNames
  BY DEF Noticed

LEMMA EditedIs ==
  ASSUME NEW A, NEW layer \in Partial(A, SettingValues), NEW s \in A, NEW given \in SettingValues \cup {UNSET}
  PROVE  Edited(layer, s, given) \in Partial(A, SettingValues)
<1>1. DOMAIN layer \subseteq A /\ layer \in [DOMAIN layer -> SettingValues]
  BY PartialFunctions
<1>2. CASE given = UNSET
  <2> DEFINE h == [t \in DOMAIN layer \ {s} |-> layer[t]]
  <2>1. DOMAIN h \subseteq A /\ h \in [DOMAIN h -> SettingValues] /\ Edited(layer, s, given) = h
    BY <1>1, <1>2 DEF Edited
  <2> HIDE DEF h
  <2> QED
    BY <2>1, PartialFunctions
<1>3. CASE given # UNSET
  <2> DEFINE h == [t \in {s} |-> given]
  <2>1. DOMAIN h \subseteq A /\ h \in [DOMAIN h -> SettingValues] /\ Edited(layer, s, given) = Over(h, layer)
    BY <1>3 DEF Edited
  <2> HIDE DEF h
  <2>2. h \in Partial(A, SettingValues)
    BY <2>1, PartialFunctions
  <2> QED
    BY <2>1, <2>2, OverIsPartial
<1> QED
  BY <1>2, <1>3

\* A build leaves the files and the shell alone.
LEMMA BuildKeeps ==
  ASSUME ConfigTyped, NEW flags \in FlagLayers, NEW environ \in Environs,
         NEW next \in {"prompt", "work"}, NEW notices, Builds(flags, environ, next, notices),
         UNCHANGED <<cfUser, cfProject, cfDotenv, cfShell, cfEdits>>
  PROVE  ConfigInv'
<1>1. NoLayer \in Environs /\ NoLayer \in FlagLayers
  BY NoLayerIs DEF Environs, FlagLayers
<1>2. CASE /\ cfProcess' = "down" /\ cfConfig' = NotBuilt /\ cfRead' = <<>> /\ cfNoticed' = {}
           /\ cfEnviron' = NoLayer /\ cfFlags' = NoLayer /\ cfShortFirst' \in BOOLEAN
  BY <1>1, <1>2 DEF ConfigInv, ConfigTyped
<1>3. CASE /\ cfProcess' = next /\ BuiltFrom(cfConfig', cfRead')
           /\ cfRead' = ReadLayers(environ, flags, cfShortFirst')
           /\ cfNoticed' = IF notices THEN Noticed(cfConfig') ELSE cfNoticed
           /\ cfEnviron' = environ /\ cfFlags' = flags /\ cfShortFirst' \in BOOLEAN
  <2>1. cfNoticed' \subseteq RoleNames
    BY <1>3, NoticedAreRoles DEF ConfigTyped
  <2>2. ConfigTyped'
    BY <1>3, <2>1 DEF ConfigTyped
  <2>3. ReadLayers(cfEnviron, cfFlags, cfShortFirst)' = cfRead'
    BY <1>3 DEF ReadLayers
  <2>4. BuiltFrom(cfConfig, cfRead)'
    BY <1>3 DEF BuiltFrom
  <2> QED
    BY <1>3, <2>2, <2>3, <2>4 DEF ConfigInv
<1> QED
  BY <1>2, <1>3, BuildsIs

LEMMA ConfigInitInv == ConfigInit => ConfigInv
<1> SUFFICES ASSUME ConfigInit PROVE ConfigInv
  OBVIOUS
<1>1. NoLayer \in Environs /\ NoLayer \in FlagLayers /\ NoLayer \in Layers
  BY NoLayerIs, LayersArePartial DEF Environs, FlagLayers
<1>2. cfShell \in Environs
  <2>1. PICK n \in SUBSET EnvNames : cfShell \in [n -> SettingValues]
    BY DEF ConfigInit
  <2> QED
    BY <2>1, PartialFunctions DEF Environs
<1>3. /\ cfUser = NoLayer /\ cfProject = NoLayer /\ cfDotenv = NoLayer /\ cfEnviron = NoLayer
      /\ cfShortFirst = FALSE /\ cfFlags = NoLayer /\ cfProcess = "down" /\ cfConfig = NotBuilt
      /\ cfRead = <<>> /\ cfNoticed = {} /\ cfEdits = 0
  BY DEF ConfigInit
<1>4. 0 \in 0..ConfigEdits
  BY ConfigAssumption
<1>5. ConfigTyped
  BY <1>1, <1>2, <1>3, <1>4 DEF ConfigTyped
<1> QED
  BY <1>3, <1>5 DEF ConfigInv

LEMMA ConfigNextInv == ConfigInv /\ [ConfigNext]_cfVars => ConfigInv'
<1> SUFFICES ASSUME ConfigInv, [ConfigNext]_cfVars PROVE ConfigInv'
  OBVIOUS
<1>1. ConfigTyped
  BY DEF ConfigInv
<1>2. ASSUME NEW flags \in Flags, Launch(flags) PROVE ConfigInv'
  <2>1. Loaded(cfShell) \in Environs /\ flags \in FlagLayers
    BY <1>1, LoadedIs DEF ConfigTyped, FlagLayers
  <2> QED
    BY <1>1, <1>2, <2>1, BuildKeeps DEF Launch
<1>3. CASE ReadAgain
  <2>1. Loaded(cfEnviron) \in Environs /\ cfFlags \in FlagLayers
    BY <1>1, LoadedIs DEF ConfigTyped
  <2> QED
    BY <1>1, <1>3, <2>1, BuildKeeps DEF ReadAgain
<1>4. CASE RequestEnds
  BY <1>4 DEF RequestEnds, ConfigInv, ConfigTyped, BuiltFrom
<1>5. CASE ConfigExit
  <2>1. NoLayer \in Environs /\ NoLayer \in FlagLayers
    BY NoLayerIs DEF Environs, FlagLayers
  <2> QED
    BY <1>5, <2>1 DEF ConfigExit, ConfigInv, ConfigTyped
<1>6. CASE EditFile
  <2>1. PICK given \in SettingValues \cup {UNSET} :
       \/ \E s \in AllSettings : cfUser' = Edited(cfUser, s, given) /\ UNCHANGED <<cfProject, cfDotenv>>
       \/ \E s \in AllSettings : cfProject' = Edited(cfProject, s, given) /\ UNCHANGED <<cfUser, cfDotenv>>
       \/ \E n \in EnvNames : cfDotenv' = Edited(cfDotenv, n, given) /\ UNCHANGED <<cfUser, cfProject>>
    BY <1>6 DEF EditFile
  <2>2. cfUser' \in Layers /\ cfProject' \in Layers /\ cfDotenv' \in Environs
    BY <1>1, <2>1, EditedIs, LayersArePartial DEF ConfigTyped, Environs
  <2>3. cfEdits' \in 0..ConfigEdits
    BY <1>1, <1>6, ConfigAssumption DEF EditFile, ConfigTyped
  <2> QED
    BY <1>1, <1>6, <2>2, <2>3 DEF EditFile, ConfigInv, ConfigTyped, BuiltFrom
<1>7. CASE UNCHANGED cfVars
  BY <1>7 DEF cfVars, ConfigInv, ConfigTyped, BuiltFrom, ReadLayers
<1> QED
  BY <1>2, <1>3, <1>4, <1>5, <1>6, <1>7 DEF ConfigNext

\* What a process has of its configuration, in every state of it.
THEOREM ConfigInvariant == ConfigSpec => []ConfigInv
  BY ConfigInitInv, ConfigNextInv, PTL DEF ConfigSpec

(***************************************************************************)
(* Every variable of the configuration keeps its type, and no value that   *)
(* validate refuses is in force.                                           *)
(***************************************************************************)
THEOREM ConfigTypeCorrect == ConfigSpec => []ConfigTypeOK
<1>1. ConfigInv => ConfigTypeOK
  <2> SUFFICES ASSUME ConfigInv PROVE ConfigTypeOK
    OBVIOUS
  <2>1. ConfigTyped
    BY DEF ConfigInv
  <2>2. CASE cfProcess = "down"
    <3>1. cfConfig = NotBuilt /\ cfRead = <<>>
      BY <2>2 DEF ConfigInv
    <3>2. cfConfig.built = FALSE
      BY <3>1 DEF NotBuilt
    <3> QED
      BY <2>1, <2>2, <3>1, <3>2 DEF ConfigTyped, ConfigTypeOK
  <2>3. CASE cfProcess # "down"
    <3>1. BuiltFrom(cfConfig, cfRead)
      BY <2>3 DEF ConfigInv
    <3>2. cfConfig.built = TRUE
      BY <3>1 DEF BuiltFrom, Built
    <3>3. cfRead # <<>>
      BY <3>1 DEF BuiltFrom, FiveLayers
    <3>4. \A s \in DOMAIN Flatten(cfConfig) : Flatten(cfConfig)[s] # BAD
      BY <3>1, NothingBadIsShown DEF BuiltFrom
    <3> QED
      BY <2>1, <2>3, <3>2, <3>3, <3>4 DEF ConfigTyped, ConfigTypeOK
  <2> QED
    BY <2>2, <2>3
<1> QED
  BY <1>1, ConfigInvariant, PTL

(***************************************************************************)
(* `rudra config get` names the layer the value in force came from, for    *)
(* every set of roles, keys, settings and names, and whatever the layers   *)
(* have.                                                                   *)
(***************************************************************************)
LEMMA SourcesHold ==
  ASSUME NEW layers \in FiveLayers, layers[1] = Builtin,
         NEW s \in DOMAIN Flatten(Built(DeepMerge(layers)))
  PROVE  LET config == Built(DeepMerge(layers))
             layer == layers[LayerIndex(SourceOf(config, s))]
             given == IF s \in DOMAIN layer THEN layer[s] ELSE layer[<<"model", "default", s[3]>>]
         IN  Flatten(config)[s] = given
<1> DEFINE m == DeepMerge(layers)
           config == Built(m)
           source == SourceOf(config, s)
           layer == layers[LayerIndex(source)]
<1>1. /\ m \in Merges /\ DOMAIN m.provenance = DOMAIN m.value
      /\ \A t \in AllSettings : t \in DOMAIN m.value <=> Gives(layers, t)
      /\ \A t \in DOMAIN m.value : \E j \in 1..5 :
           LastGives(layers, 5, t, j) /\ m.value[t] = layers[j][t] /\ m.provenance[t] = LAYER_NAMES[j]
      /\ PlainSettings \subseteq DOMAIN m.value
      /\ \A k \in ModelKeys : Base(k) \in DOMAIN m.value
  BY MergedIs
<1>2. s \in DOMAIN Flatten(Built(m))
  OBVIOUS
<1>3. config.provenance = m.provenance
  BY DEF Built
<1>4. DOMAIN layers = 1..5
  BY LenProperties DEF FiveLayers
<1> HIDE DEF m
<1>5. ASSUME NEW t \in DOMAIN m.value, source = m.provenance[t]
      PROVE  t \in DOMAIN layer /\ layer[t] = m.value[t]
  <2>1. PICK j \in 1..5 : LastGives(layers, 5, t, j) /\ m.value[t] = layers[j][t]
                          /\ m.provenance[t] = LAYER_NAMES[j]
    BY <1>1
  <2>2. LayerIndex(source) = j
    BY <1>5, <2>1, NamedLayers
  <2> QED
    BY <2>1, <2>2 DEF LastGives
<1>6. CASE s \in DOMAIN m.value
  <2>1. source = m.provenance[s]
    BY <1>1, <1>3, <1>6 DEF SourceOf
  <2>2. s \in DOMAIN layer /\ layer[s] = m.value[s]
    BY <1>5, <1>6, <2>1
  <2>3. Flatten(config)[s] = m.value[s]
    BY <1>1, <1>2, <1>6, ShownIs
  <2> QED
    BY <2>2, <2>3 DEF m
<1>7. CASE s \notin DOMAIN m.value
  <2>1. PICK r \in Tables(m), k \in ModelKeys :
              /\ s = Own(r, k) /\ s[1] = "model" /\ s[2] = r /\ s[3] = k
              /\ Flatten(config)[s] = IF s \in DOMAIN m.value THEN m.value[s] ELSE m.value[Base(k)]
    BY <1>1, <1>2, <1>7, ShownIs
  <2>2. Base(k) \in DOMAIN m.value /\ Base(k) = <<"model", "default", s[3]>>
    BY <1>1, <2>1 DEF Base
  <2>3. source = m.provenance[Base(k)]
    BY <1>1, <1>3, <1>7, <2>1, <2>2 DEF SourceOf
  <2>4. Base(k) \in DOMAIN layer /\ layer[Base(k)] = m.value[Base(k)]
    BY <1>5, <2>2, <2>3
  <2>5. Flatten(config)[s] = layer[Base(k)]
    BY <1>7, <2>1, <2>4
  <2>6. s \notin DOMAIN layer
    <3>1. s \in AllSettings
      BY <1>1, <2>1, TablesAre DEF AllSettings, ModelSettings, Own
    <3>2. \A j \in 1..5 : s \notin DOMAIN layers[j]
      BY <1>1, <1>4, <1>7, <3>1 DEF Gives
    <3>3. PICK j \in 1..5 : source = LAYER_NAMES[j]
      BY <1>1, <2>2, <2>3
    <3> QED
      BY <3>2, <3>3, NamedLayers
  <2> QED
    BY <2>2, <2>5, <2>6 DEF m
<1> QED
  BY <1>6, <1>7

\* The role whose own key the notice is about is one the project's file gave it for.
LEMMA CommittedIsNoticed ==
  ASSUME NEW layers \in FiveLayers, layers[1] = Builtin, NEW r \in RoleNames,
         LET config == Built(DeepMerge(layers))
             s == Own(Giver(layers, r, "api_key"), "api_key")
         IN  /\ <<r, "api_key">> \in DOMAIN config.models
             /\ config.models[<<r, "api_key">>] # UNSET
             /\ s \in DOMAIN layers[3] /\ \A i \in {4, 5} : s \notin DOMAIN layers[i]
  PROVE  Giver(layers, r, "api_key") \in Noticed(Built(DeepMerge(layers)))
<1> DEFINE m == DeepMerge(layers)
           config == Built(m)
           g == Giver(layers, r, "api_key")
           s == Own(g, "api_key")
<1>1. /\ m \in Merges /\ DOMAIN m.provenance = DOMAIN m.value
      /\ \A t \in AllSettings : t \in DOMAIN m.value <=> Gives(layers, t)
      /\ \A t \in DOMAIN m.value : \E j \in 1..5 :
           LastGives(layers, 5, t, j) /\ m.value[t] = layers[j][t] /\ m.provenance[t] = LAYER_NAMES[j]
      /\ \A k \in ModelKeys : Base(k) \in DOMAIN m.value
  BY MergedIs
<1>2. /\ <<r, "api_key">> \in DOMAIN config.models /\ config.models[<<r, "api_key">>] # UNSET
      /\ s \in DOMAIN layers[3] /\ \A i \in {4, 5} : s \notin DOMAIN layers[i]
  OBVIOUS
<1>3. config.provenance = m.provenance /\ config.models = BuildModels(m)
  BY DEF Built
<1>4. DOMAIN layers = 1..5
  BY LenProperties DEF FiveLayers
<1> HIDE DEF m, config, g
<1>5. r \in Tables(m) /\ "api_key" \in ModelKeys
  BY <1>2, <1>3 DEF BuildModels
<1>6. Own(r, "api_key") \in AllSettings /\ Base("api_key") \in AllSettings
  BY <1>5, ConfigAssumption DEF AllSettings, ModelSettings, Own, Base
<1>7. g = IF Own(r, "api_key") \in DOMAIN m.value THEN r ELSE "default"
  BY <1>1, <1>6 DEF g, Giver, Own
<1>8. g \in Tables(m) /\ g \in RoleNames
  BY <1>1, <1>5, <1>7, TablesAre
<1>9. /\ <<g, "api_key">> \in DOMAIN config.models
      /\ s \in DOMAIN m.value /\ config.models[<<g, "api_key">>] = m.value[s]
      /\ config.models[<<g, "api_key">>] = config.models[<<r, "api_key">>]
  <2>1. Own("default", "api_key") = Base("api_key") /\ Base("api_key") \in DOMAIN m.value
    BY <1>1, <1>5 DEF Own, Base
  <2>2. CASE Own(r, "api_key") \in DOMAIN m.value
    BY <1>1, <1>3, <1>5, <1>7, <2>2, ModelsAre
  <2>3. CASE Own(r, "api_key") \notin DOMAIN m.value
    <3>1. g = "default" /\ s = Base("api_key")
      BY <1>7, <2>1, <2>3
    <3>2. /\ <<g, "api_key">> \in DOMAIN BuildModels(m)
          /\ BuildModels(m)[<<g, "api_key">>] = m.value[s]
      <4>1. BuildModels(m)[<<g, "api_key">>] = m.value[s]
        <5>1. BuildModels(m)[<<g, "api_key">>] =
                IF Own(g, "api_key") \in DOMAIN m.value
                THEN m.value[Own(g, "api_key")] ELSE m.value[Base("api_key")]
          BY <1>1, <1>5, <1>8, ModelIs
        <5>2. Own(g, "api_key") = Base("api_key") /\ s = Base("api_key")
          BY <2>1, <3>1
        <5> QED
          BY <5>1, <5>2
      <4>2. <<g, "api_key">> \in DOMAIN BuildModels(m)
        BY <1>1, <1>5, <1>8, ModelsAre
      <4> QED
        BY <4>1, <4>2
    <3>3. BuildModels(m)[<<r, "api_key">>] = m.value[Base("api_key")]
      BY <1>1, <1>5, <2>3, ModelIs
    <3> QED
      BY <1>3, <2>1, <3>1, <3>2, <3>3
  <2> QED
    BY <2>2, <2>3
<1>10. m.provenance[s] = "project"
  <2>1. PICK j \in 1..5 : LastGives(layers, 5, s, j) /\ m.provenance[s] = LAYER_NAMES[j]
    BY <1>1, <1>9
  <2>2. j # 4 /\ j # 5
    BY <1>2, <2>1 DEF LastGives
  <2>3. ~(3 > j)
    BY <1>2, <2>1 DEF LastGives
  <2>4. j = 3
    BY <2>2, <2>3
  <2> QED
    BY <2>1, <2>4, NamedLayers
<1>11. g \in Noticed(config)
  BY <1>1, <1>2, <1>3, <1>8, <1>9, <1>10 DEF Noticed, Own
<1> QED
  BY <1>11 DEF g, config, m

(***************************************************************************)
(* What is reported of the settings is true, in every process: the layer a *)
(* value is said to come from, and the role whose committed key is named.  *)
(***************************************************************************)
THEOREM ReportsAreTrue == ConfigSpec => WhatIsReportedIsTrue
<1>1. ConfigInv => SourcesAreTrue
  <2> SUFFICES ASSUME ConfigInv, cfConfig.built PROVE SourcesAreTrue
    BY DEF SourcesAreTrue
  <2>1. cfProcess # "down"
    BY DEF ConfigInv, NotBuilt
  <2>2. BuiltFrom(cfConfig, cfRead)
    BY <2>1 DEF ConfigInv
  <2> QED
    BY <2>2, SourcesHold DEF BuiltFrom, SourcesAreTrue
<1> DEFINE A ==
      (cfProcess = "down" /\ cfProcess' = "prompt") =>
       \A r \in RoleNames :
         (/\ <<r, "api_key">> \in DOMAIN cfConfig'.models
          /\ cfConfig'.models[<<r, "api_key">>] # UNSET
          /\ LET s == <<"model", Giver(cfRead', r, "api_key"), "api_key">>
             IN  /\ s \in DOMAIN cfProject
                 /\ \A i \in {4, 5} : s \notin DOMAIN cfRead'[i])
         => Giver(cfRead', r, "api_key") \in cfNoticed'
<1>2. ConfigInv /\ [ConfigNext]_cfVars => [A]_cfVars
  <2> SUFFICES ASSUME ConfigInv, ConfigNext, cfProcess = "down", cfProcess' = "prompt",
                      NEW r \in RoleNames,
                      <<r, "api_key">> \in DOMAIN cfConfig'.models,
                      cfConfig'.models[<<r, "api_key">>] # UNSET,
                      <<"model", Giver(cfRead', r, "api_key"), "api_key">> \in DOMAIN cfProject,
                      \A i \in {4, 5} :
                        <<"model", Giver(cfRead', r, "api_key"), "api_key">> \notin DOMAIN cfRead'[i]
               PROVE  Giver(cfRead', r, "api_key") \in cfNoticed'
    OBVIOUS
  <2>1. ConfigTyped
    BY DEF ConfigInv
  <2>2. PICK flags \in Flags : Launch(flags)
    BY DEF ConfigNext, ReadAgain, RequestEnds, ConfigExit, EditFile
  <2>3. Loaded(cfShell) \in Environs /\ flags \in FlagLayers
    BY <2>1, LoadedIs DEF ConfigTyped, FlagLayers
  <2>4. /\ BuiltFrom(cfConfig', cfRead') /\ cfRead'[3] = cfProject
        /\ cfNoticed' = Noticed(cfConfig')
    BY <2>1, <2>2, <2>3, BuildsIs DEF Launch
  <2> QED
    BY <2>4, CommittedIsNoticed DEF BuiltFrom, Own
<1>3. ConfigSpec => [][ConfigNext]_cfVars
  BY PTL DEF ConfigSpec
<1>4. ConfigSpec => [][A]_cfVars
  BY <1>2, <1>3, ConfigInvariant, PTL
<1>5. ConfigSpec => []SourcesAreTrue
  BY <1>1, ConfigInvariant, PTL
<1> QED
  BY <1>4, <1>5, PTL DEF WhatIsReportedIsTrue, CommittedKeysAreNoticed

(***************************************************************************)
(* A request runs under the files as they are, each setting as its highest *)
(* layer has it, and under the flags the process was given, however the    *)
(* files are edited between two requests.                                  *)
(***************************************************************************)
THEOREM RequestsStayCurrent == ConfigSpec => RequestsAreCurrent
<1>1. ConfigInv => RequestsSeeTheFiles
  <2> SUFFICES ASSUME ConfigInv, cfProcess = "work" PROVE RequestsSeeTheFiles
    BY DEF RequestsSeeTheFiles
  <2>1. BuiltFrom(cfConfig, cfRead) /\ cfRead = ReadLayers(cfEnviron, cfFlags, cfShortFirst)
    BY DEF ConfigInv
  <2> DEFINE m == DeepMerge(cfRead)
  <2>2. /\ m \in Merges /\ \A s \in AllSettings : s \in DOMAIN m.value <=> Gives(cfRead, s)
        /\ \A s \in DOMAIN m.value : m.value[s] = Highest(cfRead, s)
        /\ PlainSettings \subseteq DOMAIN m.value
        /\ \A k \in ModelKeys : Base(k) \in DOMAIN m.value
    BY <2>1, MergedIs DEF BuiltFrom
  <2>3. cfConfig.plain = Sections(m) /\ cfConfig.models = BuildModels(m)
    BY <2>1 DEF BuiltFrom, Built
  <2>4. \A s \in DOMAIN Flatten(cfConfig) : Flatten(cfConfig)[s] # BAD
    BY <2>1, NothingBadIsShown DEF BuiltFrom
  <2> HIDE DEF m
  <2>5. \A s \in PlainSettings : cfConfig.plain[s] = Highest(cfRead, s)
    BY <2>2, <2>3 DEF Sections
  <2>6. ASSUME NEW p \in DOMAIN cfConfig.models
        PROVE  cfConfig.models[p] = IF Gives(cfRead, <<"model", p[1], p[2]>>)
                                    THEN Highest(cfRead, <<"model", p[1], p[2]>>)
                                    ELSE Highest(cfRead, <<"model", "default", p[2]>>)
    <3>1. p \in Tables(m) \X ModelKeys
      BY <2>3 DEF BuildModels
    <3>2. p[1] \in Tables(m) /\ p[2] \in ModelKeys /\ p = <<p[1], p[2]>>
      BY <3>1
    <3>3. Own(p[1], p[2]) \in AllSettings
      BY <2>2, <3>2, TablesAre DEF AllSettings, ModelSettings, Own
    <3>4. cfConfig.models[p] = IF Own(p[1], p[2]) \in DOMAIN m.value
                               THEN m.value[Own(p[1], p[2])] ELSE m.value[Base(p[2])]
      <4> DEFINE r == p[1]
                 k == p[2]
      <4>1. r \in Tables(m) /\ k \in ModelKeys /\ p = <<r, k>>
        BY <3>2
      <4> HIDE DEF r, k
      <4>2. BuildModels(m)[<<r, k>>] = IF Own(r, k) \in DOMAIN m.value
                                       THEN m.value[Own(r, k)] ELSE m.value[Base(k)]
        BY <2>2, <4>1, ModelsAre
      <4> QED
        BY <2>3, <4>1, <4>2 DEF r, k
    <3> QED
      BY <2>2, <3>2, <3>3, <3>4 DEF Own, Base
  <2> QED
    BY <2>1, <2>4, <2>5, <2>6 DEF RequestsSeeTheFiles
<1> DEFINE A == cfProcess' = "work" => \A s \in DOMAIN cfFlags : cfConfig'.plain[s] = cfFlags[s]
<1>2. ASSUME NEW config, NEW layers, NEW flags \in FlagLayers, BuiltFrom(config, layers), layers[5] = flags
      PROVE  \A s \in DOMAIN flags : config.plain[s] = flags[s]
  <2> SUFFICES ASSUME NEW s \in DOMAIN flags PROVE config.plain[s] = flags[s]
    OBVIOUS
  <2> DEFINE m == DeepMerge(layers)
  <2>1. /\ PlainSettings \subseteq DOMAIN m.value
        /\ \A t \in DOMAIN m.value : \E j \in 1..5 : LastGives(layers, 5, t, j) /\ m.value[t] = layers[j][t]
    BY <1>2, MergedIs DEF BuiltFrom
  <2>2. s \in PlainSettings
    BY FlagsAre
  <2>3. config.plain[s] = m.value[s]
    BY <1>2, <2>2 DEF BuiltFrom, Built, Sections
  <2> HIDE DEF m
  <2>4. PICK j \in 1..5 : LastGives(layers, 5, s, j) /\ m.value[s] = layers[j][s]
    BY <2>1, <2>2
  <2>5. s \in DOMAIN layers[5] /\ 5 \in 1..5
    BY <1>2
  <2>6. ~(5 > j)
    BY <2>4, <2>5 DEF LastGives
  <2>7. j = 5
    BY <2>6
  <2> QED
    BY <1>2, <2>3, <2>4, <2>7
<1>3. ConfigInv /\ [ConfigNext]_cfVars => [A]_cfVars
  <2> SUFFICES ASSUME ConfigInv, ConfigNext, cfProcess' = "work"
               PROVE  \A s \in DOMAIN cfFlags : cfConfig'.plain[s] = cfFlags[s]
    OBVIOUS
  <2>1. ConfigTyped /\ cfFlags \in FlagLayers
    BY DEF ConfigInv, ConfigTyped
  <2>2. CASE ReadAgain
    <3>1. Loaded(cfEnviron) \in Environs
      BY <2>1, LoadedIs DEF ConfigTyped
    <3>2. BuiltFrom(cfConfig', cfRead') /\ cfRead'[5] = cfFlags
      BY <2>1, <2>2, <3>1, BuildsIs DEF ReadAgain
    <3> QED
      BY <1>2, <2>1, <3>2
  <2>3. ASSUME NEW flags \in Flags, Launch(flags) PROVE FALSE
    <3>1. cfProcess' \in {"down", "prompt"}
      <4> HIDE DEF A
      <4> QED
        BY <2>3, Zenon DEF Launch, Builds
    <3> QED
      BY <3>1
  <2>4. ~RequestEnds /\ ~ConfigExit /\ ~EditFile
    BY DEF RequestEnds, ConfigExit, EditFile
  <2> QED
    BY <2>2, <2>3, <2>4 DEF ConfigNext
<1>4. ConfigSpec => [][ConfigNext]_cfVars
  BY PTL DEF ConfigSpec
<1>5. ConfigSpec => [][A]_cfVars
  BY <1>3, <1>4, ConfigInvariant, PTL
<1>6. ConfigSpec => []RequestsSeeTheFiles
  BY <1>1, ConfigInvariant, PTL
<1> QED
  BY <1>5, <1>6, PTL DEF RequestsAreCurrent, FlagsStand

-----------------------------------------------------------------------------
(***************************************************************************)
(* The three side by side: each of them takes its own steps or stands      *)
(* still, so a behaviour of the whole is one of the session and one of the *)
(* configuration, and what is invariant of the driver stays so.            *)
(***************************************************************************)
LEMMA ProcessParts ==
  /\ ProcessInit => Init /\ SessionInit /\ ConfigInit
  /\ [ProcessNext]_<<part, vars, ssVars, cfVars>> =>
       [Next]_vars /\ [SessionNext]_ssVars /\ [ConfigNext]_cfVars
<1>1. ProcessInit => Init /\ SessionInit /\ ConfigInit
  BY DEF ProcessInit
<1>2. UNCHANGED <<part, vars, ssVars, cfVars>> =>
        UNCHANGED vars /\ UNCHANGED ssVars /\ UNCHANGED cfVars
  OBVIOUS
<1>3. ProcessNext => [Next]_vars /\ [SessionNext]_ssVars /\ [ConfigNext]_cfVars
  BY DEF ProcessNext
<1> QED
  BY <1>1, <1>2, <1>3

\* Sessions and configurations beside a driver behave as their own specifications say.
THEOREM ProcessImplementsItsParts == ProcessSpec => SessionSpec /\ ConfigSpec
  BY ProcessParts, PTL DEF ProcessSpec, SessionSpec, ConfigSpec

(***************************************************************************)
(* The variables of driver, session and configuration keep their types in  *)
(* the machine TLC runs, for every value of its constants.                 *)
(***************************************************************************)
THEOREM ProcessTypeCorrect == ProcessSpec => []ProcessTypeOK
<1>1. ProcessInit => IInv
  BY ProcessParts, IInvInit
<1>2. IInv /\ [ProcessNext]_<<part, vars, ssVars, cfVars>> => IInv'
  BY ProcessParts, IInvStep
<1>3. ProcessSpec => []IInv
  BY <1>1, <1>2, PTL DEF ProcessSpec
<1>4. IInv /\ SessionTypeOK /\ ConfigTypeOK => ProcessTypeOK
  BY WorkTypes DEF ProcessTypeOK
<1> QED
  BY <1>3, <1>4, ProcessImplementsItsParts, SessionTypeCorrect, ConfigTypeCorrect, PTL

=============================================================================
