--------------------------- MODULE LogRotate_proof ---------------------------
(***************************************************************************)
(* Proofs about the log file and its archives: for any number of threads,  *)
(* processes and archives, no archive is overwritten, the log is in order, *)
(* and the newest archives are the ones kept.                              *)
(***************************************************************************)
EXTENDS LogRotate, SequenceTheorems, FiniteSetTheorems, TLAPS

-----------------------------------------------------------------------------
(* Types and locks.                                                        *)

Rotating == {"check", "list", "roll", "unlk"}
Locking == Rotating \cup {"setlk", "unmutex"}
PCs == Locking \cup {"idle", "write", "stat", "trylock"}
Lines == Threads \X Nat \X Nat

LogType ==
    /\ data \in Seq(Seq(Lines)) /\ lines \in Nat /\ amiss \in BOOLEAN
    /\ dir \in [Names -> {NONE} \cup 1 .. Len(data)]
    /\ pc \in [Threads -> PCs] /\ files \in [Threads -> Seq(Names)]
    /\ line \in [Threads -> Lines \cup {NoLine}] /\ fd \in [Threads -> Int]
    /\ \A t \in Threads : pc[t] = "write" => fd[t] \in 1 .. Len(data)
    /\ \A t \in Threads : pc[t] # "idle" => line[t] \in Lines

LEMMA StepSplit ==
  ASSUME [Next]_vars
  PROVE  \/ \E t \in Threads :
              \/ Open(t) \/ Write(t) \/ Stat(t) \/ TryLock(t) \/ SetLk(t) \/ Check(t)
              \/ AddArchiveFiles(t) \/ RollFiles(t) \/ RollBase(t) \/ Unlock(t) \/ UnlockMutex(t)
         \/ \E p \in Procs : Crash(p)
         \/ UNCHANGED vars
  BY DEF Next, Step

LEMMA GotoWhere ==
  ASSUME LogType, NEW t \in Threads, NEW where \in PCs, Goto(t, where)
  PROVE  /\ pc' \in [Threads -> PCs] /\ line' \in [Threads -> Lines \cup {NoLine}]
         /\ pc'[t] = where /\ \A u \in Threads \ {t} : pc'[u] = pc[u] /\ line'[u] = line[u]
         /\ where # "idle" => line'[t] = line[t]
<1>1. /\ pc' = [pc EXCEPT ![t] = where]
      /\ line' = [line EXCEPT ![t] = NoLine] \/ line' = line
      /\ where # "idle" => line' = line
  BY DEF Goto
<1> QED BY <1>1 DEF LogType

\* A step of a thread that neither opens nor writes.
LEMMA TypeMove ==
  ASSUME LogType, NEW t \in Threads, NEW where \in PCs \ {"write"}, Goto(t, where),
         pc[t] # "idle", UNCHANGED <<data, fd, lines>>, amiss' \in BOOLEAN,
         dir' \in [Names -> {NONE} \cup 1 .. Len(data)], files' \in [Threads -> Seq(Names)]
  PROVE  LogType'
<1>1. /\ pc' \in [Threads -> PCs] /\ line' \in [Threads -> Lines \cup {NoLine}]
      /\ pc'[t] = where /\ \A u \in Threads \ {t} : pc'[u] = pc[u] /\ line'[u] = line[u]
      /\ where # "idle" => line'[t] = line[t]
  BY GotoWhere
<1>2. \A u \in Threads : pc'[u] = "write" => fd'[u] \in 1 .. Len(data')
  BY <1>1 DEF LogType
<1>3. \A u \in Threads : pc'[u] # "idle" => line'[u] \in Lines
  BY <1>1 DEF LogType
<1> QED BY <1>1, <1>2, <1>3 DEF LogType

LEMMA UnlinkType ==
  ASSUME LogType, NEW n \in Names, Unlink(n)
  PROVE  dir' \in [Names -> {NONE} \cup 1 .. Len(data)]
  BY DEF LogType, Unlink
LEMMA RenameType ==
  ASSUME LogType, NEW m \in Names, NEW n \in Names, Rename(m, n)
  PROVE  dir' \in [Names -> {NONE} \cup 1 .. Len(data)]
  BY DEF LogType, Rename
LEMMA FrontOf ==
  ASSUME NEW f \in Seq(Names), f # <<>>
  PROVE  /\ Len(f) \in Nat \ {0} /\ Last(f) \in Names /\ Last(f) = f[Len(f)]
         /\ Front(f) \in Seq(Names) /\ Len(Front(f)) = Len(f) - 1
         /\ \A i \in 1 .. Len(f) - 1 : Front(f)[i] = f[i]
<1>1. Len(f) \in Nat \ {0} /\ \A i \in 1 .. Len(f) : f[i] \in Names
  BY EmptySeq, LenProperties, ElementOfSeq
<1>2. /\ SubSeq(f, 1, Len(f) - 1) \in Seq(Names)
      /\ Len(SubSeq(f, 1, Len(f) - 1)) = IF 1 <= Len(f) - 1 THEN Len(f) - 1 - 1 + 1 ELSE 0
      /\ \A i \in 1 .. (Len(f) - 1) - 1 + 1 : SubSeq(f, 1, Len(f) - 1)[i] = f[1 + i - 1]
  <2>1. \A i \in 1 .. Len(f) - 1 : f[i] \in Names
    BY <1>1
  <2> QED BY <1>1, <2>1, SubSeqProperties
<1>3. Front(f) = SubSeq(f, 1, Len(f) - 1) /\ Last(f) = f[Len(f)]
  BY DEF Last, Front
<1>4. /\ Len(SubSeq(f, 1, Len(f) - 1)) = Len(f) - 1
      /\ \A i \in 1 .. Len(f) - 1 : SubSeq(f, 1, Len(f) - 1)[i] = f[i]
  <2>1. Len(SubSeq(f, 1, Len(f) - 1)) = Len(f) - 1
    <3>1. CASE 1 <= Len(f) - 1
      <4>1. Len(f) - 1 - 1 + 1 = Len(f) - 1
        BY <1>1
      <4> QED BY <1>2, <3>1, <4>1, Zenon
    <3>2. CASE ~(1 <= Len(f) - 1)
      <4>1. \A n \in Nat \ {0} : ~(1 <= n - 1) => n - 1 = 0
        OBVIOUS
      <4>2. Len(f) - 1 = 0
        BY <1>1, <3>2, <4>1, Zenon
      <4> QED BY <1>2, <3>2, <4>2, Zenon
    <3> QED BY <3>1, <3>2
  <2>2. ASSUME NEW i \in 1 .. Len(f) - 1 PROVE SubSeq(f, 1, Len(f) - 1)[i] = f[i]
    <3>1. 1 + i - 1 = i /\ i \in 1 .. (Len(f) - 1) - 1 + 1
      BY <1>1
    <3> QED BY <1>2, <3>1, Zenon
  <2> QED BY <2>1, <2>2
<1>5. f[Len(f)] \in Names
  BY <1>1
<1> QED BY <1>1, <1>2, <1>3, <1>4, <1>5

LEMMA Numbers ==
  /\ MaxCount \in Nat \ {0} /\ Base \in Names /\ Other \in Names /\ 0 .. MaxCount \subseteq Names
  /\ Base = -1 /\ Other = -2 /\ NONE = -1 /\ Base \notin 0 .. MaxCount /\ Other \notin 0 .. MaxCount
  /\ \A n \in Names : n \in Int /\ n >= -2 /\ n <= MaxCount
  BY LogAssumption DEF Base, Other, Names, NONE

\* What the directory holds at the start.
LEMMA Starts ==
  ASSUME Init
  PROVE  \E old \in SUBSET (0 .. MaxCount - 1), stray \in BOOLEAN :
           /\ \A n \in old : n \in Names /\ n # Base /\ n # Other
           /\ data \in Seq(Seq(Lines)) /\ Len(data) \in Nat \ {0} /\ Inodes = 1 .. Len(data)
           /\ \A i \in Inodes : DOMAIN data[i] = {}
           /\ dir \in [Names -> {NONE} \cup 1 .. Len(data)]
           /\ \A n \in Names \ old : dir[n] = IF stray /\ n = Other THEN 1 ELSE NONE
           /\ \A n \in old : dir[n] \in 2 .. Len(data)
           /\ \A n, m \in old : n < m => dir[n] > dir[m]
           /\ \A i \in 2 .. Len(data) : \E n \in old : dir[n] = i
           /\ gone = IF stray THEN {} ELSE {1}
<1>1. PICK old \in Olds, stray \in BOOLEAN :
        /\ data = [i \in 1 .. Cardinality(old) + 1 |-> <<>>]
        /\ dir = [n \in Names |->
              IF n \in old THEN Cardinality({m \in old : m >= n}) + 1
              ELSE IF stray /\ n = Other THEN 1 ELSE NONE]
        /\ gone = IF stray THEN {} ELSE {1}
  BY DEF Init
<1>2. old \in SUBSET (0 .. MaxCount - 1) /\ MaxCount - 1 \in Nat
  BY LogAssumption
<1>3. \A n \in old : n \in Int /\ n \in Names /\ n # Base /\ n # Other
  BY <1>2, Numbers
<1>4. IsFiniteSet(old) /\ Cardinality(old) \in Nat
  <2>1. IsFiniteSet(0 .. MaxCount - 1)
    BY <1>2, FS_Interval
  <2> QED BY <1>2, <2>1, FS_Subset, FS_CardinalityType
<1> DEFINE c == Cardinality(old)
           up(n) == {m \in old : m >= n}
<1>5. data \in Seq(Seq(Lines)) /\ Len(data) = c + 1 /\ Inodes = 1 .. c + 1
  <2>1. <<>> \in Seq(Lines) /\ c + 1 \in Nat
    BY <1>4, EmptySeq
  <2>2. data \in [1 .. c + 1 -> Seq(Lines)]
    BY <1>1, <2>1
  <2> QED BY <2>1, <2>2 DEF Inodes
<1>6. \A i \in Inodes : DOMAIN data[i] = {}
  BY <1>1, <1>5
<1>7. \A n \in old : IsFiniteSet(up(n)) /\ Cardinality(up(n)) \in 1 .. c
  <2>1. ASSUME NEW n \in old PROVE IsFiniteSet(up(n)) /\ Cardinality(up(n)) \in 1 .. c
    <3>1. up(n) \in SUBSET old /\ n \in up(n)
      BY <1>3, <2>1
    <3>2. IsFiniteSet(up(n)) /\ Cardinality(up(n)) <= c /\ Cardinality(up(n)) \in Nat
      BY <1>4, <3>1, FS_Subset, FS_CardinalityType
    <3>3. Cardinality(up(n)) # 0
      BY <3>1, <3>2, FS_EmptySet
    <3> QED BY <1>4, <3>2, <3>3
  <2> QED BY <2>1
<1>8. \A n, m \in old : n < m => Cardinality(up(m)) < Cardinality(up(n))
  <2>1. ASSUME NEW n \in old, NEW m \in old, n < m PROVE Cardinality(up(m)) < Cardinality(up(n))
    <3>1. up(m) \in SUBSET (up(n) \ {n}) /\ n \in up(n)
      BY <1>3, <2>1
    <3>2. IsFiniteSet(up(n) \ {n}) /\ Cardinality(up(n) \ {n}) = Cardinality(up(n)) - 1
      BY <1>7, <3>1, FS_RemoveElement
    <3>3. Cardinality(up(m)) <= Cardinality(up(n)) - 1
      BY <3>1, <3>2, FS_Subset
    <3>4. Cardinality(up(m)) \in Nat /\ Cardinality(up(n)) \in Nat
      BY <1>7, <2>1
    <3> HIDE DEF up
    <3> QED BY <3>3, <3>4
  <2> QED BY <2>1
<1> DEFINE rank == [n \in old |-> Cardinality(up(n))]
<1> HIDE DEF c, up
<1>9. c \in Nat
  BY <1>4 DEF c
<1>10. rank \in [old -> 1 .. c]
  BY <1>7
<1>11. \A n, m \in old : n < m => rank[m] < rank[n]
  BY <1>8
<1>12. \A n \in old : dir[n] = rank[n] + 1
  BY <1>1, <1>3 DEF up
<1> HIDE DEF rank
<1>13. \A i \in 2 .. c + 1 : \E n \in old : dir[n] = i
  <2>1. rank \in Injection(old, 1 .. c)
    <3>1. \A n, m \in old : n # m => rank[n] # rank[m]
      BY <1>3, <1>9, <1>10, <1>11
    <3> QED BY <1>10, <3>1 DEF Injection, IsInjective
  <2>2. IsFiniteSet(1 .. c) /\ Cardinality(1 .. c) = c
    BY <1>9, FS_Interval
  <2>3. rank \in Surjection(old, 1 .. c)
    BY <2>1, <2>2, FS_Injection DEF c
  <2>4. ASSUME NEW i \in 2 .. c + 1 PROVE \E n \in old : dir[n] = i
    <3>1. i - 1 \in 1 .. c /\ i - 1 + 1 = i
      BY <1>9, <2>4
    <3>2. PICK n \in old : rank[n] = i - 1
      BY <2>3, <3>1 DEF Surjection
    <3> QED BY <1>12, <3>1, <3>2
  <2> QED BY <2>4
<1>14. \A n \in Names \ old : dir[n] = IF stray /\ n = Other THEN 1 ELSE NONE
  BY <1>1
<1>15. \A n \in old : dir[n] \in 2 .. c + 1
  BY <1>12, <1>9, <1>10
<1>16. dir \in [Names -> {NONE} \cup 1 .. c + 1]
  <2>1. \A n \in Names : dir[n] \in {NONE} \cup 1 .. c + 1
    BY <1>14, <1>15, <1>9
  <2>2. dir = [n \in Names |-> dir[n]]
    BY <1>1
  <2> QED BY <2>1, <2>2
<1>17. \A n, m \in old : n < m => dir[n] > dir[m]
  BY <1>12, <1>9, <1>10, <1>11
<1>18. /\ data \in Seq(Seq(Lines)) /\ Len(data) \in Nat \ {0} /\ Inodes = 1 .. Len(data)
       /\ Len(data) = c + 1
  BY <1>5, <1>9 DEF c
<1>19. \A n \in old : n \in Names /\ n # Base /\ n # Other
  BY <1>3
<1>20. old \in SUBSET (0 .. MaxCount - 1) /\ gone = IF stray THEN {} ELSE {1}
  BY <1>1, <1>2
<1>21. /\ dir \in [Names -> {NONE} \cup 1 .. Len(data)]
       /\ \A n \in old : dir[n] \in 2 .. Len(data)
       /\ \A i \in 2 .. Len(data) : \E n \in old : dir[n] = i
  BY <1>13, <1>16, <1>15, <1>18
<1> QED BY <1>6, <1>14, <1>17, <1>18, <1>19, <1>20, <1>21

LEMMA TypeInit ==
  ASSUME Init
  PROVE  LogType
<1>1. <<>> \in Seq(Names)
  BY EmptySeq
<1>2. data \in Seq(Seq(Lines)) /\ dir \in [Names -> {NONE} \cup 1 .. Len(data)]
  BY Starts
<1>3. data \in Seq(Seq(Lines)) /\ dir \in [Names -> {NONE} \cup 1 .. Len(data)]
  BY <1>2
<1>4. /\ lines = 0 /\ amiss = FALSE /\ pc = [t \in Threads |-> "idle"]
      /\ files = [t \in Threads |-> <<>>] /\ line = [t \in Threads |-> NoLine]
      /\ fd = [t \in Threads |-> NONE]
  BY DEF Init
<1>5. lines \in Nat /\ amiss \in BOOLEAN /\ files \in [Threads -> Seq(Names)]
  BY <1>1, <1>4
<1>6. /\ pc \in [Threads -> PCs] /\ line \in [Threads -> Lines \cup {NoLine}]
      /\ fd \in [Threads -> Int] /\ \A t \in Threads : pc[t] = "idle"
  BY <1>4 DEF PCs, NONE
<1> QED BY <1>3, <1>5, <1>6 DEF LogType

\* A list that add_archive_files may make.
LEMMA ListOf ==
  ASSUME NEW left \in SUBSET Archives, NEW f \in SetToSeqs(Archives \ left)
  PROVE  /\ f \in Seq(Names) /\ Len(f) = Cardinality(Archives \ left) /\ Len(f) \in Nat /\ DOMAIN f = 1 .. Len(f)
         /\ f \in [1 .. Len(f) -> Archives] /\ \A i \in 1 .. Len(f) : f[i] \in Archives
         /\ \A i, j \in 1 .. Len(f) : i # j => f[i] # f[j]
<1>1. IsFiniteSet(Archives) /\ Archives \subseteq Names
  <2>1. IsFiniteSet(Names) /\ Archives \subseteq Names
    BY FS_Interval, Numbers DEF Names, Archives
  <2> QED BY <2>1, FS_Subset
<1>2. Cardinality(Archives \ left) \in Nat
  <2>1. Archives \ left \in SUBSET Archives
    OBVIOUS
  <2> QED BY <1>1, <2>1, FS_Subset, FS_CardinalityType
<1>3. /\ f \in [1 .. Cardinality(Archives \ left) -> Archives \ left]
      /\ \A i, j \in 1 .. Cardinality(Archives \ left) : i # j => f[i] # f[j]
  BY <1>2 DEF SetToSeqs
<1>4. f \in [1 .. Cardinality(Archives \ left) -> Archives]
  BY <1>3
<1>5. \A i \in 1 .. Cardinality(Archives \ left) : f[i] \in Archives /\ f[i] \in Names
  BY <1>1, <1>3
<1>6. f \in Seq(Names) /\ Len(f) = Cardinality(Archives \ left)
      /\ DOMAIN f = 1 .. Cardinality(Archives \ left)
  <2> DEFINE c == Cardinality(Archives \ left)
  <2>1. f \in [1 .. c -> Names] /\ c \in Nat
    BY <1>2, <1>3, <1>5
  <2> HIDE DEF c
  <2>2. f \in Seq(Names) /\ Len(f) = c /\ DOMAIN f = 1 .. c
    BY <2>1
  <2> QED BY <2>2 DEF c
<1> QED BY <1>2, <1>3, <1>5, <1>6, <1>4

LEMMA TypeStep ==
  ASSUME LogType, [Next]_vars
  PROVE  LogType'
<1> USE DEF PCs, Locking, Rotating
<1>1. ASSUME NEW t \in Threads, Open(t) PROVE LogType'
  <2>1. PICK len \in Lens : line' = [line EXCEPT ![t] = <<t, lines + 1, len>>]
    BY <1>1 DEF Open
  <2>2. <<t, lines + 1, len>> \in Lines /\ lines' = lines + 1
    BY <1>1, LogAssumption DEF Lines, LogType, Open
  <2>3. pc' = [pc EXCEPT ![t] = "write"] /\ UNCHANGED files
    BY <1>1 DEF Open
  <2>4. Len(data) \in Nat /\ <<>> \in Seq(Lines)
    BY EmptySeq, LenProperties DEF LogType
  <2>5. /\ data' \in Seq(Seq(Lines)) /\ Len(data') >= Len(data) /\ Len(data') \in Nat
        /\ fd'[t] \in 1 .. Len(data') /\ fd' \in [Threads -> Int]
        /\ \A u \in Threads \ {t} : fd'[u] = fd[u]
        /\ dir' \in [Names -> {NONE} \cup 1 .. Len(data')]
    <3>1. CASE dir[Base] # NONE
      BY <1>1, <2>4, <3>1, Numbers, SMTT(30) DEF Open, LogType
    <3>2. CASE dir[Base] = NONE
      <4>1. data' \in Seq(Seq(Lines)) /\ Len(data') = Len(data) + 1
        <5>1. data \in Seq(Seq(Lines)) /\ data' = Append(data, <<>>)
          BY <1>1, <3>2 DEF Open, LogType
        <5> QED BY <2>4, <5>1, AppendProperties
      <4>2. /\ dir' = [dir EXCEPT ![Base] = Len(data) + 1]
            /\ fd' = [fd EXCEPT ![t] = Len(data) + 1]
        BY <1>1, <3>2 DEF Open
      <4> QED BY <2>4, <4>1, <4>2, Numbers DEF LogType
    <3> QED BY <3>1, <3>2
  <2>6. /\ lines' \in Nat /\ files' \in [Threads -> Seq(Names)] /\ pc' \in [Threads -> PCs]
        /\ amiss' \in BOOLEAN
    BY <1>1, <2>2, <2>3 DEF LogType, Open
  <2>7. line' \in [Threads -> Lines \cup {NoLine}]
    BY <2>1, <2>2 DEF LogType
  <2>8. \A u \in Threads : pc'[u] = "write" => fd'[u] \in 1 .. Len(data')
    BY <2>3, <2>4, <2>5 DEF LogType
  <2>9. \A u \in Threads : pc'[u] # "idle" => line'[u] \in Lines
    BY <2>1, <2>2, <2>3 DEF LogType
  <2> QED BY <2>5, <2>6, <2>7, <2>8, <2>9 DEF LogType
<1>2. ASSUME NEW t \in Threads, Write(t) PROVE LogType'
  <2>1. PICK where \in {"idle", "stat"} : Goto(t, where)
    BY <1>2 DEF Write
  <2>2. /\ pc' \in [Threads -> PCs] /\ line' \in [Threads -> Lines \cup {NoLine}]
        /\ pc'[t] = where /\ \A u \in Threads \ {t} : pc'[u] = pc[u] /\ line'[u] = line[u]
        /\ where # "idle" => line'[t] = line[t]
    BY <2>1, GotoWhere
  <2>3. data' \in Seq(Seq(Lines)) /\ Len(data') = Len(data)
    <3>1. pc[t] = "write" /\ line[t] \in Lines /\ fd[t] \in 1 .. Len(data)
      BY <1>2 DEF Write, LogType
    <3>2. data[fd[t]] \in Seq(Lines)
      BY <3>1, ElementOfSeq DEF LogType
    <3>3. Append(data[fd[t]], line[t]) \in Seq(Lines)
      BY <3>1, <3>2, AppendProperties
    <3>4. [data EXCEPT ![fd[t]] = Append(data[fd[t]], line[t])] \in Seq(Seq(Lines))
          /\ Len([data EXCEPT ![fd[t]] = Append(data[fd[t]], line[t])]) = Len(data)
      BY <3>1, <3>3, ExceptSeq DEF LogType
    <3> QED BY <1>2, <3>4 DEF Write, LogType
  <2>4. fd' = [fd EXCEPT ![t] = NONE] /\ UNCHANGED <<dir, amiss, files, lines>>
    BY <1>2 DEF Write
  <2>5. /\ dir' \in [Names -> {NONE} \cup 1 .. Len(data')] /\ fd' \in [Threads -> Int]
        /\ lines' \in Nat /\ files' \in [Threads -> Seq(Names)] /\ amiss' \in BOOLEAN
    BY <2>3, <2>4, Numbers DEF LogType
  <2>6. \A u \in Threads : pc'[u] = "write" => fd'[u] \in 1 .. Len(data')
    BY <2>2, <2>3, <2>4 DEF LogType
  <2>7. \A u \in Threads : pc'[u] # "idle" => line'[u] \in Lines
    BY <1>2, <2>2 DEF LogType, Write
  <2> QED BY <2>2, <2>3, <2>5, <2>6, <2>7 DEF LogType
<1>3. ASSUME NEW t \in Threads, Stat(t) \/ TryLock(t) \/ SetLk(t) \/ Check(t) \/ UnlockMutex(t)
      PROVE  LogType'
  <2>1. PICK where \in PCs \ {"write"} : Goto(t, where)
    BY <1>3 DEF Stat, TryLock, SetLk, Check, UnlockMutex
  <2>2. pc[t] # "idle" /\ UNCHANGED <<dir, data, amiss, fd, lines, files>>
    BY <1>3 DEF Stat, TryLock, SetLk, Check, UnlockMutex, fs
  <2>3. /\ dir' \in [Names -> {NONE} \cup 1 .. Len(data)] /\ files' \in [Threads -> Seq(Names)]
        /\ amiss' \in BOOLEAN
    BY <2>2 DEF LogType
  <2> QED BY <2>1, <2>2, <2>3, TypeMove
<1>4. ASSUME NEW t \in Threads, AddArchiveFiles(t) PROVE LogType'
  <2>1. PICK where \in {"roll", "unlk"} : Goto(t, where)
    BY <1>4 DEF AddArchiveFiles
  <2>2. pc[t] # "idle" /\ UNCHANGED <<dir, data, fd, lines>>
    BY <1>4 DEF AddArchiveFiles
  <2>3. \A left \in SUBSET Archives : \A f \in SetToSeqs(Archives \ left) : f \in Seq(Names)
    BY ListOf
  <2>4. files' \in [Threads -> Seq(Names)]
    BY <1>4, <2>3 DEF AddArchiveFiles, LogType
  <2>5. dir' \in [Names -> {NONE} \cup 1 .. Len(data)]
    BY <2>2 DEF LogType
  <2>6. amiss' \in BOOLEAN
    <3>1. amiss' = amiss \/ \E list : amiss' = (amiss \/ Amiss(list))
      BY <1>4 DEF AddArchiveFiles
    <3> QED BY <3>1 DEF LogType
  <2> QED BY <2>1, <2>2, <2>4, <2>5, <2>6, TypeMove
<1>5. ASSUME NEW t \in Threads, RollFiles(t) PROVE LogType'
  <2>1. /\ files[t] \in Seq(Names) /\ files[t] # <<>> /\ pc[t] = "roll"
        /\ UNCHANGED <<data, fd, lines>> /\ amiss' \in BOOLEAN
    BY <1>5 DEF RollFiles, LogType
  <2>2. CASE Goto(t, "unlk") /\ UNCHANGED <<dir, files>>
    <3>1. dir' \in [Names -> {NONE} \cup 1 .. Len(data)] /\ files' \in [Threads -> Seq(Names)]
      BY <2>2 DEF LogType
    <3> QED BY <2>1, <2>2, <3>1, TypeMove
  <2>3. CASE /\ files' = [files EXCEPT ![t] = Front(@)] /\ UNCHANGED <<pc, line>>
             /\ \/ Unlink(Last(files[t]))
                \/ Len(files[t]) < MaxCount /\ Rename(Last(files[t]), Len(files[t]))
    <3>1. Len(files[t]) \in Nat /\ Last(files[t]) \in Names /\ Front(files[t]) \in Seq(Names)
      BY <2>1, FrontOf
    <3>2. dir' \in [Names -> {NONE} \cup 1 .. Len(data)]
      <4>1. Len(files[t]) < MaxCount => Len(files[t]) \in Names
        BY <3>1, Numbers
      <4> QED BY <2>3, <3>1, <4>1, UnlinkType, RenameType
    <3>3. files' \in [Threads -> Seq(Names)]
      BY <2>3, <3>1 DEF LogType
    <3> QED BY <2>1, <2>3, <3>2, <3>3 DEF LogType
  <2>4. Len(files[t]) \in Nat
    BY <2>1, FrontOf
  <2> QED BY <1>5, <2>2, <2>3, <2>4, Numbers DEF RollFiles
<1>6. ASSUME NEW t \in Threads, RollBase(t) PROVE LogType'
  <2>1. /\ pc[t] # "idle" /\ Goto(t, "unlk") /\ UNCHANGED <<data, fd, lines, files>>
        /\ amiss' \in BOOLEAN
    BY <1>6 DEF RollBase, LogType
  <2>2. dir' \in [Names -> {NONE} \cup 1 .. Len(data)]
    <3>1. 0 \in Names
      BY Numbers
    <3> QED BY <1>6, <3>1, Numbers, RenameType DEF RollBase, LogType
  <2>3. files' \in [Threads -> Seq(Names)]
    BY <2>1 DEF LogType
  <2> QED BY <2>1, <2>2, <2>3, TypeMove
<1>7. ASSUME NEW t \in Threads, Unlock(t) PROVE LogType'
  <2>1. /\ pc[t] # "idle" /\ Goto(t, "unmutex") /\ UNCHANGED <<dir, data, fd, lines>>
        /\ files' = [files EXCEPT ![t] = <<>>] /\ amiss' \in BOOLEAN
    BY <1>7 DEF Unlock, fs, LogType
  <2>2. dir' \in [Names -> {NONE} \cup 1 .. Len(data)] /\ files' \in [Threads -> Seq(Names)]
    BY <2>1, EmptySeq DEF LogType
  <2> QED BY <2>1, <2>2, TypeMove
<1>8. ASSUME NEW p \in Procs, Crash(p) PROVE LogType'
  <2>1. /\ UNCHANGED <<dir, data, amiss, lines>>
        /\ pc' = [t \in Threads |-> IF ProcOf[t] = p THEN "idle" ELSE pc[t]]
        /\ line' = [t \in Threads |-> IF ProcOf[t] = p THEN NoLine ELSE line[t]]
        /\ fd' = [t \in Threads |-> IF ProcOf[t] = p THEN NONE ELSE fd[t]]
        /\ files' = [t \in Threads |-> IF ProcOf[t] = p THEN <<>> ELSE files[t]]
    BY <1>8 DEF Crash, fs
  <2>2. files' \in [Threads -> Seq(Names)]
    BY <2>1, EmptySeq DEF LogType
  <2> QED BY <2>1, <2>2, Numbers DEF LogType
<1>9. CASE UNCHANGED vars
  BY <1>9 DEF LogType, vars, fs, thread
<1> QED BY <1>1, <1>2, <1>3, <1>4, <1>5, <1>6, <1>7, <1>8, <1>9, StepSplit

\* Who rotates holds the mutex of its process, and its process the record lock.
LockInv ==
    /\ DOMAIN mutex = Procs
    /\ \A t \in Threads : pc[t] \in Locking => mutex[ProcOf[t]] = t
    /\ \A t \in Threads : pc[t] \in Rotating => flock = ProcOf[t]

LEMMA OneRotater ==
  ASSUME LockInv, NEW t \in Threads, NEW u \in Threads, pc[t] \in Rotating, pc[u] \in Rotating
  PROVE  t = u
  BY DEF LockInv, Locking

\* A step of a thread that takes and gives back no lock.
LEMMA LockMove ==
  ASSUME LogType, LockInv, NEW t \in Threads, NEW where \in PCs, Goto(t, where),
         UNCHANGED <<mutex, flock>>, where \in Locking => pc[t] \in Locking,
         where \in Rotating => pc[t] \in Rotating
  PROVE  LockInv'
  BY GotoWhere DEF LockInv, Locking

LEMMA LockStep ==
  ASSUME LogType, LockInv, [Next]_vars
  PROVE  LockInv'
<1> USE DEF PCs, Locking, Rotating
<1>0. \A t \in Threads : ProcOf[t] \in Procs /\ ProcOf[t] # NONE /\ t # NONE
  BY LogAssumption, NoneAssumption
<1>1. ASSUME NEW t \in Threads, Open(t) PROVE LockInv'
  <2>1. pc' = [pc EXCEPT ![t] = "write"] /\ UNCHANGED <<mutex, flock>>
    BY <1>1 DEF Open, locks
  <2> QED BY <2>1 DEF LockInv, LogType
<1>2. ASSUME NEW t \in Threads, Write(t) \/ Stat(t) \/ Check(t) \/ AddArchiveFiles(t) \/ RollBase(t)
      PROVE  LockInv'
  <2>1. PICK where \in PCs :
          /\ Goto(t, where)
          /\ pc[t] \in Rotating \/ where \in {"idle", "stat", "trylock"}
    BY <1>2 DEF Write, Stat, Check, AddArchiveFiles, RollBase
  <2>2. UNCHANGED <<mutex, flock>>
    BY <1>2 DEF Write, Stat, Check, AddArchiveFiles, RollBase, locks
  <2>3. /\ where \in Locking => pc[t] \in Locking
        /\ where \in Rotating => pc[t] \in Rotating
    BY <2>1
  <2> QED BY <2>1, <2>2, <2>3, LockMove
<1>3. ASSUME NEW t \in Threads, RollFiles(t) PROVE LockInv'
  <2>1. pc[t] = "roll" /\ UNCHANGED <<mutex, flock>> /\ (Goto(t, "unlk") \/ UNCHANGED pc)
    BY <1>3 DEF RollFiles, locks
  <2>2. CASE Goto(t, "unlk")
    BY <2>1, <2>2, LockMove
  <2>3. CASE UNCHANGED pc
    BY <2>1, <2>3 DEF LockInv
  <2> QED BY <2>1, <2>2, <2>3
<1>4. ASSUME NEW t \in Threads, TryLock(t) PROVE LockInv'
  <2>1. CASE mutex[ProcOf[t]] = NONE
    <3>1. mutex' = [mutex EXCEPT ![ProcOf[t]] = t] /\ Goto(t, "setlk") /\ UNCHANGED flock
      BY <1>4, <2>1 DEF TryLock
    <3>2. pc'[t] = "setlk" /\ \A u \in Threads \ {t} : pc'[u] = pc[u]
      BY <3>1, GotoWhere
    <3>3. \A u \in Threads \ {t} : pc[u] \in Locking => ProcOf[u] # ProcOf[t]
      BY <1>0, <2>1 DEF LockInv
    <3> QED BY <1>0, <3>1, <3>2, <3>3 DEF LockInv
  <2>2. CASE mutex[ProcOf[t]] # NONE
    <3>1. Goto(t, "idle") /\ UNCHANGED <<mutex, flock>>
      BY <1>4, <2>2 DEF TryLock
    <3> QED BY <3>1, LockMove
  <2> QED BY <2>1, <2>2
<1>5. ASSUME NEW t \in Threads, SetLk(t) PROVE LockInv'
  <2>0. pc[t] = "setlk" /\ mutex[ProcOf[t]] = t
    BY <1>5 DEF SetLk, LockInv
  <2>1. CASE flock \in {NONE, ProcOf[t]}
    <3>1. flock' = ProcOf[t] /\ Goto(t, "check") /\ UNCHANGED mutex
      BY <1>5, <2>1 DEF SetLk
    <3>2. pc'[t] = "check" /\ \A u \in Threads \ {t} : pc'[u] = pc[u]
      BY <3>1, GotoWhere
    <3>3. \A u \in Threads \ {t} : pc[u] \notin Rotating
      BY <1>0, <2>0, <2>1 DEF LockInv
    <3> QED BY <2>0, <3>1, <3>2, <3>3 DEF LockInv
  <2>2. CASE flock \notin {NONE, ProcOf[t]}
    <3>1. mutex' = [mutex EXCEPT ![ProcOf[t]] = NONE] /\ Goto(t, "idle") /\ UNCHANGED flock
      BY <1>5, <2>2 DEF SetLk
    <3>2. pc'[t] = "idle" /\ \A u \in Threads \ {t} : pc'[u] = pc[u]
      BY <3>1, GotoWhere
    <3>3. \A u \in Threads \ {t} : pc[u] \in Locking => ProcOf[u] # ProcOf[t]
      BY <2>0 DEF LockInv
    <3> QED BY <1>0, <3>1, <3>2, <3>3 DEF LockInv
  <2> QED BY <2>1, <2>2
<1>6. ASSUME NEW t \in Threads, Unlock(t) PROVE LockInv'
  <2>1. pc[t] = "unlk" /\ Goto(t, "unmutex") /\ UNCHANGED mutex
    BY <1>6 DEF Unlock
  <2>2. pc'[t] = "unmutex" /\ \A u \in Threads \ {t} : pc'[u] = pc[u]
    BY <2>1, GotoWhere
  <2>3. \A u \in Threads \ {t} : pc[u] \notin Rotating
    BY <2>1, OneRotater
  <2> QED BY <2>1, <2>2, <2>3 DEF LockInv
<1>7. ASSUME NEW t \in Threads, UnlockMutex(t) PROVE LockInv'
  <2>1. /\ pc[t] = "unmutex" /\ Goto(t, "idle") /\ UNCHANGED flock
        /\ mutex' = [mutex EXCEPT ![ProcOf[t]] = NONE]
    BY <1>7 DEF UnlockMutex
  <2>2. pc'[t] = "idle" /\ \A u \in Threads \ {t} : pc'[u] = pc[u]
    BY <2>1, GotoWhere
  <2>3. \A u \in Threads \ {t} : pc[u] \in Locking => ProcOf[u] # ProcOf[t]
    BY <2>1 DEF LockInv
  <2> QED BY <1>0, <2>1, <2>2, <2>3 DEF LockInv
<1>8. ASSUME NEW p \in Procs, Crash(p) PROVE LockInv'
  <2>1. /\ pc' = [t \in Threads |-> IF ProcOf[t] = p THEN "idle" ELSE pc[t]]
        /\ mutex' = [mutex EXCEPT ![p] = NONE]
        /\ flock' = IF flock = p THEN NONE ELSE flock
    BY <1>8 DEF Crash
  <2> QED BY <1>0, <2>1 DEF LockInv
<1>9. CASE UNCHANGED vars
  BY <1>9 DEF LockInv, vars, thread, locks
<1> QED BY <1>1, <1>2, <1>3, <1>4, <1>5, <1>6, <1>7, <1>8, <1>9, StepSplit

-----------------------------------------------------------------------------
(* A list has archives in the order of their numbers.  Unless a rotation   *)
(* went amiss, none but the last of a complete list has a number above its *)
(* place, and the archives that are moved already have numbers above the   *)
(* places of those to move: so no number that is given out is taken.       *)

In(n, f) == \E i \in 1 .. Len(f) : f[i] = n
Listed(f) ==
    /\ \A i \in 1 .. Len(f) : f[i] \in Archives
    /\ \A i, j \in 1 .. Len(f) : i # j => f[i] # f[j]
    /\ \A i, j \in 1 .. Len(f) : i < j => Index(f[i]) <= Index(f[j])
Close(f) ==
    \/ /\ \A i \in 1 .. Len(f) - 1 : Index(f[i]) <= i
       /\ \A n \in Archives : In(n, f)
    \/ /\ \A i \in 1 .. Len(f) : Index(f[i]) <= i
       /\ \A n \in Archives : In(n, f) \/ n > Len(f)

ArchiveInv ==
    /\ \A n \in Archives : n < MaxCount
    /\ dir[Other] \in {NONE, 1}
    /\ \A t \in Threads : pc[t] = "roll" => Listed(files[t]) /\ (amiss \/ Close(files[t]))

LEMMA ArchiveFacts ==
  ASSUME LogType
  PROVE  /\ IsFiniteSet(Archives) /\ Cardinality(Archives) \in Nat
         /\ \A n \in Names : n \in Archives <=> n # Base /\ dir[n] # NONE
         /\ \A n \in Archives : n \in Names /\ n \in Int /\ n # Base /\ dir[n] \in 1 .. Len(data)
         /\ \A n \in Archives : n = Other \/ n \in Nat
<1>1. IsFiniteSet(Names) /\ Archives \subseteq Names
  BY FS_Interval, Numbers DEF Names, Archives
<1>2. IsFiniteSet(Archives) /\ Cardinality(Archives) \in Nat
  BY <1>1, FS_Subset, FS_CardinalityType
<1>3. \A n \in Archives : n \in Names /\ n \in Int /\ n # Base /\ dir[n] \in 1 .. Len(data)
  BY Numbers DEF Archives, LogType
<1>4. \A n \in Archives : n = Other \/ n \in Nat
  BY <1>3, Numbers DEF Names
<1> QED BY <1>2, <1>3, <1>4 DEF Archives

LEMMA ArchiveIdle ==
  ASSUME ArchiveInv, UNCHANGED <<Archives, amiss>>, dir'[Other] = dir[Other],
         \A u \in Threads : pc'[u] = "roll" => pc[u] = "roll" /\ files'[u] = files[u]
  PROVE  ArchiveInv'
<1>1. ASSUME NEW u \in Threads, pc'[u] = "roll"
      PROVE  Listed(files[u])' /\ (amiss \/ Close(files[u]))'
  <2>1. /\ files'[u] = files[u] /\ Archives' = Archives /\ amiss' = amiss
        /\ Listed(files[u]) /\ (amiss \/ Close(files[u]))
    BY <1>1 DEF ArchiveInv
  <2>2. Listed(files[u])'
    BY <2>1 DEF Listed
  <2>3. Close(files[u]) => Close(files[u])'
    BY <2>1 DEF Close, In
  <2> QED BY <2>1, <2>2, <2>3
<1> QED BY <1>1 DEF ArchiveInv

\* add_archive_files and the sort.
LEMMA ArchiveList ==
  ASSUME LogType, LockInv, ArchiveInv, NEW t \in Threads, AddArchiveFiles(t)
  PROVE  ArchiveInv'
<1>0. pc[t] = "list" /\ UNCHANGED dir /\ files \in [Threads -> Seq(Names)]
  BY DEF AddArchiveFiles, LogType
<1>1. Archives' = Archives
  BY <1>0 DEF Archives
<1>2. \A u \in Threads \ {t} : pc[u] # "roll"
  BY <1>0, OneRotater DEF Rotating
<1>3. CASE Goto(t, "unlk") /\ UNCHANGED <<files, amiss>>
  <2>1. pc'[t] = "unlk" /\ \A u \in Threads \ {t} : pc'[u] = pc[u]
    BY <1>3, GotoWhere DEF PCs, Locking, Rotating
  <2> QED BY <1>0, <1>1, <1>3, <2>1, ArchiveIdle
<1>4. ASSUME NEW left \in SUBSET Archives, NEW f \in SetToSeqs(Archives \ left), Sorted(f),
             files' = [files EXCEPT ![t] = f], amiss' = (amiss \/ Amiss(f)), Goto(t, "roll")
      PROVE  ArchiveInv'
  <2>1. pc'[t] = "roll" /\ \A u \in Threads \ {t} : pc'[u] # "roll"
    BY <1>2, <1>4, GotoWhere DEF PCs, Locking, Rotating
  <2>2. files'[t] = f
    BY <1>0, <1>4
  <2>3. /\ Len(f) = Cardinality(Archives \ left) /\ Len(f) \in Nat /\ DOMAIN f = 1 .. Len(f)
        /\ \A i \in 1 .. Len(f) : f[i] \in Archives
        /\ \A i, j \in 1 .. Len(f) : i # j => f[i] # f[j]
    BY <1>4, ListOf
  <2>4. Listed(f)
    BY <1>4, <2>3 DEF Listed, Sorted
  <2>5. Amiss(f) \/ Close(f)
    <3>1. SUFFICES ASSUME ~Amiss(f) PROVE Close(f)
      OBVIOUS
    <3>2. \A n \in Archives : In(n, f)
      <4>1. ~(Len(f) < Cardinality(Archives))
        BY <3>1 DEF Amiss
      <4>2. f \in Injection(1 .. Len(f), Archives)
        <5>1. f \in [1 .. Len(f) -> Archives]
          BY <1>4, ListOf
        <5> QED BY <2>3, <5>1 DEF Injection, IsInjective
      <4>3. IsFiniteSet(Archives) /\ Cardinality(Archives) \in Nat
        BY ArchiveFacts
      <4>4. Cardinality(1 .. Len(f)) = Len(f)
        BY <2>3, FS_Interval
      <4>5. Cardinality(1 .. Len(f)) = Cardinality(Archives)
        <5>1. Cardinality(1 .. Len(f)) <= Cardinality(Archives)
          BY <4>2, <4>3, FS_Injection
        <5> QED BY <2>3, <4>1, <4>3, <4>4, <5>1
      <4>6. f \in Surjection(1 .. Len(f), Archives)
        BY <4>2, <4>3, <4>5, FS_Injection
      <4> QED BY <4>6 DEF Surjection, In
    <3>3. \A i \in 1 .. Len(f) - 1 : ~(Index(f[i]) > i)
      BY <3>1, Zenon DEF Amiss
    <3>4. \A i \in 1 .. Len(f) - 1 : i \in 1 .. Len(f) /\ i \in Int
      BY <2>3
    <3>5. \A n \in Archives : Index(n) \in Int
      BY ArchiveFacts DEF Index
    <3>6. \A i \in 1 .. Len(f) - 1 : Index(f[i]) <= i
      <4>1. ASSUME NEW i \in 1 .. Len(f) - 1 PROVE Index(f[i]) <= i
        <5>1. i \in Int /\ Index(f[i]) \in Int
          BY <2>3, <3>4, <3>5
        <5> QED BY <3>3, <5>1
      <4> QED BY <4>1
    <3> QED BY <3>2, <3>6 DEF Close
  <2>6. Listed(files[t])' /\ (amiss \/ Close(files[t]))'
    <3>1. Listed(files[t])'
      BY <1>1, <2>2, <2>4 DEF Listed
    <3>2. Close(f) => Close(files[t])'
      BY <1>1, <2>2 DEF Close, In
    <3>3. Amiss(f) => amiss'
      BY <1>4
    <3> QED BY <2>5, <3>1, <3>2, <3>3
  <2> QED BY <1>0, <1>1, <2>1, <2>6 DEF ArchiveInv
<1> QED BY <1>3, <1>4 DEF AddArchiveFiles

\* What one turn of the loop in roll_files does to the directory: an archive is removed
\* when MaxCount - 1 others are there, or is given a number.  Unless a rotation went amiss,
\* the one removed is the oldest, and the number is its own or a free one that leaves it
\* where it was among the others (the file of somebody else has no place among them).
Removed(m) ==
    /\ Unlink(m) /\ m \in Archives /\ Cardinality(Archives \ {m}) >= MaxCount - 1
    /\ amiss \/ \A n \in Archives \ {m} : n = Other \/ m = Other \/ n < m
Moved(m, k) ==
    /\ Rename(m, k) /\ m \in Archives /\ k \in 1 .. MaxCount - 1
    /\ \/ amiss
       \/ m = k
       \/ /\ dir[k] = NONE
          /\ \A n \in Archives \ {m} :
                n = Other \/ m = Other \/ ((n < m <=> n < k) /\ (n > m <=> n > k))

\* The archives after it.
LEMMA RollSets ==
  ASSUME LogType
  PROVE  /\ \A m \in Names : Removed(m) =>
              /\ Archives' = Archives \ {m} /\ dir'[Base] = dir[Base]
              /\ dir'[Other] \in {dir[Other], NONE}
              /\ \A n \in Archives' : dir'[n] = dir[n]
         /\ \A m, k \in Names : Moved(m, k) /\ m # k =>
              /\ Archives' = (Archives \ {m}) \cup {k} /\ dir'[Base] = dir[Base]
              /\ dir'[Other] \in {dir[Other], NONE}
              /\ dir'[k] = dir[m] /\ \A n \in Archives \ {m, k} : dir'[n] = dir[n]
         /\ \A m, k \in Names : Moved(m, k) /\ m = k => UNCHANGED <<dir, Archives>>
<1>0. dir \in [Names -> {NONE} \cup 1 .. Len(data)]
  BY DEF LogType
<1>1. ASSUME NEW m \in Names, Removed(m)
      PROVE  /\ Archives' = Archives \ {m} /\ dir'[Base] = dir[Base]
             /\ dir'[Other] \in {dir[Other], NONE}
             /\ \A n \in Archives' : dir'[n] = dir[n]
  <2>1. m \in Archives /\ m # Base
    BY <1>1 DEF Removed, Archives
  <2>2. dir'[m] = NONE /\ \A n \in Names \ {m} : dir'[n] = dir[n]
    BY <1>0, <1>1 DEF Removed, Unlink
  <2>3. Archives' = Archives \ {m}
    BY <2>1, <2>2 DEF Archives
  <2> QED BY <2>1, <2>2, <2>3, Numbers DEF Archives
<1>2. ASSUME NEW m \in Names, NEW k \in Names, Moved(m, k), m # k
      PROVE  /\ Archives' = (Archives \ {m}) \cup {k} /\ dir'[Base] = dir[Base]
             /\ dir'[Other] \in {dir[Other], NONE}
             /\ dir'[k] = dir[m] /\ \A n \in Archives \ {m, k} : dir'[n] = dir[n]
  <2>1. m \in Archives /\ m # Base /\ k # Base /\ k # Other /\ dir[m] # NONE
    BY <1>2, Numbers DEF Moved, Archives
  <2>2. dir'[m] = NONE /\ dir'[k] = dir[m] /\ \A n \in Names \ {m, k} : dir'[n] = dir[n]
    BY <1>0, <1>2, <2>1 DEF Moved, Rename
  <2>3. Archives' = (Archives \ {m}) \cup {k}
    BY <1>2, <2>1, <2>2 DEF Archives
  <2> QED BY <2>1, <2>2, <2>3, Numbers DEF Archives
<1>3. ASSUME NEW m \in Names, Moved(m, m) PROVE UNCHANGED <<dir, Archives>>
  <2>1. dir' = dir
    BY <1>0, <1>3 DEF Moved, Rename
  <2> QED BY <2>1 DEF Archives
<1> QED BY <1>1, <1>2, <1>3

LEMMA Rolled ==
  ASSUME LogType, LockInv, ArchiveInv, NEW t \in Threads, RollFiles(t),
         ~(Goto(t, "unlk") /\ UNCHANGED <<dir, gone, files>>)
  PROVE  /\ ArchiveInv'
         /\ \/ \E m \in Names : Removed(m)
            \/ \E m, k \in Names : Moved(m, k)
<1> DEFINE f == files[t]
           k == Len(f)
           m == Last(f)
           f2 == Front(f)
<1>1. /\ pc[t] = "roll" /\ f # <<>> /\ UNCHANGED <<pc, amiss>>
      /\ files' = [files EXCEPT ![t] = Front(@)]
      /\ IF k - 1 >= MaxCount - 1 THEN Unlink(m) ELSE Rename(m, k - 1 + 1)
  BY DEF RollFiles
<1>2. \A u \in Threads \ {t} : pc'[u] # "roll"
  BY <1>1, OneRotater DEF Rotating
<1>3. /\ k \in Nat \ {0} /\ m \in Names /\ m = f[k] /\ k \in 1 .. k
      /\ f2 \in Seq(Names) /\ Len(f2) = k - 1 /\ \A i \in 1 .. k - 1 : f2[i] = f[i] /\ i \in 1 .. k
  <2>1. f \in Seq(Names)
    BY DEF LogType
  <2> QED BY <1>1, <2>1, FrontOf
<1>4. files'[t] = f2 /\ pc'[t] = "roll"
  BY <1>1 DEF LogType
<1>5. Listed(f) /\ (amiss \/ Close(f)) /\ MaxCount \in Nat
  BY <1>1, Numbers DEF ArchiveInv
<1> HIDE DEF f, k, m, f2
<1>6. /\ \A i \in 1 .. k : f[i] \in Archives
      /\ \A i, j \in 1 .. k : i # j => f[i] # f[j]
      /\ \A i, j \in 1 .. k : i < j => Index(f[i]) <= Index(f[j])
  BY <1>5 DEF Listed, k
<1>7. /\ m \in Archives /\ (\A n \in Archives : n < MaxCount) /\ dir[Other] \in {NONE, 1}
      /\ \A n \in Archives : n \in Names /\ n \in Int /\ (n = Other \/ n \in Nat)
      /\ Other = -2 /\ Other # Base
  BY <1>3, <1>6, ArchiveFacts, Numbers DEF ArchiveInv
<1>8. \/ amiss
      \/ /\ \A i \in 1 .. k - 1 : Index(f[i]) <= i
         /\ \A n \in Archives : In(n, f)
      \/ /\ \A i \in 1 .. k : Index(f[i]) <= i
         /\ \A n \in Archives : In(n, f) \/ n > k
  BY <1>5 DEF Close, k
\* One that is listed and not the last has a lower place and a lower number.
<1>9. ASSUME NEW n \in Archives \ {m}, In(n, f)
      PROVE  \E j \in 1 .. k - 1 : f[j] = n /\ Index(n) <= Index(m)
  <2>1. PICK j \in 1 .. k : f[j] = n
    BY <1>9 DEF In, k
  <2>2. j # k
    BY <1>3, <1>9, <2>1
  <2>3. j < k /\ j \in 1 .. k - 1
    BY <1>3, <2>1, <2>2
  <2> QED BY <1>3, <1>6, <2>1, <2>3
\* The list that is left, of the archives that are left.
<1>10. ASSUME Archives \ {m} \subseteq Archives', Archives' \subseteq (Archives \ {m}) \cup {k},
              k < MaxCount \/ Archives' \subseteq Archives, dir'[Other] \in {dir[Other], NONE}
       PROVE  ArchiveInv'
  <2>1. \A n \in Archives' : n < MaxCount
    BY <1>3, <1>5, <1>7, <1>10
  <2>2. ASSUME NEW i \in 1 .. k - 1
        PROVE  i \in 1 .. k /\ i < k /\ f2[i] = f[i] /\ f2[i] \in Archives' /\ f2[i] # m
    <3>1. i \in 1 .. k /\ i < k /\ i # k /\ f2[i] = f[i]
      BY <1>3, <2>2
    <3>2. f[i] \in Archives /\ f[i] # m
      BY <1>3, <1>6, <3>1
    <3> QED BY <1>10, <3>1, <3>2
  <2>3. /\ \A i \in 1 .. k - 1 : f2[i] \in Archives'
        /\ \A i, j \in 1 .. k - 1 : i # j => f2[i] # f2[j]
        /\ \A i, j \in 1 .. k - 1 : i < j => Index(f2[i]) <= Index(f2[j])
    BY <1>6, <2>2
  <2>4. ~amiss => /\ \A i \in 1 .. k - 1 : Index(f2[i]) <= i
                  /\ \A n \in Archives' : (\E i \in 1 .. k - 1 : f2[i] = n) \/ n > k - 1
    <3>1. SUFFICES ASSUME ~amiss
                   PROVE  /\ \A i \in 1 .. k - 1 : Index(f2[i]) <= i
                          /\ \A n \in Archives' : (\E i \in 1 .. k - 1 : f2[i] = n) \/ n > k - 1
      OBVIOUS
    <3>2. \A i \in 1 .. k - 1 : Index(f2[i]) <= i
      BY <1>8, <2>2, <3>1
    <3>3. ASSUME NEW n \in Archives' PROVE (\E i \in 1 .. k - 1 : f2[i] = n) \/ n > k - 1
      <4>1. CASE n = k
        BY <1>3, <4>1
      <4>2. CASE n \in Archives \ {m} /\ In(n, f)
        <5>1. PICK j \in 1 .. k - 1 : f[j] = n
          BY <1>9, <4>2
        <5> QED BY <2>2, <5>1
      <4>3. CASE n \in Archives /\ n > k
        BY <1>3, <1>7, <4>3
      <4>4. n = k \/ n \in Archives \ {m}
        BY <1>3, <1>10, <3>3
      <4> QED BY <1>8, <3>1, <4>1, <4>2, <4>3, <4>4
    <3> QED BY <3>2, <3>3
  <2>5. files'[t] = f2 /\ Len(f2) = k - 1 /\ amiss' = amiss
    BY <1>1, <1>3, <1>4
  <2>6. Listed(files[t])'
    BY <2>3, <2>5 DEF Listed
  <2>7. ~amiss => Close(files[t])'
    <3>1. SUFFICES ASSUME ~amiss PROVE Close(files[t])'
      OBVIOUS
    <3>2. /\ \A i \in 1 .. Len(files'[t]) : Index(files'[t][i]) <= i
          /\ \A n \in Archives' : (\E i \in 1 .. Len(files'[t]) : files'[t][i] = n) \/ n > Len(files'[t])
      BY <2>4, <2>5, <3>1
    <3> QED BY <3>2 DEF Close, In
  <2> QED BY <1>2, <1>7, <1>10, <2>1, <2>5, <2>6, <2>7 DEF ArchiveInv
<1>11. CASE k >= MaxCount
  <2>1. Unlink(m)
    BY <1>1, <1>3, <1>5, <1>11
  <2>2. Cardinality(Archives \ {m}) >= MaxCount - 1
    <3>1. IsFiniteSet(Archives) /\ IsFiniteSet(Archives \ {m})
          /\ Cardinality(Archives \ {m}) \in Nat
      <4>1. IsFiniteSet(Archives) /\ Archives \ {m} \in SUBSET Archives
        BY ArchiveFacts
      <4> QED BY <4>1, FS_Subset, FS_CardinalityType
    <3> DEFINE h == [i \in 1 .. k - 1 |-> f[i]]
    <3>2. h \in Injection(1 .. k - 1, Archives \ {m})
      <4>1. \A i \in 1 .. k - 1 : f[i] \in Archives \ {m}
        BY <1>3, <1>6
      <4>2. \A i, j \in 1 .. k - 1 : i # j => f[i] # f[j]
        BY <1>3, <1>6
      <4> QED BY <4>1, <4>2 DEF Injection, IsInjective
    <3>3. Cardinality(1 .. k - 1) <= Cardinality(Archives \ {m})
      BY <3>1, <3>2, FS_Injection
    <3>4. Cardinality(1 .. k - 1) = k - 1
      BY <1>3, FS_Interval
    <3> QED BY <1>3, <1>5, <1>11, <3>1, <3>3, <3>4
  <2>3. amiss \/ \A n \in Archives \ {m} : n = Other \/ m = Other \/ n < m
    <3>1. SUFFICES ASSUME ~amiss, NEW n \in Archives \ {m}, n # Other, m # Other PROVE n < m
      OBVIOUS
    <3>2. ~(n > k)
      BY <1>3, <1>5, <1>7, <1>11
    <3>3. In(n, f)
      BY <1>8, <3>1, <3>2
    <3>4. Index(n) <= Index(m)
      BY <1>9, <3>3
    <3> QED BY <1>7, <3>1, <3>4 DEF Index
  <2>4. Removed(m)
    BY <1>7, <2>1, <2>2, <2>3 DEF Removed
  <2>5. Archives' = Archives \ {m} /\ dir'[Other] \in {dir[Other], NONE}
    BY <1>3, <2>4, RollSets
  <2>6. ArchiveInv'
    BY <1>10, <1>11, <2>5
  <2> QED BY <1>3, <2>4, <2>6
<1>12. CASE k < MaxCount
  <2>1. Rename(m, k) /\ k \in 1 .. MaxCount - 1 /\ k \in Names /\ k # Base /\ k # Other
    <3>1. k - 1 + 1 = k /\ ~(k - 1 >= MaxCount - 1) /\ k \in 1 .. MaxCount - 1
      BY <1>3, <1>5, <1>12
    <3> QED BY <1>1, <3>1, Numbers
  <2>2. \/ amiss
        \/ m = k
        \/ /\ dir[k] = NONE
           /\ \A n \in Archives \ {m} :
                 n = Other \/ m = Other \/ ((n < m <=> n < k) /\ (n > m <=> n > k))
    <3>1. SUFFICES ASSUME ~amiss, m # k
                   PROVE  /\ dir[k] = NONE
                          /\ \A n \in Archives \ {m} :
                                n = Other \/ m = Other \/ ((n < m <=> n < k) /\ (n > m <=> n > k))
      OBVIOUS
    <3>2. \A i \in 1 .. k - 1 : Index(f[i]) <= i
      BY <1>3, <1>8, <3>1
    <3>3. ASSUME NEW n \in Archives \ {m}, n # Other, In(n, f) PROVE n < k /\ Index(n) <= Index(m)
      <4>1. PICK j \in 1 .. k - 1 : f[j] = n /\ Index(n) <= Index(m)
        BY <1>9, <3>3
      <4>2. Index(n) <= j /\ Index(n) = n
        BY <3>2, <3>3, <4>1 DEF Index
      <4> QED BY <1>3, <1>7, <4>1, <4>2
    <3>4. dir[k] = NONE
      <4>1. SUFFICES ASSUME k \in Archives PROVE FALSE
        BY <2>1, ArchiveFacts
      <4>2. k \in Archives \ {m} /\ ~(k > k) /\ ~(k < k)
        BY <1>3, <3>1, <4>1
      <4>3. In(k, f)
        BY <1>8, <3>1, <4>2
      <4> QED BY <2>1, <3>3, <4>2, <4>3
    <3>5. ASSUME NEW n \in Archives \ {m}, n # Other, m # Other
          PROVE  (n < m <=> n < k) /\ (n > m <=> n > k)
      <4>1. CASE In(n, f)
        <5>1. n < k /\ n <= m
          BY <3>3, <3>5, <4>1 DEF Index
        <5> QED BY <1>3, <1>7, <3>5, <5>1
      <4>2. CASE ~In(n, f)
        <5>1. n > k /\ \A i \in 1 .. k : Index(f[i]) <= i
          BY <1>8, <3>1, <3>5, <4>2
        <5>2. m <= k
          BY <1>3, <3>5, <5>1 DEF Index
        <5> QED BY <1>3, <1>7, <5>1, <5>2
      <4> QED BY <4>1, <4>2
    <3> QED BY <3>4, <3>5
  <2>3. Moved(m, k)
    BY <1>7, <2>1, <2>2 DEF Moved
  <2>4. CASE m = k
    <3>1. Archives' = Archives /\ dir' = dir
      BY <1>3, <2>1, <2>3, <2>4, RollSets
    <3>2. ArchiveInv'
      BY <1>10, <1>12, <2>4, <3>1
    <3> QED BY <1>3, <2>1, <2>3, <3>2
  <2>5. CASE m # k
    <3>1. Archives' = (Archives \ {m}) \cup {k} /\ dir'[Other] \in {dir[Other], NONE}
      BY <1>3, <2>1, <2>3, <2>5, RollSets
    <3>2. ArchiveInv'
      BY <1>10, <1>12, <2>5, <3>1
    <3> QED BY <1>3, <2>1, <2>3, <3>2
  <2> QED BY <2>4, <2>5
<1> QED BY <1>3, <1>5, <1>11, <1>12

\* The log file becomes archive 0, which has been moved.
LEMMA BaseRolled ==
  ASSUME LogType, LockInv, ArchiveInv, NEW t \in Threads, RollBase(t)
  PROVE  /\ ArchiveInv' /\ (UNCHANGED dir \/ Rename(Base, 0))
         /\ amiss \/ (dir[0] = NONE /\ \A x \in Archives : x > 0)
<1>1. pc[t] = "roll" /\ files[t] = <<>> /\ Goto(t, "unlk") /\ UNCHANGED amiss
      /\ (UNCHANGED dir \/ Rename(Base, 0))
  BY DEF RollBase
<1>2. \A u \in Threads : pc'[u] # "roll"
  BY <1>1, OneRotater, GotoWhere DEF Rotating, PCs, Locking
<1>3. ASSUME ~amiss PROVE dir[0] = NONE /\ \A x \in Archives : x > 0
  <2>1. Close(files[t]) /\ Len(files[t]) = 0
    BY <1>1, <1>3 DEF ArchiveInv
  <2>2. \A n : ~In(n, files[t])
    BY <2>1 DEF In
  <2>3. \A x \in Archives : x > 0
    BY <2>1, <2>2 DEF Close
  <2>4. 0 \notin Archives /\ 0 \in Names /\ 0 # Base
    BY <2>3, Numbers
  <2> QED BY <2>3, <2>4, ArchiveFacts
<1>4. (\A n \in Archives' : n < MaxCount) /\ dir'[Other] = dir[Other]
  <2>1. CASE UNCHANGED dir
    BY <2>1 DEF ArchiveInv, Archives
  <2>2. CASE Rename(Base, 0)
    <3>1. \A x \in Names : dir'[x] = IF x = 0 THEN dir[Base] ELSE IF x = Base THEN NONE ELSE dir[x]
      BY <2>2, Numbers DEF Rename, LogType
    <3>2. Archives' \subseteq Archives \cup {0}
      BY <3>1 DEF Archives
    <3> QED BY <3>1, <3>2, Numbers DEF ArchiveInv
  <2> QED BY <1>1, <2>1, <2>2
<1> QED BY <1>1, <1>2, <1>3, <1>4 DEF ArchiveInv

LEMMA ArchiveStep ==
  ASSUME LogType, LockInv, ArchiveInv, [Next]_vars
  PROVE  ArchiveInv'
<1> USE DEF PCs, Locking, Rotating
<1>1. ASSUME NEW t \in Threads, Open(t) PROVE ArchiveInv'
  <2>1. pc' = [pc EXCEPT ![t] = "write"] /\ UNCHANGED <<files, amiss>>
    BY <1>1 DEF Open
  <2>2. dir' = dir \/ dir' = [dir EXCEPT ![Base] = Len(data) + 1]
    BY <1>1 DEF Open
  <2>3. \A n \in Names \ {Base} : dir'[n] = dir[n]
    BY <2>2 DEF LogType
  <2>4. Archives' = Archives
    BY <2>3 DEF Archives
  <2>5. dir'[Other] = dir[Other]
    BY <2>3, Numbers
  <2> QED BY <2>1, <2>4, <2>5, ArchiveIdle DEF LogType
<1>2. ASSUME NEW t \in Threads,
             \/ Write(t) \/ Stat(t) \/ TryLock(t) \/ SetLk(t) \/ Check(t) \/ Unlock(t)
             \/ UnlockMutex(t) \/ (RollFiles(t) /\ Goto(t, "unlk") /\ UNCHANGED <<dir, gone, files>>)
      PROVE  ArchiveInv'
  <2>1. PICK where \in PCs \ {"roll"} : Goto(t, where)
    BY <1>2 DEF Write, Stat, TryLock, SetLk, Check, Unlock, UnlockMutex
  <2>2. UNCHANGED <<dir, amiss>> /\ (UNCHANGED files \/ files' = [files EXCEPT ![t] = <<>>])
    BY <1>2 DEF Write, Stat, TryLock, SetLk, Check, Unlock, UnlockMutex, RollFiles, fs
  <2>3. Archives' = Archives
    BY <2>2 DEF Archives
  <2>4. \A u \in Threads : pc'[u] = "roll" => u # t /\ pc[u] = "roll"
    BY <2>1, GotoWhere
  <2>5. \A u \in Threads \ {t} : files'[u] = files[u]
    BY <2>2 DEF LogType
  <2> QED BY <2>2, <2>3, <2>4, <2>5, ArchiveIdle
<1>3. ASSUME NEW p \in Procs, Crash(p) PROVE ArchiveInv'
  <2>1. /\ UNCHANGED <<dir, amiss>>
        /\ pc' = [t \in Threads |-> IF ProcOf[t] = p THEN "idle" ELSE pc[t]]
        /\ files' = [t \in Threads |-> IF ProcOf[t] = p THEN <<>> ELSE files[t]]
    BY <1>3 DEF Crash, fs
  <2>2. Archives' = Archives
    BY <2>1 DEF Archives
  <2>3. \A u \in Threads : pc'[u] = "roll" => pc[u] = "roll" /\ files'[u] = files[u]
    BY <2>1
  <2> QED BY <2>1, <2>2, <2>3, ArchiveIdle
<1>4. CASE UNCHANGED vars
  <2>1. UNCHANGED <<dir, amiss, pc, files>>
    BY <1>4 DEF vars, fs, thread
  <2>2. Archives' = Archives
    BY <2>1 DEF Archives
  <2> QED BY <2>1, <2>2, ArchiveIdle
<1> QED BY <1>1, <1>2, <1>3, <1>4, StepSplit, ArchiveList, Rolled, BaseRolled

LEMMA ArchiveInit ==
  ASSUME Init
  PROVE  ArchiveInv
<1>1. \A t \in Threads : pc[t] # "roll"
  BY DEF Init
<1>2. PICK old \in SUBSET (0 .. MaxCount - 1), stray \in BOOLEAN :
        /\ \A n \in old : n \in Names /\ n # Base /\ n # Other
        /\ \A n \in Names \ old : dir[n] = IF stray /\ n = Other THEN 1 ELSE NONE
  BY Starts
<1>3. dir[Other] \in {NONE, 1} /\ \A n \in Archives : n < MaxCount
  BY <1>2, Numbers DEF Archives
<1> QED BY <1>1, <1>3 DEF ArchiveInv

-----------------------------------------------------------------------------
(* No archive is overwritten, unless a rotation went amiss.                *)

LEMMA LockInit == Init => LockInv
  BY DEF Init, LockInv, Locking, Rotating

LEMMA AmissStays ==
  ASSUME \/ \E t \in Threads : \/ Stat(t) \/ TryLock(t) \/ SetLk(t) \/ Check(t)
                              \/ AddArchiveFiles(t) \/ Unlock(t) \/ UnlockMutex(t)
         \/ \E p \in Procs : Crash(p)
         \/ UNCHANGED vars
  PROVE  amiss => amiss'
<1>1. ASSUME NEW t \in Threads, AddArchiveFiles(t) PROVE amiss => amiss'
  <2>1. amiss' = amiss \/ \E list : amiss' = (amiss \/ Amiss(list))
    BY <1>1 DEF AddArchiveFiles
  <2> QED BY <2>1
<1>2. ASSUME NEW t \in Threads,
             Stat(t) \/ TryLock(t) \/ SetLk(t) \/ Check(t) \/ Unlock(t) \/ UnlockMutex(t)
      PROVE  amiss => amiss'
  BY <1>2 DEF Stat, TryLock, SetLk, Check, Unlock, UnlockMutex, fs
<1>3. ASSUME (\E p \in Procs : Crash(p)) \/ UNCHANGED vars PROVE amiss => amiss'
  BY <1>3 DEF Crash, vars, fs
<1> QED BY <1>1, <1>2, <1>3

LEMMA OverwrittenStep ==
  ASSUME LogType, LockInv, ArchiveInv, NothingOverwritten, [Next]_vars
  PROVE  NothingOverwritten'
<1>0. dir \in [Names -> {NONE} \cup 1 .. Len(data)] /\ DOMAIN data = 1 .. Len(data)
      /\ Len(data) \in Nat
  BY LenProperties DEF LogType
<1>1. ASSUME UNCHANGED <<dir, gone>>, DOMAIN data' = DOMAIN data, amiss => amiss'
      PROVE  NothingOverwritten'
  BY <1>1 DEF NothingOverwritten, Inodes
<1>2. ASSUME NEW t \in Threads, Open(t), dir[Base] = NONE PROVE NothingOverwritten'
  <2>1. dir' = [dir EXCEPT ![Base] = Len(data) + 1] /\ data' = Append(data, <<>>) /\ UNCHANGED <<gone, amiss>>
    BY <1>2 DEF Open
  <2>2. DOMAIN data' = 1 .. Len(data) + 1
    BY <2>1, EmptySeq, AppendProperties, LenProperties DEF LogType
  <2>3. dir'[Base] = Len(data) + 1 /\ \A n \in Names \ {Base} : dir'[n] = dir[n]
    BY <1>0, <2>1, Numbers
  <2> QED BY <1>0, <1>2, <2>1, <2>2, <2>3, Numbers DEF NothingOverwritten, Inodes
<1>3. ASSUME NEW m \in Names, Unlink(m), UNCHANGED <<data, amiss>> PROVE NothingOverwritten'
  BY <1>0, <1>3 DEF NothingOverwritten, Inodes, Unlink
<1>4. ASSUME NEW m \in Names, NEW k \in Names, Rename(m, k), dir[k] = NONE, m # k, UNCHANGED <<data, amiss>>
      PROVE  NothingOverwritten'
  <2>1. gone' = gone /\ dir'[k] = dir[m] /\ \A n \in Names \ {m, k} : dir'[n] = dir[n]
    BY <1>0, <1>4 DEF Rename
  <2> QED BY <1>0, <1>4, <2>1, Numbers DEF NothingOverwritten, Inodes
<1>5. ASSUME NEW t \in Threads, RollFiles(t) PROVE NothingOverwritten'
  <2>1. UNCHANGED <<data, amiss>>
    BY <1>5 DEF RollFiles
  <2>2. CASE amiss
    BY <2>1, <2>2 DEF NothingOverwritten
  <2>3. ASSUME ~amiss, NEW m \in Names, NEW k \in Names, Moved(m, k) PROVE NothingOverwritten'
    <3>1. CASE m = k
      BY <1>1, <2>1, <2>3, <3>1, RollSets DEF Moved, Rename
    <3>2. CASE m # k
      BY <1>4, <2>1, <2>3, <3>2 DEF Moved
    <3> QED BY <3>1, <3>2
  <2>4. \/ \E m \in Names : Removed(m)
        \/ \E m, k \in Names : Moved(m, k)
        \/ UNCHANGED <<dir, gone>>
    BY <1>5, Rolled
  <2> QED BY <1>1, <1>3, <2>1, <2>2, <2>3, <2>4 DEF Removed
<1>6. ASSUME NEW t \in Threads, RollBase(t) PROVE NothingOverwritten'
  <2>1. UNCHANGED <<data, amiss>> /\ (Rename(Base, 0) \/ UNCHANGED <<dir, gone>>)
    BY <1>6 DEF RollBase
  <2>2. (amiss \/ dir[0] = NONE) /\ 0 \in Names /\ Base # 0
    BY <1>6, BaseRolled, Numbers
  <2>3. CASE amiss
    BY <2>1, <2>3 DEF NothingOverwritten
  <2> QED BY <1>1, <1>4, <2>1, <2>2, <2>3, Numbers
<1>7. ASSUME NEW t \in Threads, Write(t) PROVE NothingOverwritten'
  BY <1>1, <1>7 DEF Write, fs
<1>8. ASSUME NEW t \in Threads, Open(t), dir[Base] # NONE PROVE NothingOverwritten'
  BY <1>1, <1>8 DEF Open
<1>9. ASSUME \/ \E t \in Threads : \/ Stat(t) \/ TryLock(t) \/ SetLk(t) \/ Check(t)
                                   \/ AddArchiveFiles(t) \/ Unlock(t) \/ UnlockMutex(t)
             \/ \E p \in Procs : Crash(p)
             \/ UNCHANGED vars
      PROVE  NothingOverwritten'
  <2>1. UNCHANGED <<dir, gone, data>>
    BY <1>9 DEF Stat, TryLock, SetLk, Check, AddArchiveFiles, Unlock, UnlockMutex, Crash, vars, fs
  <2>2. amiss => amiss'
    BY <1>9, AmissStays
  <2> QED BY <1>1, <2>1, <2>2
<1> QED BY <1>2, <1>5, <1>6, <1>7, <1>8, <1>9, StepSplit

\* rename(2) in roll_files replaces no file, whatever archives earlier runs left and however
\* often threads and processes are interrupted by each other, by failed calls and by
\* crashes, until a rotation begins that leaves an archive out for want of memory, or with
\* two numbers missing below one that is not the oldest.
THEOREM NeverOverwritten == Spec => []NothingOverwritten
<1> DEFINE Inv == LogType /\ LockInv /\ ArchiveInv /\ NothingOverwritten
<1>1. Init => Inv
  <2>1. ASSUME Init PROVE NothingOverwritten
    <3>1. PICK old \in SUBSET (0 .. MaxCount - 1), stray \in BOOLEAN :
            /\ \A n \in old : n \in Names /\ n # Base /\ n # Other
            /\ Len(data) \in Nat \ {0} /\ Inodes = 1 .. Len(data)
            /\ \A n \in Names \ old : dir[n] = IF stray /\ n = Other THEN 1 ELSE NONE
            /\ \A i \in 2 .. Len(data) : \E n \in old : dir[n] = i
            /\ gone = IF stray THEN {} ELSE {1}
      BY <2>1, Starts
    <3>2. 1 \in gone \/ dir[Other] = 1
      BY <3>1, Numbers
    <3>3. \A i \in Inodes : i = 1 \/ i \in 2 .. Len(data)
      BY <3>1
    <3> QED BY <3>1, <3>2, <3>3, Numbers DEF NothingOverwritten
  <2> QED BY <2>1, TypeInit, LockInit, ArchiveInit
<1>2. Inv /\ [Next]_vars => Inv'
  BY TypeStep, LockStep, ArchiveStep, OverwrittenStep
<1> QED BY <1>1, <1>2, PTL DEF Spec

-----------------------------------------------------------------------------
(* The order of the log.                                                   *)

\* The log file is the newest file, and no thread writes to one older than those it
\* has written to.
NewestInv ==
    /\ dir[Base] \in {NONE, Len(data)}
    /\ \A i \in Inodes : \A a \in DOMAIN data[i] : data[i][a][2] <= lines
    /\ \A i \in Inodes : \A a \in DOMAIN data[i] : \A t \in Threads :
          data[i][a][1] = t /\ pc[t] = "write" => data[i][a][2] < line[t][2] /\ i <= fd[t]
    /\ \A t \in Threads : pc[t] = "write" => line[t][1] = t /\ line[t][2] <= lines

NamesInOrder ==
    /\ amiss \/ \A n, m \in Archives :
                  n < m /\ {dir[n], dir[m]} \subseteq Own => dir[n] > dir[m]
    /\ dir[Base] # NONE => \A n \in Archives : dir[n] < dir[Base]
LinesInOrder ==
    \A i, j \in Inodes : \A a \in DOMAIN data[i], b \in DOMAIN data[j] :
       data[i][a][1] = data[j][b][1] /\ data[i][a][2] < data[j][b][2]
       => i < j \/ (i = j /\ a < b)

LEMMA DataTypes ==
  ASSUME LogType
  PROVE  /\ Len(data) \in Nat /\ Inodes = 1 .. Len(data)
         /\ \A i \in Inodes : /\ data[i] \in Seq(Lines) /\ Len(data[i]) \in Nat
                              /\ DOMAIN data[i] = 1 .. Len(data[i])
         /\ \A i \in Inodes : \A a \in DOMAIN data[i] :
               data[i][a] \in Lines /\ data[i][a][1] \in Threads /\ data[i][a][2] \in Nat
<1>1. data \in Seq(Seq(Lines))
  BY DEF LogType
<1>2. Len(data) \in Nat /\ Inodes = 1 .. Len(data)
  BY <1>1, LenProperties DEF Inodes
<1>3. \A i \in Inodes : data[i] \in Seq(Lines)
  BY <1>1, <1>2, ElementOfSeq
<1>4. \A i \in Inodes : Len(data[i]) \in Nat /\ DOMAIN data[i] = 1 .. Len(data[i])
  BY <1>3, LenProperties
<1>5. \A i \in Inodes : \A a \in DOMAIN data[i] : data[i][a] \in Lines
  BY <1>3, <1>4, ElementOfSeq
<1>6. \A l \in Lines : l[1] \in Threads /\ l[2] \in Nat
  BY DEF Lines
<1> QED BY <1>2, <1>3, <1>4, <1>5, <1>6

LEMMA Written ==
  ASSUME LogType, NEW t \in Threads, Write(t), data' # data
  PROVE  LET d == fd[t]
             c == Len(data[fd[t]])
         IN  /\ pc[t] = "write" /\ d \in Inodes /\ c \in Nat /\ Inodes' = Inodes
             /\ Len(data') = Len(data)
             /\ \A i \in Inodes \ {d} : data'[i] = data[i]
             /\ DOMAIN data[d] = 1 .. c /\ DOMAIN data'[d] = 1 .. c + 1
             /\ \A a \in 1 .. c : data'[d][a] = data[d][a]
             /\ data'[d][c + 1] = line[t]
<1> DEFINE d == fd[t]
           q == Append(data[d], line[t])
<1>1. /\ pc[t] = "write" /\ d \in 1 .. Len(data) /\ line[t] \in Lines
      /\ data' = [data EXCEPT ![d] = q]
  BY DEF Write, LogType
<1>2. data[d] \in Seq(Lines) /\ Len(data[d]) \in Nat /\ DOMAIN data[d] = 1 .. Len(data[d])
      /\ Inodes = 1 .. Len(data)
  BY <1>1, DataTypes
<1>3. /\ q \in Seq(Lines) /\ Len(q) = Len(data[d]) + 1
      /\ \A a \in 1 .. Len(data[d]) : q[a] = data[d][a]
      /\ q[Len(data[d]) + 1] = line[t]
  BY <1>1, <1>2, AppendProperties
<1>4. DOMAIN q = 1 .. Len(data[d]) + 1
  BY <1>3, LenProperties
<1> HIDE DEF q
<1>5. /\ data' \in Seq(Seq(Lines)) /\ Len(data') = Len(data)
      /\ \A j \in 1 .. Len(data) : data'[j] = IF j = d THEN q ELSE data[j]
  BY <1>1, <1>3, ExceptSeq DEF LogType
<1>6. Inodes' = 1 .. Len(data)
  BY <1>5, LenProperties DEF Inodes
<1> QED BY <1>1, <1>2, <1>3, <1>4, <1>5, <1>6

LEMMA Created ==
  ASSUME LogType, NEW t \in Threads, Open(t), dir[Base] = NONE
  PROVE  /\ Inodes' = 1 .. Len(data) + 1 /\ Len(data') = Len(data) + 1
         /\ \A i \in Inodes : data'[i] = data[i]
         /\ DOMAIN data'[Len(data) + 1] = {}
         /\ dir'[Base] = Len(data) + 1 /\ fd'[t] = Len(data) + 1
         /\ \A n \in Names \ {Base} : dir'[n] = dir[n]
         /\ Archives' = Archives
<1>1. /\ data \in Seq(Seq(Lines)) /\ data' = Append(data, <<>>) /\ <<>> \in Seq(Lines)
      /\ dir' = [dir EXCEPT ![Base] = Len(data) + 1] /\ fd' = [fd EXCEPT ![t] = Len(data) + 1]
  BY EmptySeq DEF Open, LogType
<1>2. /\ data' \in Seq(Seq(Lines)) /\ Len(data') = Len(data) + 1
      /\ \A i \in 1 .. Len(data) : data'[i] = data[i]
      /\ data'[Len(data) + 1] = <<>>
  BY <1>1, AppendProperties
<1>3. Inodes' = 1 .. Len(data) + 1 /\ Inodes = 1 .. Len(data)
  BY <1>1, <1>2, LenProperties DEF Inodes
<1>4. DOMAIN <<>> = {}
  OBVIOUS
<1>5. /\ dir'[Base] = Len(data) + 1 /\ fd'[t] = Len(data) + 1
      /\ \A n \in Names \ {Base} : dir'[n] = dir[n]
  BY <1>1, Numbers DEF LogType
<1>6. Archives' = Archives
  BY <1>5 DEF Archives
<1> QED BY <1>2, <1>3, <1>4, <1>5, <1>6

LEMMA NewestStep ==
  ASSUME LogType, NewestInv, [Next]_vars, LogType'
  PROVE  NewestInv'
<1> USE DEF PCs, Locking, Rotating
<1>0. lines \in Nat /\ dir \in [Names -> {NONE} \cup 1 .. Len(data)]
  BY DEF LogType
<1>1. ASSUME NEW t \in Threads, Open(t) PROVE NewestInv'
  <2>1. /\ pc[t] = "idle" /\ pc'[t] = "write" /\ lines' = lines + 1
        /\ line'[t][1] = t /\ line'[t][2] = lines + 1
        /\ \A u \in Threads \ {t} : pc'[u] = pc[u] /\ line'[u] = line[u] /\ fd'[u] = fd[u]
    BY <1>1 DEF Open, LogType
  <2>2. /\ dir'[Base] = Len(data') /\ fd'[t] = Len(data') /\ Len(data) <= Len(data')
        /\ \A i \in Inodes' : \A a \in DOMAIN data'[i] :
              i \in Inodes /\ a \in DOMAIN data[i] /\ data'[i][a] = data[i][a]
    <3>1. CASE dir[Base] = NONE
      BY <1>1, <3>1, Created, DataTypes
    <3>2. CASE dir[Base] # NONE
      <4>1. UNCHANGED <<dir, data>> /\ fd' = [fd EXCEPT ![t] = dir[Base]] /\ dir[Base] = Len(data)
        BY <1>1, <3>2 DEF Open, NewestInv
      <4> QED BY <4>1, DataTypes DEF LogType, Inodes
    <3> QED BY <3>1, <3>2
  <2>3. \A i \in Inodes : \A a \in DOMAIN data[i] :
          i <= Len(data) /\ i \in Nat /\ data[i][a][2] \in Nat /\ data[i][a][2] <= lines
    BY DataTypes DEF NewestInv
  <2>4. Len(data) \in Nat /\ Len(data') \in Nat
    BY LenProperties DEF LogType
  <2>5. \A i \in Inodes' : \A a \in DOMAIN data'[i] : data'[i][a][2] <= lines'
    BY <1>0, <2>1, <2>2, <2>3
  <2>6. ASSUME NEW i \in Inodes', NEW a \in DOMAIN data'[i], NEW u \in Threads,
               data'[i][a][1] = u, pc'[u] = "write"
        PROVE  data'[i][a][2] < line'[u][2] /\ i <= fd'[u]
    <3>1. CASE u = t
      BY <1>0, <2>1, <2>2, <2>3, <2>4, <2>6, <3>1
    <3>2. CASE u # t
      BY <2>1, <2>2, <2>6, <3>2 DEF NewestInv
    <3> QED BY <3>1, <3>2
  <2>7. ASSUME NEW u \in Threads, pc'[u] = "write"
        PROVE  line'[u][1] = u /\ line'[u][2] <= lines'
    <3>1. CASE u = t
      BY <1>0, <2>1, <3>1
    <3>2. CASE u # t
      <4>1. line[u] \in Lines
        BY <2>1, <2>7, <3>2 DEF LogType
      <4>2. line[u][2] \in Nat
        BY <4>1 DEF Lines
      <4> QED BY <1>0, <2>1, <2>7, <3>2, <4>2 DEF NewestInv
    <3> QED BY <3>1, <3>2
  <2> QED BY <2>2, <2>5, <2>6, <2>7 DEF NewestInv
\* A step that creates no file and writes nothing.
<1>2. ASSUME UNCHANGED <<data, lines>>, dir'[Base] \in {dir[Base], NONE},
             \A u \in Threads : pc'[u] = "write" =>
               pc[u] = "write" /\ line'[u] = line[u] /\ fd'[u] = fd[u]
      PROVE  NewestInv'
  BY <1>2 DEF NewestInv, Inodes
<1>3. ASSUME NEW t \in Threads, Write(t) PROVE NewestInv'
  <2>1. /\ pc'[t] # "write" /\ UNCHANGED <<dir, lines>> /\ pc[t] = "write"
        /\ \A u \in Threads \ {t} : pc'[u] = pc[u] /\ line'[u] = line[u] /\ fd'[u] = fd[u]
    <3>1. /\ Goto(t, "idle") \/ Goto(t, "stat")
          /\ fd' = [fd EXCEPT ![t] = NONE] /\ UNCHANGED <<dir, lines>> /\ pc[t] = "write"
      BY <1>3 DEF Write
    <3>2. \A u \in Threads \ {t} : fd'[u] = fd[u]
      BY <3>1 DEF LogType
    <3> QED BY <3>1, <3>2, GotoWhere
  <2>2. CASE data' = data
    BY <1>2, <2>1, <2>2
  <2>3. CASE data' # data
    <3> DEFINE d == fd[t]
               c == Len(data[fd[t]])
    <3>1. /\ d \in Inodes /\ c \in Nat /\ Inodes' = Inodes /\ Len(data') = Len(data)
          /\ \A i \in Inodes \ {d} : data'[i] = data[i]
          /\ DOMAIN data[d] = 1 .. c /\ DOMAIN data'[d] = 1 .. c + 1
          /\ \A a \in 1 .. c : data'[d][a] = data[d][a]
          /\ data'[d][c + 1] = line[t]
      BY <1>3, <2>3, Written
    <3> HIDE DEF d, c
    <3>2. \A i \in Inodes : \A a \in DOMAIN data'[i] :
            \/ a \in DOMAIN data[i] /\ data'[i][a] = data[i][a]
            \/ data'[i][a] = line[t]
      BY <3>1
    <3>3. line[t][1] = t /\ line[t][2] <= lines
      BY <2>1 DEF NewestInv
    <3>4. \A i \in Inodes' : \A a \in DOMAIN data'[i] : data'[i][a][2] <= lines'
      BY <2>1, <3>1, <3>2, <3>3 DEF NewestInv
    <3>5. ASSUME NEW i \in Inodes', NEW a \in DOMAIN data'[i], NEW u \in Threads,
                 data'[i][a][1] = u, pc'[u] = "write"
          PROVE  data'[i][a][2] < line'[u][2] /\ i <= fd'[u]
      <4>1. u # t /\ pc[u] = "write" /\ line'[u] = line[u] /\ fd'[u] = fd[u]
        BY <2>1, <3>5
      <4>2. i \in Inodes /\ a \in DOMAIN data[i] /\ data'[i][a] = data[i][a]
        BY <3>1, <3>2, <3>3, <3>5, <4>1
      <4> QED BY <3>5, <4>1, <4>2 DEF NewestInv
    <3> QED BY <2>1, <3>1, <3>4, <3>5 DEF NewestInv
  <2> QED BY <2>2, <2>3
<1>4. ASSUME NEW t \in Threads,
             \/ Stat(t) \/ TryLock(t) \/ SetLk(t) \/ Check(t) \/ AddArchiveFiles(t) \/ RollFiles(t)
             \/ RollBase(t) \/ Unlock(t) \/ UnlockMutex(t)
      PROVE  NewestInv'
  <2>1. (\E where \in PCs \ {"write"} : Goto(t, where)) \/ UNCHANGED <<pc, line>>
    BY <1>4 DEF Stat, TryLock, SetLk, Check, AddArchiveFiles, RollFiles, RollBase, Unlock,
       UnlockMutex
  <2>2. UNCHANGED <<data, lines, fd>>
    BY <1>4 DEF Stat, TryLock, SetLk, Check, AddArchiveFiles, RollFiles, RollBase, Unlock,
       UnlockMutex, fs
  <2>3. \A u \in Threads : pc'[u] = "write" =>
          pc[u] = "write" /\ line'[u] = line[u] /\ fd'[u] = fd[u]
    BY <2>1, <2>2, GotoWhere
  <2>4. dir'[Base] \in {dir[Base], NONE}
    <3>1. CASE RollFiles(t) /\ ~UNCHANGED dir
      <4>1. /\ files[t] \in Seq(Names) /\ files[t] # <<>>
            /\ Unlink(Last(files[t])) \/ Rename(Last(files[t]), Len(files[t]) - 1 + 1)
        BY <3>1 DEF RollFiles, LogType
      <4>2. Len(files[t]) \in Nat \ {0} /\ Last(files[t]) \in Names
        BY <4>1, FrontOf
      <4>3. Len(files[t]) - 1 + 1 # Base
        BY <4>2, Numbers
      <4> QED BY <1>0, <4>1, <4>2, <4>3, Numbers DEF Unlink, Rename
    <3>2. CASE RollBase(t) /\ ~UNCHANGED dir
      BY <1>0, <3>2, Numbers DEF RollBase, Rename
    <3>3. CASE UNCHANGED dir
      BY <3>3
    <3> QED BY <1>4, <3>1, <3>2, <3>3
            DEF Stat, TryLock, SetLk, Check, AddArchiveFiles, Unlock, UnlockMutex, fs
  <2> QED BY <1>2, <2>2, <2>3, <2>4
<1>5. ASSUME NEW p \in Procs, Crash(p) PROVE NewestInv'
  <2>1. /\ UNCHANGED <<dir, data, lines>>
        /\ pc' = [t \in Threads |-> IF ProcOf[t] = p THEN "idle" ELSE pc[t]]
        /\ line' = [t \in Threads |-> IF ProcOf[t] = p THEN NoLine ELSE line[t]]
        /\ fd' = [t \in Threads |-> IF ProcOf[t] = p THEN NONE ELSE fd[t]]
    BY <1>5 DEF Crash, fs
  <2> QED BY <1>2, <2>1
<1>6. CASE UNCHANGED vars
  BY <1>2, <1>6 DEF vars, fs, thread
<1> QED BY <1>1, <1>3, <1>4, <1>5, <1>6, StepSplit

LEMMA NamesStep ==
  ASSUME LogType, LockInv, ArchiveInv, NamesInOrder, [Next]_vars
  PROVE  NamesInOrder'
<1>0. /\ dir \in [Names -> {NONE} \cup 1 .. Len(data)] /\ Len(data) \in Nat
      /\ Inodes = 1 .. Len(data) /\ Own = (1 .. Len(data)) \ {1}
      /\ Archives \subseteq Names /\ \A n \in Archives : dir[n] \in 1 .. Len(data) /\ n # Base
      /\ \A n \in Names : n \in Int
  BY DataTypes, Numbers DEF LogType, Archives, Own
<1>1. ASSUME UNCHANGED dir, Inodes' = Inodes, amiss => amiss' PROVE NamesInOrder'
  <2>1. Archives' = Archives /\ Own' = Own
    BY <1>1 DEF Archives, Own
  <2> QED BY <1>1, <2>1 DEF NamesInOrder
<1>2. ASSUME NEW t \in Threads, Open(t), dir[Base] = NONE PROVE NamesInOrder'
  <2>1. /\ Archives' = Archives /\ dir'[Base] = Len(data) + 1 /\ Inodes' = 1 .. Len(data) + 1
        /\ \A n \in Archives : dir'[n] = dir[n]
    BY <1>0, <1>2, Created
  <2>2. (\A n \in Archives : dir[n] \in Own' <=> dir[n] \in Own) /\ amiss' = amiss
    BY <1>0, <1>2, <2>1 DEF Own, Open
  <2>3. ASSUME ~amiss, NEW n \in Archives', NEW m \in Archives', n < m,
               {dir'[n], dir'[m]} \subseteq Own'
        PROVE  dir'[n] > dir'[m]
    BY <2>1, <2>2, <2>3 DEF NamesInOrder
  <2>4. \A n \in Archives' : dir'[n] < dir'[Base]
    BY <1>0, <2>1
  <2> QED BY <2>2, <2>3, <2>4 DEF NamesInOrder
<1>3. ASSUME NEW x \in Names, Removed(x), Inodes' = Inodes, amiss' = amiss PROVE NamesInOrder'
  <2>1. /\ Archives' = Archives \ {x} /\ dir'[Base] = dir[Base]
        /\ \A n \in Archives' : dir'[n] = dir[n]
    BY <1>3, RollSets
  <2>2. Own' = Own
    BY <1>3 DEF Own
  <2> QED BY <1>3, <2>1, <2>2 DEF NamesInOrder
<1>4. ASSUME NEW x \in Names, NEW k \in Names, Moved(x, k), x # k, Inodes' = Inodes, amiss' = amiss
      PROVE  NamesInOrder'
  <2>1. /\ Archives' = (Archives \ {x}) \cup {k} /\ dir'[Base] = dir[Base]
        /\ dir'[k] = dir[x] /\ \A n \in Archives \ {x, k} : dir'[n] = dir[n]
    BY <1>4, RollSets
  <2>2. Own' = Own /\ x \in Archives
    BY <1>4 DEF Own, Moved
  <2>3. ~amiss => /\ k \notin Archives
                  /\ \A n \in Archives \ {x} :
                       n = Other \/ x = Other \/ ((n < x <=> n < k) /\ (n > x <=> n > k))
    BY <1>4 DEF Moved, Archives
  <2>4. dir[Other] \notin Own
    BY <1>0, Numbers DEF ArchiveInv
  <2>5. ASSUME ~amiss, NEW n \in Archives', NEW m \in Archives', n < m,
               {dir'[n], dir'[m]} \subseteq Own'
        PROVE  dir'[n] > dir'[m]
    <3>1. CASE n = k
      <4>1. m \in Archives \ {x} /\ m # k /\ dir'[m] = dir[m]
        BY <1>0, <2>1, <2>5, <3>1
      <4>2. {dir[x], dir[m]} \subseteq Own /\ x # Other /\ m # Other
        BY <2>1, <2>2, <2>4, <2>5, <3>1, <4>1
      <4>3. x < m
        BY <1>0, <2>2, <2>3, <2>5, <3>1, <4>1, <4>2
      <4> QED BY <2>1, <2>2, <2>5, <3>1, <4>1, <4>2, <4>3 DEF NamesInOrder
    <3>2. CASE m = k
      <4>1. n \in Archives \ {x} /\ n # k /\ dir'[n] = dir[n]
        BY <1>0, <2>1, <2>5, <3>2
      <4>2. {dir[x], dir[n]} \subseteq Own /\ x # Other /\ n # Other
        BY <2>1, <2>2, <2>4, <2>5, <3>2, <4>1
      <4>3. n < x
        BY <1>0, <2>2, <2>3, <2>5, <3>2, <4>1, <4>2
      <4> QED BY <2>1, <2>2, <2>5, <3>2, <4>1, <4>2, <4>3 DEF NamesInOrder
    <3>3. CASE n # k /\ m # k
      <4>1. n \in Archives /\ m \in Archives /\ dir'[n] = dir[n] /\ dir'[m] = dir[m]
        BY <2>1, <2>5, <3>3
      <4> QED BY <2>2, <2>5, <4>1 DEF NamesInOrder
    <3> QED BY <3>1, <3>2, <3>3
  <2>6. dir'[Base] # NONE => \A n \in Archives' : dir'[n] < dir'[Base]
    BY <2>1, <2>2 DEF NamesInOrder
  <2> QED BY <1>4, <2>5, <2>6 DEF NamesInOrder
<1>5. ASSUME NEW t \in Threads, RollBase(t) PROVE NamesInOrder'
  <2>1. (amiss \/ \A x \in Archives : x > 0) /\ UNCHANGED <<data, amiss>>
    BY <1>5, BaseRolled DEF RollBase
  <2>2. Inodes' = Inodes /\ Own' = Own
    BY <2>1 DEF Inodes, Own
  <2>3. CASE UNCHANGED dir
    BY <1>1, <2>1, <2>2, <2>3
  <2>4. CASE Rename(Base, 0)
    <3>1. /\ dir'[0] = dir[Base] /\ dir'[Base] = NONE
          /\ \A n \in Names \ {0, Base} : dir'[n] = dir[n]
      BY <1>0, <2>4, Numbers DEF Rename
    <3>2. /\ Archives' \subseteq Archives \cup {0}
          /\ 0 \in Archives' => dir[Base] # NONE
      BY <3>1 DEF Archives
    <3>3. ASSUME ~amiss, NEW n \in Archives', NEW m \in Archives', n < m,
                 {dir'[n], dir'[m]} \subseteq Own'
          PROVE  dir'[n] > dir'[m]
      <4>1. \A x \in Archives : x > 0 /\ x # 0 /\ dir'[x] = dir[x]
        BY <1>0, <2>1, <3>1, <3>3
      <4>2. CASE n = 0
        <5>1. m \in Archives /\ dir[Base] # NONE
          BY <3>2, <3>3, <4>2
        <5>2. dir[m] < dir[Base] /\ dir[m] \in Int /\ dir[Base] \in Int
          BY <1>0, <5>1, Numbers DEF NamesInOrder
        <5> QED BY <3>1, <4>1, <4>2, <5>1, <5>2
      <4>3. CASE m = 0
        <5>1. n \in Archives
          BY <3>2, <3>3, <4>3
        <5> QED BY <1>0, <3>3, <4>1, <4>3, <5>1
      <4>4. CASE n # 0 /\ m # 0
        BY <2>2, <3>2, <3>3, <4>1, <4>4 DEF NamesInOrder
      <4> QED BY <4>2, <4>3, <4>4
    <3> QED BY <2>1, <3>1, <3>3 DEF NamesInOrder
  <2> QED BY <1>5, <2>3, <2>4 DEF RollBase
<1>6. ASSUME NEW t \in Threads, RollFiles(t) PROVE NamesInOrder'
  <2>1. Inodes' = Inodes /\ amiss' = amiss
    BY <1>6 DEF RollFiles, Inodes
  <2>2. \/ \E m \in Names : Removed(m)
        \/ \E m, k \in Names : Moved(m, k)
        \/ UNCHANGED <<dir, gone>>
    BY <1>6, Rolled
  <2>3. \A m, k \in Names : Moved(m, k) /\ m = k => UNCHANGED dir
    BY RollSets
  <2> QED BY <1>1, <1>3, <1>4, <2>1, <2>2, <2>3
<1>7. ASSUME NEW t \in Threads, Write(t) PROVE NamesInOrder'
  <2>1. UNCHANGED <<dir, amiss>> /\ Inodes' = Inodes
    BY <1>7 DEF Write, Inodes, fs
  <2> QED BY <1>1, <2>1
<1>8. ASSUME NEW t \in Threads, Open(t), dir[Base] # NONE PROVE NamesInOrder'
  BY <1>1, <1>8 DEF Open, Inodes
<1>9. ASSUME \/ \E t \in Threads : \/ Stat(t) \/ TryLock(t) \/ SetLk(t) \/ Check(t)
                                   \/ AddArchiveFiles(t) \/ Unlock(t) \/ UnlockMutex(t)
             \/ \E p \in Procs : Crash(p)
             \/ UNCHANGED vars
      PROVE  NamesInOrder'
  <2>1. UNCHANGED <<dir, data>>
    BY <1>9 DEF Stat, TryLock, SetLk, Check, AddArchiveFiles, Unlock, UnlockMutex, Crash, vars, fs
  <2>2. amiss => amiss'
    BY <1>9, AmissStays
  <2> QED BY <1>1, <2>1, <2>2 DEF Inodes
<1> QED BY <1>2, <1>5, <1>6, <1>7, <1>8, <1>9, StepSplit

LEMMA LinesStep ==
  ASSUME LogType, NewestInv, LinesInOrder, [Next]_vars
  PROVE  LinesInOrder'
<1>1. ASSUME UNCHANGED data PROVE LinesInOrder'
  BY <1>1 DEF LinesInOrder, Inodes
<1>2. ASSUME NEW t \in Threads, Open(t), dir[Base] = NONE PROVE LinesInOrder'
  <2>1. \A i \in Inodes' : \A a \in DOMAIN data'[i] :
          i \in Inodes /\ a \in DOMAIN data[i] /\ data'[i][a] = data[i][a]
    BY <1>2, Created, DataTypes
  <2> QED BY <2>1 DEF LinesInOrder
<1>3. ASSUME NEW t \in Threads, Write(t), data' # data PROVE LinesInOrder'
  <2> DEFINE d == fd[t]
             c == Len(data[fd[t]])
  <2>1. /\ pc[t] = "write" /\ d \in Inodes /\ c \in Nat /\ Inodes' = Inodes
        /\ \A i \in Inodes \ {d} : data'[i] = data[i]
        /\ DOMAIN data[d] = 1 .. c /\ DOMAIN data'[d] = 1 .. c + 1
        /\ \A a \in 1 .. c : data'[d][a] = data[d][a]
        /\ data'[d][c + 1] = line[t]
    BY <1>3, Written
  <2>2. \A i \in Inodes : \A a \in DOMAIN data[i] :
          data[i][a][1] = t => data[i][a][2] < line[t][2] /\ i <= d
    BY <2>1 DEF NewestInv
  <2>3. line[t][1] = t /\ line[t][2] \in Nat
    <3>1. line[t] \in Lines
      BY <2>1 DEF LogType
    <3> QED BY <2>1, <3>1 DEF NewestInv, Lines
  <2>4. \A i \in Inodes : i \in Nat /\ \A a \in DOMAIN data[i] : data[i][a][2] \in Nat /\ a \in Nat
    BY DataTypes
  <2> HIDE DEF d, c
  <2>5. \A i \in Inodes : \A a \in DOMAIN data'[i] :
          \/ a \in DOMAIN data[i] /\ data'[i][a] = data[i][a]
          \/ i = d /\ a = c + 1 /\ data'[i][a] = line[t]
    BY <2>1
  <2>6. ASSUME NEW i \in Inodes, NEW j \in Inodes, NEW a \in DOMAIN data'[i],
               NEW b \in DOMAIN data'[j],
               data'[i][a][1] = data'[j][b][1], data'[i][a][2] < data'[j][b][2]
        PROVE  i < j \/ (i = j /\ a < b)
    <3>1. CASE /\ a \in DOMAIN data[i] /\ data'[i][a] = data[i][a]
               /\ b \in DOMAIN data[j] /\ data'[j][b] = data[j][b]
      BY <2>6, <3>1 DEF LinesInOrder
    <3>2. CASE /\ a \in DOMAIN data[i] /\ data'[i][a] = data[i][a]
               /\ j = d /\ b = c + 1 /\ data'[j][b] = line[t]
      <4>1. i <= d
        BY <2>2, <2>3, <2>6, <3>2
      <4>2. i = d => a \in 1 .. c
        BY <2>1, <3>2
      <4> QED BY <2>1, <2>4, <3>2, <4>1, <4>2
    <3>3. CASE /\ i = d /\ a = c + 1 /\ data'[i][a] = line[t]
               /\ b \in DOMAIN data[j] /\ data'[j][b] = data[j][b]
      <4>1. data[j][b][2] < line[t][2] /\ data[j][b][2] \in Nat
        BY <2>2, <2>3, <2>4, <2>6, <3>3
      <4> QED BY <2>3, <2>6, <3>3, <4>1
    <3>4. CASE data'[i][a] = line[t] /\ data'[j][b] = line[t]
      BY <2>3, <2>6, <3>4
    <3> QED BY <2>5, <3>1, <3>2, <3>3, <3>4
  <2> QED BY <2>1, <2>6 DEF LinesInOrder
<1>4. ASSUME NEW t \in Threads, Open(t), dir[Base] # NONE PROVE UNCHANGED data
  BY <1>4 DEF Open
<1>5. ASSUME \/ \E t \in Threads : \/ Stat(t) \/ TryLock(t) \/ SetLk(t) \/ Check(t)
                                   \/ AddArchiveFiles(t) \/ RollFiles(t) \/ RollBase(t)
                                   \/ Unlock(t) \/ UnlockMutex(t)
             \/ \E p \in Procs : Crash(p)
             \/ UNCHANGED vars
      PROVE  UNCHANGED data
  BY <1>5 DEF Stat, TryLock, SetLk, Check, AddArchiveFiles, RollFiles, RollBase, Unlock, UnlockMutex,
     Crash, vars, fs
<1> QED BY <1>1, <1>2, <1>3, <1>4, <1>5, StepSplit

LEMMA LogInit ==
  ASSUME Init
  PROVE  NewestInv /\ NamesInOrder /\ LinesInOrder
<1>1. PICK old \in SUBSET (0 .. MaxCount - 1), stray \in BOOLEAN :
        /\ \A n \in old : n \in Names /\ n # Base /\ n # Other
        /\ \A i \in Inodes : DOMAIN data[i] = {}
        /\ \A n \in Names \ old : dir[n] = IF stray /\ n = Other THEN 1 ELSE NONE
        /\ \A n, m \in old : n < m => dir[n] > dir[m]
  BY Starts
<1>2. dir[Base] = NONE
  BY <1>1, Numbers
<1>3. \A n \in Archives : dir[n] \in Own => n \in old
  BY <1>1 DEF Archives, Own
<1>4. NewestInv
  BY <1>1, <1>2 DEF Init, NewestInv
<1>5. NamesInOrder
  BY <1>1, <1>2, <1>3 DEF NamesInOrder
<1> QED BY <1>1, <1>4, <1>5 DEF LinesInOrder

\* Read from the highest number down to the log file, the log is in order, whichever
\* thread wrote to a file that was moved meanwhile and wherever a rotation was cut off; the
\* archives among themselves as long as no rotation went amiss.
THEOREM AlwaysInOrder == Spec => []LogInOrder
<1> DEFINE Inv == LogType /\ LockInv /\ ArchiveInv /\ NewestInv /\ NamesInOrder /\ LinesInOrder
<1>1. Init => Inv
  BY TypeInit, LockInit, ArchiveInit, LogInit
<1>2. Inv /\ [Next]_vars => Inv'
  BY TypeStep, LockStep, ArchiveStep, NewestStep, NamesStep, LinesStep
<1>3. Inv => LogInOrder
  BY DEF NamesInOrder, LinesInOrder, LogInOrder
<1> QED BY <1>1, <1>2, <1>3, PTL DEF Spec

-----------------------------------------------------------------------------
(* The archives that are kept.                                             *)


\* The number of archives.
LEMMA CardStep ==
  ASSUME LogType, LockInv, ArchiveInv, [Next]_vars
  PROVE  \/ amiss
         \/ Cardinality(Archives') <= MaxCount
         \/ Cardinality(Archives') <= Cardinality(Archives)
<1>0. /\ IsFiniteSet(Archives) /\ Cardinality(Archives) \in Nat
      /\ \A n \in Archives : n \in Names /\ n # Base /\ (n = Other \/ n \in Nat)
  BY ArchiveFacts
<1>1. ASSUME Archives' = Archives PROVE Cardinality(Archives') <= Cardinality(Archives)
  BY <1>0, <1>1
<1>2. ASSUME NEW m \in Names, Removed(m) PROVE Cardinality(Archives') <= Cardinality(Archives)
  <2>1. Archives' \in SUBSET Archives
    BY <1>2, RollSets
  <2> QED BY <1>0, <2>1, FS_Subset
<1>3. ASSUME NEW m \in Names, NEW k \in Names, Moved(m, k), m # k
      PROVE  Cardinality(Archives') <= Cardinality(Archives)
  <2>1. m \in Archives /\ Archives' = (Archives \ {m}) \cup {k}
    BY <1>3, RollSets DEF Moved
  <2>2. /\ IsFiniteSet(Archives \ {m}) /\ Cardinality(Archives \ {m}) = Cardinality(Archives) - 1
    BY <1>0, <2>1, FS_RemoveElement
  <2>3. Cardinality((Archives \ {m}) \cup {k}) <= Cardinality(Archives \ {m}) + 1
    <3>1. Cardinality(Archives \ {m}) \in Nat
      BY <2>2, FS_CardinalityType
    <3>2. Cardinality((Archives \ {m}) \cup {k}) =
            IF k \in Archives \ {m} THEN Cardinality(Archives \ {m}) ELSE Cardinality(Archives \ {m}) + 1
      BY <2>2, FS_AddElement
    <3> QED BY <3>1, <3>2
  <2> QED BY <1>0, <2>1, <2>2, <2>3
<1>4. ASSUME NEW t \in Threads, RollBase(t), ~amiss
      PROVE  \/ Cardinality(Archives') <= MaxCount
             \/ Cardinality(Archives') <= Cardinality(Archives)
  <2>1. (\A x \in Archives : x > 0) /\ ArchiveInv' /\ (UNCHANGED dir \/ Rename(Base, 0))
    BY <1>4, BaseRolled
  <2>2. CASE UNCHANGED dir
    BY <1>1, <2>2 DEF Archives
  <2>3. CASE Rename(Base, 0)
    <3>1. \A x \in Names : dir'[x] = IF x = 0 THEN dir[Base] ELSE IF x = Base THEN NONE ELSE dir[x]
      BY <2>3, Numbers DEF Rename, LogType
    <3>2. Archives' \subseteq Archives \cup {0}
      BY <3>1 DEF Archives
    <3>3. \A x \in Archives' : x \in Nat /\ x < MaxCount
      BY <1>0, <2>1, <3>2, Numbers DEF ArchiveInv
    <3>4. Archives' \in SUBSET (0 .. MaxCount - 1)
      BY <3>3, Numbers
    <3>5. IsFiniteSet(0 .. MaxCount - 1) /\ Cardinality(0 .. MaxCount - 1) = MaxCount
      <4>1. MaxCount \in Nat \ {0}
        BY Numbers
      <4>2. 0 \in Int /\ MaxCount - 1 \in Int /\ ~(0 > MaxCount - 1)
            /\ MaxCount - 1 - 0 + 1 = MaxCount
        BY <4>1
      <4> QED BY <4>2, FS_Interval
    <3>6. Cardinality(Archives') <= Cardinality(0 .. MaxCount - 1)
      BY <3>4, <3>5, FS_Subset
    <3> QED BY <3>5, <3>6
  <2> QED BY <2>1, <2>2, <2>3
<1>5. ASSUME NEW t \in Threads, RollFiles(t)
      PROVE  Cardinality(Archives') <= Cardinality(Archives)
  <2>1. \/ \E m \in Names : Removed(m)
        \/ \E m, k \in Names : Moved(m, k)
        \/ UNCHANGED <<dir, gone>>
    BY <1>5, Rolled
  <2>2. UNCHANGED dir => Archives' = Archives
    BY DEF Archives
  <2>3. \A m, k \in Names : Moved(m, k) /\ m = k => UNCHANGED Archives
    BY RollSets
  <2> QED BY <1>1, <1>2, <1>3, <2>1, <2>2, <2>3
<1>6. ASSUME \/ \E t \in Threads : \/ Open(t) \/ Write(t) \/ Stat(t) \/ TryLock(t) \/ SetLk(t)
                                   \/ Check(t) \/ AddArchiveFiles(t) \/ Unlock(t) \/ UnlockMutex(t)
             \/ \E p \in Procs : Crash(p)
             \/ UNCHANGED vars
      PROVE  Archives' = Archives
  <2>1. ASSUME NEW t \in Threads, Open(t) PROVE Archives' = Archives
    <3>1. dir[Base] # NONE => UNCHANGED dir
      BY <2>1 DEF Open
    <3>2. UNCHANGED dir => Archives' = Archives
      BY DEF Archives
    <3> QED BY <2>1, <3>1, <3>2, Created
  <2>2. (\E t \in Threads : Open(t)) \/ UNCHANGED dir
    BY <1>6 DEF Write, Stat, TryLock, SetLk, Check, AddArchiveFiles, Unlock, UnlockMutex, Crash, vars, fs
  <2> QED BY <2>1, <2>2 DEF Archives
<1> QED BY <1>1, <1>4, <1>5, <1>6, StepSplit

LEMMA GoneStep ==
  ASSUME LogType, LockInv, ArchiveInv, NamesInOrder, [Next]_vars, NEW i \in gone' \ gone
  PROVE  /\ Cardinality(Archives') >= MaxCount - 1
         /\ amiss \/ i \notin Own \/ \A n \in Archives' : dir'[n] \in Own => dir'[n] > i
<1>1. PICK m \in Names : Removed(m)
  <2>1. ASSUME NEW t \in Threads, RollFiles(t) PROVE \E m \in Names : Removed(m)
    BY <2>1, Rolled DEF Moved, Rename
  <2>2. ASSUME \/ \E t \in Threads : \/ Open(t) \/ Write(t) \/ Stat(t) \/ TryLock(t) \/ SetLk(t)
                                     \/ Check(t) \/ AddArchiveFiles(t) \/ RollBase(t) \/ Unlock(t)
                                     \/ UnlockMutex(t)
               \/ \E p \in Procs : Crash(p)
               \/ UNCHANGED vars
        PROVE  gone' = gone
    BY <2>2 DEF Open, Write, Stat, TryLock, SetLk, Check, AddArchiveFiles, RollBase, Rename, Unlock,
       UnlockMutex, Crash, vars, fs
  <2> QED BY <2>1, <2>2, StepSplit
<1>2. /\ i = dir[m] /\ m \in Archives /\ Cardinality(Archives \ {m}) >= MaxCount - 1
      /\ amiss \/ \A n \in Archives \ {m} : n = Other \/ m = Other \/ n < m
  BY <1>1 DEF Removed, Unlink
<1>3. Archives' = Archives \ {m} /\ \A n \in Archives' : dir'[n] = dir[n]
  BY <1>1, RollSets
<1>4. dir[Other] \notin Own
  BY DataTypes, Numbers DEF ArchiveInv, Own
<1>5. ASSUME ~amiss, i \in Own, NEW n \in Archives', dir'[n] \in Own PROVE dir'[n] > i
  <2>1. n \in Archives \ {m} /\ dir'[n] = dir[n] /\ n # Other /\ m # Other
    BY <1>2, <1>3, <1>4, <1>5
  <2>2. n < m
    BY <1>2, <1>5, <2>1
  <2> QED BY <1>2, <1>5, <2>1, <2>2 DEF NamesInOrder
<1> QED BY <1>2, <1>3, <1>5

\* The archives do not become more than archive_max_count, and one is unlinked only when
\* archive_max_count - 1 others are there, all of them newer, as long as no rotation went
\* amiss: the removal of one too early is excluded even then.
THEOREM NewestAreKept == Spec => KeepsNewest
<1> DEFINE Inv == LogType /\ LockInv /\ ArchiveInv /\ NewestInv /\ NamesInOrder
           Kept == /\ \/ amiss \/ Cardinality(Archives') <= MaxCount
                      \/ Cardinality(Archives') <= Cardinality(Archives)
                   /\ \A i \in gone' \ gone :
                         /\ Cardinality(Archives') >= MaxCount - 1
                         /\ amiss \/ i \notin Own \/ \A n \in Archives' :
                              dir'[n] \in Own => dir'[n] > i
<1>1. Init => Inv
  BY TypeInit, LockInit, ArchiveInit, LogInit
<1>2. Inv /\ [Next]_vars => Inv'
  BY TypeStep, LockStep, ArchiveStep, NewestStep, NamesStep
<1>3. Inv /\ [Next]_vars => [Kept]_vars
  BY CardStep, GoneStep
<1> QED BY <1>1, <1>2, <1>3, PTL DEF Spec, KeepsNewest
=============================================================================
