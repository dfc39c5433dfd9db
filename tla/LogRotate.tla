------------------------------ MODULE LogRotate ------------------------------
(***************************************************************************)
(* The log file and its archives.  Every log line of pcs_sim goes through  *)
(* zlog (component/zlog) by the rule of cfg/log.conf:                      *)
(*     my_cat.*  "pcssim.log", 1mb * 10 ~ "pcssim.log.#r"                  *)
(* i.e. a file, a size, a number of archives and the rolling scheme.  The  *)
(* threads of several processes append to the same file; whoever finds it  *)
(* full rolls the archives under a mutex (threads) and a record lock       *)
(* (processes).  Processes crash between any two system calls and are      *)
(* started again; a call may fail.                                         *)
(*                                                                         *)
(* A file is an i-node: a name may be moved to another one while a thread  *)
(* holds the file open.  I-nodes are numbered in the order of creation.    *)
(***************************************************************************)
EXTENDS Integers, Sequences, FiniteSets, SequencesExt

CONSTANTS
    Threads,        \* the threads that write log lines
    Procs,          \* the processes
    ProcOf,         \* the process of each thread
    MaxCount,       \* archive_max_count, 10 in cfg/log.conf
    MaxSize,        \* archive_max_size, here in units of the shortest line
    Lens,           \* the lengths of a line
    Olds,           \* the sets of numbers the archives of earlier runs may have
    MaxLines,       \* bound: lines written
    MaxCrashes,     \* bound: crashes of a process
    MaxFaults       \* bound: system calls that fail

ASSUME LogAssumption ==
    /\ ProcOf \in [Threads -> Procs]
    /\ MaxCount \in Nat \ {0} /\ MaxSize \in Nat \ {0}
    /\ Lens \subseteq Nat \ {0} /\ Olds \subseteq SUBSET (0 .. MaxCount - 1)
    /\ MaxLines \in Nat /\ MaxCrashes \in Nat /\ MaxFaults \in Nat

NONE == -1                          \* no i-node, no thread, no process
ASSUME NoneAssumption == NONE \notin Threads /\ NONE \notin Procs

Base == -1                          \* the name pcssim.log
Other == -2                         \* the name of a file that matches without a number
Names == Other .. MaxCount          \* n >= 0 stands for pcssim.log.n

VARIABLES
    dir,        \* the directory: name -> i-node or NONE
    data,       \* i-node -> its lines; the sequence's length counts i-nodes
    gone,       \* history: the i-nodes the rotater unlinked
    amiss,      \* history: a rotation began that moves archives past each other
    pc,         \* where each thread is
    line,       \* the line each thread writes, of <<thread, number, length>>
    fd,         \* the i-node each thread has open
    files,      \* a_rotater->files from the first to the one to move next
    mutex,      \* per process: the thread that holds lock_mutex
    flock,      \* the process that holds the record lock on lock_fd
    lines, crashes, faults

thread == <<pc, line, fd, files>>
locks == <<mutex, flock>>
fs == <<dir, data, gone, amiss>>
vars == <<fs, thread, locks, lines, crashes, faults>>

Inodes == DOMAIN data
Archives == {n \in Names \ {Base} : dir[n] # NONE}

Size(i) == FoldSeq(LAMBDA l, s : l[3] + s, 0, data[i])

NoLine == <<0, 0, 0>>

\* A thread that is done with its line has none.
Goto(t, where) ==
    /\ pc' = [pc EXCEPT ![t] = where]
    /\ line' = IF where = "idle" THEN [line EXCEPT ![t] = NoLine] ELSE line

Fault == faults < MaxFaults /\ faults' = faults + 1

\* The directory holds what earlier runs left there, of which some may have been
\* deleted since: archives with any numbers, a higher number for an older file.
\* I-node 1 is a file of somebody else whose name matches the pattern, if there is one.
Init ==
    /\ \E old \in Olds, stray \in BOOLEAN :
          /\ data = [i \in 1 .. Cardinality(old) + 1 |-> <<>>]
          /\ dir = [n \in Names |->
                IF n \in old THEN Cardinality({m \in old : m >= n}) + 1
                ELSE IF stray /\ n = Other THEN 1 ELSE NONE]
          /\ gone = IF stray THEN {} ELSE {1}
    /\ amiss = FALSE
    /\ pc = [t \in Threads |-> "idle"]
    /\ line = [t \in Threads |-> NoLine]
    /\ fd = [t \in Threads |-> NONE]
    /\ files = [t \in Threads |-> <<>>]
    /\ mutex = [p \in Procs |-> NONE] /\ flock = NONE
    /\ lines = 0 /\ crashes = 0 /\ faults = 0

(***************************************************************************)
(* Writing a line.                                                         *)
(***************************************************************************)

\* The line is formatted and the file opened, and created if need be.
Open(t) ==
    /\ pc[t] = "idle" /\ lines < MaxLines
    /\ lines' = lines + 1
    /\ \E len \in Lens : line' = [line EXCEPT ![t] = <<t, lines + 1, len>>]
    /\ IF dir[Base] # NONE
       THEN fd' = [fd EXCEPT ![t] = dir[Base]] /\ UNCHANGED <<dir, data>>
       ELSE /\ data' = Append(data, <<>>)
            /\ dir' = [dir EXCEPT ![Base] = Len(data) + 1]
            /\ fd' = [fd EXCEPT ![t] = Len(data) + 1]
    /\ pc' = [pc EXCEPT ![t] = "write"]
    /\ UNCHANGED <<gone, amiss, files, locks, crashes, faults>>

\* O_APPEND: a write goes to the end of the file that was opened, whatever its
\* name is by now.  A line longer than an archive starts no rotation.
Write(t) ==
    /\ pc[t] = "write"
    /\ \/ /\ data' = [data EXCEPT ![fd[t]] = Append(@, line[t])]
          /\ Goto(t, IF line[t][3] > MaxSize THEN "idle" ELSE "stat")
          /\ UNCHANGED faults
       \/ Fault /\ Goto(t, "idle") /\ UNCHANGED data
    /\ fd' = [fd EXCEPT ![t] = NONE]
    /\ UNCHANGED <<dir, gone, amiss, files, locks, lines, crashes>>

\* The size is looked at without a lock, by name.
Stat(t) ==
    /\ pc[t] = "stat"
    /\ Goto(t, IF dir[Base] = NONE \/ Size(dir[Base]) + line[t][3] < MaxSize
               THEN "idle" ELSE "trylock")
    /\ UNCHANGED <<fs, fd, files, locks, lines, crashes, faults>>

(***************************************************************************)
(* Rotating.                                                               *)
(***************************************************************************)

TryLock(t) ==
    /\ pc[t] = "trylock"
    /\ IF mutex[ProcOf[t]] = NONE
       THEN mutex' = [mutex EXCEPT ![ProcOf[t]] = t] /\ Goto(t, "setlk")
       ELSE Goto(t, "idle") /\ UNCHANGED mutex
    /\ UNCHANGED <<fs, fd, files, flock, lines, crashes, faults>>

MutSetLk(t) ==
    /\ pc[t] = "setlk"
    /\ flock' = (IF flock = NONE THEN ProcOf[t] ELSE flock)
    /\ Goto(t, "check")
    /\ UNCHANGED <<fs, fd, files, mutex, lines, crashes, faults>>

\* F_SETLK does not wait, and a process never conflicts with itself.
SetLk(t) ==
    /\ pc[t] = "setlk"
    /\ IF flock \in {NONE, ProcOf[t]}
       THEN flock' = ProcOf[t] /\ Goto(t, "check") /\ UNCHANGED mutex
       ELSE /\ mutex' = [mutex EXCEPT ![ProcOf[t]] = NONE]
            /\ Goto(t, "idle") /\ UNCHANGED flock
    /\ UNCHANGED <<fs, fd, files, lines, crashes, faults>>

\* The file is looked at again: another process may have rotated it.
Check(t) ==
    /\ pc[t] = "check"
    /\ Goto(t, IF dir[Base] = NONE \/ Size(dir[Base]) + line[t][3] <= MaxSize
               THEN "unlk" ELSE "list")
    /\ UNCHANGED <<fs, fd, files, locks, lines, crashes, faults>>

\* A name without a number scans as index 0.
Index(n) == IF n = Other THEN 0 ELSE n

\* The archives by index; equal ones in the order glob happens to find them.
Sorted(list) == \A i, j \in DOMAIN list : i < j => Index(list[i]) <= Index(list[j])

\* An archive is left out of the list, or one that is not the last in it has a number
\* higher than its place: the next one is given a number that is not above it.
Amiss(list) ==
    \/ Len(list) < Cardinality(Archives)
    \/ \E i \in 1 .. Len(list) - 1 : Index(list[i]) > i

MutAddArchiveFiles(t) ==
    /\ pc[t] = "list"
    /\ \/ /\ \E left \in SUBSET Archives :
                /\ faults' = faults + Cardinality(left) /\ faults' <= MaxFaults
                /\ \E list \in SetToSeqs(Archives \ left) :
                      /\ files' = [files EXCEPT ![t] = list]
                      /\ amiss' = (amiss \/ Amiss(list))
          /\ Goto(t, "roll")
       \/ Fault /\ Goto(t, "unlk") /\ UNCHANGED <<files, amiss>>
    /\ UNCHANGED <<dir, data, gone, fd, locks, lines, crashes>>

\* An archive for whose entry there is no memory is left out; any other failure ends
\* the rotation.
AddArchiveFiles(t) ==
    /\ pc[t] = "list"
    /\ \/ /\ \E left \in SUBSET Archives :
                /\ faults' = faults + Cardinality(left) /\ faults' <= MaxFaults
                /\ \E list \in SetToSeqs(Archives \ left) :
                      /\ Sorted(list) /\ files' = [files EXCEPT ![t] = list]
                      /\ amiss' = (amiss \/ Amiss(list))
          /\ Goto(t, "roll")
       \/ Fault /\ Goto(t, "unlk") /\ UNCHANGED <<files, amiss>>
    /\ UNCHANGED <<dir, data, gone, fd, locks, lines, crashes>>

Unlink(n) == dir' = [dir EXCEPT ![n] = NONE] /\ gone' = gone \cup {dir[n]}

\* rename(2) replaces what has the new name.
Rename(old, new) ==
    /\ dir' = [dir EXCEPT ![old] = NONE, ![new] = dir[old]]
    /\ UNCHANGED gone

MutRollEarly(t) ==
    /\ pc[t] = "roll" /\ files[t] # <<>>
    /\ LET n == Last(files[t]) IN
       \/ /\ IF n >= MaxCount - 1
             THEN Unlink(n) ELSE Rename(n, Len(files[t]))
          /\ files' = [files EXCEPT ![t] = Front(@)]
          /\ UNCHANGED <<pc, line, faults>>
       \/ Fault /\ Goto(t, "unlk") /\ UNCHANGED <<dir, gone, files>>
    /\ UNCHANGED <<data, amiss, fd, locks, lines, crashes>>

\* From the last file to the first: one too many is removed, the others get the
\* number after their place in the list.
RollFiles(t) ==
    /\ pc[t] = "roll" /\ files[t] # <<>>
    /\ LET n == Last(files[t])
           i == Len(files[t]) - 1 IN
       \/ /\ IF i >= MaxCount - 1 THEN Unlink(n) ELSE Rename(n, i + 1)
          /\ files' = [files EXCEPT ![t] = Front(@)]
          /\ UNCHANGED <<pc, line, faults>>
       \/ Fault /\ Goto(t, "unlk") /\ UNCHANGED <<dir, gone, files>>
    /\ UNCHANGED <<data, amiss, fd, locks, lines, crashes>>

RollBase(t) ==
    /\ pc[t] = "roll" /\ files[t] = <<>>
    /\ \/ Rename(Base, 0) /\ UNCHANGED faults
       \/ Fault /\ UNCHANGED <<dir, gone>>
    /\ Goto(t, "unlk")
    /\ UNCHANGED <<data, amiss, fd, files, locks, lines, crashes>>

\* The list is freed and the record lock given back, then the mutex.
Unlock(t) ==
    /\ pc[t] = "unlk"
    /\ flock' = NONE
    /\ files' = [files EXCEPT ![t] = <<>>]
    /\ Goto(t, "unmutex")
    /\ UNCHANGED <<fs, fd, mutex, lines, crashes, faults>>

UnlockMutex(t) ==
    /\ pc[t] = "unmutex"
    /\ mutex' = [mutex EXCEPT ![ProcOf[t]] = NONE]
    /\ Goto(t, "idle")
    /\ UNCHANGED <<fs, fd, files, flock, lines, crashes, faults>>

\* A process dies and is started again.  The system closes its files, which
\* gives back its record lock; the mutex is in its memory.
Crash(p) ==
    LET Dead == {t \in Threads : ProcOf[t] = p} IN
    /\ crashes < MaxCrashes /\ crashes' = crashes + 1
    /\ pc' = [t \in Threads |-> IF t \in Dead THEN "idle" ELSE pc[t]]
    /\ line' = [t \in Threads |-> IF t \in Dead THEN NoLine ELSE line[t]]
    /\ fd' = [t \in Threads |-> IF t \in Dead THEN NONE ELSE fd[t]]
    /\ files' = [t \in Threads |-> IF t \in Dead THEN <<>> ELSE files[t]]
    /\ mutex' = [mutex EXCEPT ![p] = NONE]
    /\ flock' = IF flock = p THEN NONE ELSE flock
    /\ UNCHANGED <<fs, lines, faults>>

Step(t) ==
    \/ Open(t) \/ Write(t) \/ Stat(t)
    \/ TryLock(t) \/ SetLk(t) \/ Check(t) \/ AddArchiveFiles(t)
    \/ RollFiles(t) \/ RollBase(t) \/ Unlock(t) \/ UnlockMutex(t)

Next == (\E t \in Threads : Step(t)) \/ (\E p \in Procs : Crash(p))

Spec == Init /\ [][Next]_vars

(***************************************************************************)
(* Properties.                                                             *)
(***************************************************************************)

Own == Inodes \ {1}                 \* the files zlog created

\* rename(2) replaces an existing file without a word, so moving archives in the
\* wrong order, from a stale list, or after a rotation was cut off half way
\* could wipe one out: each file is in the directory until the rotater itself
\* unlinks it as the oldest.  Not so once a rotation began that left an archive out
\* or gave one a number that a newer archive still has.
NothingOverwritten ==
    amiss \/ \A i \in Inodes : i \in gone \/ \E n \in Names : dir[n] = i

\* Read from the highest number down to the log file itself, the log is in order:
\* a higher number is an older file (as long as no rotation went amiss), the log file
\* is the newest, and of two lines of one thread the earlier one is in the same file
\* before the later one or in an older file.
LogInOrder ==
    /\ amiss \/ \A n, m \in Archives :
                  n < m /\ {dir[n], dir[m]} \subseteq Own => dir[n] > dir[m]
    /\ dir[Base] # NONE => \A n \in Archives : dir[n] < dir[Base]
    /\ \A i, j \in Inodes : \A a \in DOMAIN data[i], b \in DOMAIN data[j] :
          data[i][a][1] = data[j][b][1] /\ data[i][a][2] < data[j][b][2]
          => i < j \/ (i = j /\ a < b)

\* However often a rotation is cut off, the archives do not become more than
\* archive_max_count, and none is given up for less: when one is unlinked there are
\* archive_max_count - 1 others, even of an incomplete list, and all that zlog made are
\* newer unless a rotation went amiss.
KeepsNewest ==
    [][/\ \/ amiss \/ Cardinality(Archives') <= MaxCount
          \/ Cardinality(Archives') <= Cardinality(Archives)
       /\ \A i \in gone' \ gone :
             /\ Cardinality(Archives') >= MaxCount - 1
             /\ amiss \/ i \notin Own \/ \A n \in Archives' : dir'[n] \in Own => dir'[n] > i]_vars
=============================================================================
