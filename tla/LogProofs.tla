------------------------------ MODULE LogProofs ------------------------------
(* Proofs about Log, for any number of processes, blocks and log slots: a     *)
(* crash leaves whole operations, who waits for space in the log is woken,    *)
(* and who got it has enough.                                                 *)
EXTENDS Log, FiniteSetTheorems, TLAPS

-----------------------------------------------------------------------------
(* The inductive invariant. *)

(* A header names blocks, each once. *)
Distinct(n, f) ==
  \A i \in 1..n : f[i] \in Blocks /\ \A j \in 1..n : f[i] = f[j] => i = j

(* log.outstanding counts the calls, and none is open during a commit or in   *)
(* recovery.                                                                  *)
Counts ==
  /\ outstanding = Cardinality(Open)
  /\ phase # "none" => Open = {}
  /\ ~Recovering /\ ~committing => phase = "none"
  /\ \A p \in Procs : IF pc[p] = "mod" THEN buf[p] \in Blocks ELSE buf[p] = None

(* The loop indices, and the header on disk against the one in memory.        *)
Heads ==
  /\ Distinct(lhn, lhblock) /\ Distinct(hn, hblock)
  /\ phase \in {"wlog", "whead", "install", "rinstall"} => tail <= lhn
  /\ phase \notin {"wlog", "install", "rinstall"} => tail = 1 /\ writing = FALSE
  /\ phase \in {"none", "wlog", "whead", "done"} => hn = 0
  /\ phase = "done" => lhn = 0
  /\ phase \in {"install", "erase", "rinstall", "rerase"} =>
       hn = lhn /\ \A i \in 1..hn : hblock[i] = lhblock[i]

(* What is in the log: all that was logged, once the header may be written.   *)
LogHolds ==
  /\ phase = "wlog" => \A i \in 1..lhn : i < tail => logblk[i] = cache[lhblock[i]]
  /\ phase \in {"whead", "install", "erase"} => \A i \in 1..lhn : logblk[i] = cache[lhblock[i]]

(* What is home: a block nobody changed since, and one install_trans() did.   *)
HomeHolds ==
  /\ ~panicked /\ ~Recovering =>
       \A b \in Blocks : b \notin Logged /\ (\A p \in Procs : buf[p] # b) => cache[b] = home[b]
  /\ phase \in {"install", "rinstall"} =>
       \A i \in 1..lhn : i < tail => home[lhblock[i]] = logblk[i]
  /\ phase \in {"erase", "rerase"} => \A i \in 1..lhn : home[lhblock[i]] = logblk[i]

LInv == TypeOK /\ Counts /\ Heads /\ LogHolds /\ HomeHolds /\ LoggedStaysCached

USE LogAssumption DEF Slots, None

-----------------------------------------------------------------------------
(* Counting the calls. *)
LEMMA OpenFinite ==
  ASSUME TypeOK
  PROVE  /\ IsFiniteSet(Open) /\ Cardinality(Open) \in Nat
         /\ Cardinality(Open) = 0 <=> Open = {}
<1>1. IsFiniteSet(Open)
  <2>1. Open \subseteq Procs  BY Zenon DEF Open
  <2> QED  BY <2>1, FS_Subset, Zenon
<1> QED  BY <1>1, FS_CardinalityType, FS_EmptySet, Zenon

(* In a call, log.outstanding is positive and no commit is going on. *)
LEMMA CallOpen ==
  ASSUME LInv, NEW p \in Procs, pc[p] \in {"op", "mod"}
  PROVE  /\ p \in Open /\ outstanding \in Nat /\ outstanding >= 1
         /\ phase = "none" /\ hn = 0
<1>1. p \in Open  BY Zenon DEF Open
<1>2. outstanding = Cardinality(Open) /\ phase = "none"  BY <1>1, Zenon DEF LInv, Counts
<1> QED  BY <1>1, <1>2, OpenFinite DEF LInv, Heads

-----------------------------------------------------------------------------
(* One lemma per action. *)

LEMMA BeginOpKeeps ==
  ASSUME LInv, NEW p \in Procs, BeginOp(p)
  PROVE  LInv'
<1> USE DEF BeginOp, Up, disk, lh, calls, progress
<1>1. CASE committing \/ NoRoom
  <2>1. pc' = [pc EXCEPT ![p] = "sleep"] /\ UNCHANGED <<outstanding, wrote>>
    BY <1>1, Zenon
  <2>2. TypeOK'
    BY <2>1, Zenon DEF LInv, TypeOK
  <2>3. Open' = Open
    BY <2>1, Zenon DEF LInv, TypeOK, Open
  <2>4. Counts'
    BY <2>1, <2>3, Zenon DEF LInv, TypeOK, Counts, Recovering
  <2>5. Heads' /\ LogHolds'
    BY DEF LInv, Heads, Distinct, LogHolds
  <2>6. HomeHolds' /\ LoggedStaysCached'
    BY ZenonT(60) DEF LInv, HomeHolds, LoggedStaysCached, Logged, Recovering
  <2> QED  BY <2>2, <2>4, <2>5, <2>6, Zenon DEF LInv
<1>2. CASE ~(committing \/ NoRoom)
  <2>1. /\ outstanding' = outstanding + 1
        /\ pc' = [pc EXCEPT ![p] = "op"]
        /\ wrote' = [wrote EXCEPT ![p] = {}]
    BY <1>2, Zenon
  <2>2. TypeOK'
    BY <2>1 DEF LInv, TypeOK
  <2>3. Open' = Open \cup {p} /\ p \notin Open
    BY <2>1 DEF LInv, TypeOK, Open
  <2>4. Cardinality(Open') = Cardinality(Open) + 1
    BY <2>3, OpenFinite, FS_AddElement, Zenon DEF LInv
  <2>5. phase = "none"
    BY <1>2, Zenon DEF LInv, Counts
  <2>6. Counts'
    BY <2>1, <2>4, <2>5, Zenon DEF LInv, TypeOK, Counts, Recovering
  <2>7. Heads' /\ LogHolds'
    BY ZenonT(60) DEF LInv, Heads, Distinct, LogHolds
  <2>8. HomeHolds' /\ LoggedStaysCached'
    BY Zenon DEF LInv, HomeHolds, LoggedStaysCached, Logged, Recovering
  <2> QED  BY <2>2, <2>6, <2>7, <2>8, Zenon DEF LInv
<1> QED  BY <1>1, <1>2, Zenon

LEMMA ModifyKeeps ==
  ASSUME LInv, NEW p \in Procs, Modify(p)
  PROVE  LInv'
<1> USE DEF Modify, Up, disk, lh, calls, progress
<1>1. TypeOK'
  BY DEF LInv, TypeOK
<1>2. phase = "none"
  BY CallOpen, Zenon
<1>3. Open' = Open
  BY Zenon DEF LInv, TypeOK, Open
<1>4. Counts'
  BY <1>3, ZenonT(60) DEF LInv, TypeOK, Counts, Recovering
<1>5. Heads'
  BY ZenonT(60) DEF LInv, Heads, Distinct
<1>6. LogHolds' /\ LoggedStaysCached'
  BY <1>2, Zenon DEF LInv, LogHolds, LoggedStaysCached
<1>7. HomeHolds'
  <2>1. PICK b \in Blocks, v \in Values :
          cache' = [cache EXCEPT ![b] = v] /\ buf' = [buf EXCEPT ![p] = b]
    BY Zenon DEF Modify
  <2>2. \A c \in Blocks : (\A q \in Procs : buf'[q] # c) => c # b /\ \A q \in Procs : buf[q] # c
    <3>1. buf[p] = None /\ buf'[p] = b /\ \A q \in Procs \ {p} : buf'[q] = buf[q]
      BY <2>1, ZenonT(60) DEF LInv, TypeOK, Counts
    <3> QED  BY <3>1, Zenon
  <2>3. \A c \in Blocks \ {b} : cache'[c] = cache[c]
    BY <2>1, Zenon DEF LInv, TypeOK
  <2>4. UNCHANGED <<home, lhn, lhblock, panicked, phase>> /\ ~panicked /\ ~Recovering
    BY Zenon
  <2>5. Logged' = Logged
    BY <2>4 DEF Logged
  <2> QED  BY <1>2, <2>2, <2>3, <2>4, <2>5, Zenon DEF LInv, HomeHolds
<1> QED  BY <1>1, <1>4, <1>5, <1>6, <1>7, Zenon DEF LInv

LEMMA LogWriteKeeps ==
  ASSUME LInv, NEW p \in Procs, LogWrite(p)
  PROVE  LInv'
<1> DEFINE b == buf[p]
<1>1. /\ phase = "none" /\ phase' = phase /\ outstanding >= 1 /\ hn = 0
      /\ outstanding' = outstanding /\ committing' = committing
      /\ UNCHANGED <<home, logblk, hn, hblock, cache, tail, writing>>
  BY CallOpen, Zenon DEF LogWrite, disk, progress
<1>2. b \in Blocks
  BY Zenon DEF LInv, Counts, LogWrite
<1>3. /\ pc' = [pc EXCEPT ![p] = "op"] /\ buf' = [buf EXCEPT ![p] = None]
      /\ wrote' = [wrote EXCEPT ![p] = @ \cup {b}]
      /\ panicked' = (lhn >= LOGBLOCKS \/ outstanding < 1)
  BY Zenon DEF LogWrite
<1>4. pc[p] = "mod"
  BY Zenon DEF LogWrite
<1>5. Counts'
  <2>1. Open' = Open
    BY <1>3, <1>4, Zenon DEF LInv, TypeOK, Open
  <2> QED  BY <1>1, <1>3, <1>4, <2>1, Zenon DEF LInv, TypeOK, Counts, Recovering
<1>6. LogHolds'
  BY <1>1, Zenon DEF LogHolds
<1>7. CASE b \in Logged \/ lhn >= LOGBLOCKS
  <2>1. UNCHANGED <<lhn, lhblock, pins>>
    BY <1>7, Zenon DEF LogWrite, lh
  <2>2. panicked' \in BOOLEAN
    BY <1>3, Zenon
  <2>3. TypeOK'
    BY <1>1, <1>2, <1>3, <2>1, <2>2, Zenon DEF LInv, TypeOK
  <2>4. Heads' /\ LoggedStaysCached'
    BY <1>1, <2>1 DEF LInv, Heads, Distinct, LoggedStaysCached
  <2>5. Logged' = Logged
    BY <2>1, Zenon DEF Logged
  <2>6. ASSUME ~panicked', NEW c \in Blocks, c \notin Logged,
               \A q \in Procs : buf'[q] # c
        PROVE  cache[c] = home[c]
    <3>1. ~panicked /\ ~Recovering
      BY Zenon DEF LogWrite, Up
    <3>2. c # b
      BY <1>3, <1>7, <2>6, Zenon DEF LInv, TypeOK
    <3>3. \A q \in Procs : buf[q] # c
      BY <1>3, <2>6, <3>2, Zenon DEF LInv, TypeOK
    <3> QED  BY <2>6, <3>1, <3>3, Zenon DEF LInv, HomeHolds
  <2>7. HomeHolds'
    BY <1>1, <2>1, <2>5, <2>6, Zenon DEF LInv, HomeHolds, Recovering
  <2> QED  BY <1>5, <1>6, <2>3, <2>4, <2>7, Zenon DEF LInv
<1>8. CASE ~(b \in Logged \/ lhn >= LOGBLOCKS)
  <2>1. /\ lhn' = lhn + 1 /\ lhblock' = [lhblock EXCEPT ![lhn + 1] = b]
        /\ pins' = pins \cup {b}
    BY <1>1, <1>8 DEF LogWrite, LInv, TypeOK
  <2>2. panicked' \in BOOLEAN
    BY <1>3, Zenon
  <2>3. lhn \in Nat /\ lhn < LOGBLOCKS
    BY <1>8 DEF LInv, TypeOK
  <2>4. TypeOK'
    BY <1>1, <1>2, <1>3, <2>1, <2>2, <2>3 DEF LInv, TypeOK
  <2>5. \A i \in 1..lhn : lhblock'[i] = lhblock[i] /\ lhblock[i] # b
    BY <1>8, <2>1, <2>3 DEF LInv, TypeOK, Logged
  <2>6. lhblock'[lhn + 1] = b
    BY <2>1, <2>3 DEF LInv, TypeOK
  <2>7. \A i \in 1..lhn' : i \in 1..lhn \/ i = lhn + 1
    BY <2>1, <2>3
  <2>8. Distinct(lhn', lhblock')
    BY <1>2, <2>5, <2>6, <2>7 DEF LInv, Heads, Distinct
  <2>9. Heads'
    BY <1>1, <2>8 DEF LInv, Heads, Distinct
  <2>10. LoggedStaysCached'
    BY <1>1, <2>1, <2>5, <2>6, <2>7, SMTT(30) DEF LInv, LoggedStaysCached
  <2>11. Logged' = Logged \cup {b}
    BY <2>1, <2>3, <2>5, <2>6, <2>7 DEF Logged
  <2>12. ASSUME NEW c \in Blocks, c \notin Logged', \A q \in Procs : buf'[q] # c
         PROVE  cache[c] = home[c]
    <3>1. ~panicked /\ ~Recovering
      BY Zenon DEF LogWrite, Up
    <3>2. c # b /\ c \notin Logged
      BY <2>11, <2>12, Zenon
    <3>3. \A q \in Procs : buf[q] # c
      BY <1>3, <2>12, <3>2, Zenon DEF LInv, TypeOK
    <3> QED  BY <3>1, <3>2, <3>3, Zenon DEF LInv, HomeHolds
  <2>13. HomeHolds'
    BY <1>1, <2>12, Zenon DEF HomeHolds, Recovering
  <2> QED  BY <1>5, <1>6, <2>4, <2>9, <2>10, <2>13, Zenon DEF LInv
<1> QED  BY <1>7, <1>8, Zenon

LEMMA EndOpKeeps ==
  ASSUME LInv, NEW p \in Procs, EndOp(p)
  PROVE  LInv'
<1>1. /\ phase = "none" /\ outstanding \in Nat /\ outstanding >= 1 /\ hn = 0
      /\ p \in Open /\ pc[p] = "op" /\ ~panicked
  BY CallOpen, Zenon DEF EndOp, Up
<1>2. /\ outstanding' = outstanding - 1 /\ panicked' = committing
      /\ wrote' = [wrote EXCEPT ![p] = {}]
      /\ UNCHANGED <<home, logblk, hn, hblock, cache, pins, lhn, lhblock, buf, tail, writing>>
  BY Zenon DEF EndOp, disk, lh
<1>3. /\ tail = 1 /\ writing = FALSE
  BY <1>1, Zenon DEF LInv, Heads
<1>4. panicked' \in BOOLEAN /\ lhn \in Nat
  BY <1>2 DEF LInv, TypeOK
<1>5. CASE outstanding = 1
  <2>1. /\ committing' = TRUE /\ pc' = [pc EXCEPT ![p] = "commit"]
        /\ phase' = (IF lhn > 0 THEN "wlog" ELSE "done")
    BY <1>5, Zenon DEF EndOp
  <2>2. TypeOK'
    BY <1>1, <1>2, <1>4, <2>1 DEF LInv, TypeOK
  <2>3. Open' = Open \ {p}
    BY <2>1, Zenon DEF LInv, TypeOK, Open
  <2>4. Cardinality(Open') = outstanding'
    BY <1>1, <1>2, <2>3, OpenFinite, FS_RemoveElement, Zenon DEF LInv, Counts
  <2>5. Open' = {}
    <3>1. IsFiniteSet(Open')
      BY <2>3, OpenFinite, FS_RemoveElement, Zenon DEF LInv
    <3>2. Cardinality(Open') = 0
      BY <1>2, <1>5, <2>4
    <3> QED  BY <3>1, <3>2, FS_EmptySet, Zenon
  <2>6. Counts'
    BY <1>1, <1>2, <2>1, <2>4, <2>5, ZenonT(60) DEF LInv, TypeOK, Counts, Recovering
  <2>7. Heads' /\ LogHolds' /\ LoggedStaysCached'
    BY <1>1, <1>2, <1>3, <1>4, <2>1 DEF LInv, Heads, Distinct, LogHolds, LoggedStaysCached
  <2>8. HomeHolds'
    BY <1>1, <1>2, <2>1, ZenonT(60) DEF LInv, HomeHolds, Logged, Recovering
  <2> QED  BY <2>2, <2>6, <2>7, <2>8, Zenon DEF LInv
<1>6. CASE outstanding # 1
  <2>1. /\ pc' = Wake([pc EXCEPT ![p] = "idle"])
        /\ UNCHANGED <<committing, phase>>
    BY <1>6, Zenon DEF EndOp
  <2>2. TypeOK'
    BY <1>1, <1>2, <1>4, <2>1 DEF LInv, TypeOK, Wake
  <2>3. Open' = Open \ {p}
    BY <2>1, Zenon DEF LInv, TypeOK, Open, Wake
  <2>4. Cardinality(Open') = outstanding'
    BY <1>1, <1>2, <2>3, OpenFinite, FS_RemoveElement, Zenon DEF LInv, Counts
  <2>5. \A q \in Procs : pc'[q] = "mod" <=> pc[q] = "mod"
    BY <1>1, <2>1, Zenon DEF LInv, TypeOK, Wake
  <2>6. Counts'
    BY <1>1, <1>2, <2>1, <2>4, <2>5, ZenonT(60) DEF LInv, Counts, Recovering
  <2>7. Heads' /\ LogHolds' /\ LoggedStaysCached'
    BY <1>1, <1>2, <2>1 DEF LInv, Heads, Distinct, LogHolds, LoggedStaysCached
  <2>8. HomeHolds'
    BY <1>1, <1>2, <2>1, Zenon DEF LInv, HomeHolds, Logged, Recovering
  <2> QED  BY <2>2, <2>6, <2>7, <2>8, Zenon DEF LInv
<1> QED  BY <1>5, <1>6, Zenon

LEMMA WriteLogKeeps ==
  ASSUME LInv, WriteLog
  PROVE  LInv'
<1>1. TypeOK'
  <2>1. tail \in 1..lhn /\ lhblock[tail] \in Blocks
    BY DEF LInv, TypeOK, Heads, Distinct, WriteLog
  <2>2. logblk' \in [Slots -> Values \cup {Torn}]
    BY <2>1, Zenon DEF LInv, TypeOK, WriteLog
  <2>3. writing' \in BOOLEAN
    BY Zenon DEF LInv, TypeOK, WriteLog, Advance
  <2>4. tail' \in Slots
    BY <2>1 DEF LInv, TypeOK, WriteLog, Advance
  <2>5. phase' \in {"wlog", "whead"}
    BY Zenon DEF WriteLog, Advance
  <2> QED  BY <2>2, <2>3, <2>4, <2>5, Zenon DEF LInv, TypeOK, WriteLog, lh, calls
<1>2. Counts'
  BY Zenon DEF LInv, TypeOK, Counts, Open, Recovering, WriteLog, Up, Advance, disk, lh, calls, progress
<1>3. Heads'
  BY DEF LInv, TypeOK, Heads, Distinct, WriteLog, Up, Advance, disk, lh, calls, progress
<1>4. LogHolds'
  BY DEF LInv, TypeOK, Heads, Distinct, LogHolds, WriteLog, Up, Advance, disk, lh, calls, progress
<1>5. HomeHolds'
  <2>1. /\ UNCHANGED <<home, cache, lhn, lhblock, buf>> /\ ~panicked /\ ~Recovering
        /\ phase' \in {"wlog", "whead"}
    BY Zenon DEF WriteLog, Up, Advance, lh, calls
  <2>2. Logged' = Logged
    BY <2>1, Zenon DEF Logged
  <2> QED  BY <2>1, <2>2, Zenon DEF LInv, HomeHolds
<1>6. LoggedStaysCached'
  BY Zenon DEF LInv, TypeOK, Heads, Distinct, LoggedStaysCached, Counts, Open, Logged, WriteLog, Up, Advance, disk, lh, calls, progress
<1> QED  BY <1>1, <1>2, <1>3, <1>4, <1>5, <1>6, Zenon DEF LInv

LEMMA WriteHeadKeeps ==
  ASSUME LInv, WriteHead
  PROVE  LInv'
<1>1. TypeOK'
  BY Zenon DEF LInv, TypeOK, WriteHead, Up, PutHead, disk, lh, calls, progress
<1>2. Counts'
  BY Zenon DEF LInv, TypeOK, Counts, Open, Recovering, WriteHead, Up, PutHead, disk, lh, calls, progress
<1>3. Heads'
  <2>1. /\ hn' = lhn /\ phase' = "install" /\ tail' = 1 /\ writing' = FALSE
        /\ lhn' = lhn /\ lhblock' = lhblock /\ lhn \in 0..LOGBLOCKS
        /\ \A i \in 1..lhn : hblock'[i] = lhblock[i]
    BY DEF LInv, TypeOK, Heads, WriteHead, PutHead, lh
  <2>2. lhn >= 1
    BY Zenon DEF LInv, Heads, WriteHead, TypeOK
  <2> QED  BY <2>1, <2>2 DEF LInv, Heads, Distinct
<1>4. LogHolds'
  BY Zenon DEF LInv, TypeOK, Heads, Distinct, LogHolds, WriteHead, Up, PutHead, disk, lh, calls, progress
<1>5. HomeHolds'
  <2>1. /\ UNCHANGED <<home, cache, lhn, lhblock, buf, tail>> /\ ~panicked /\ ~Recovering
        /\ phase = "whead" /\ phase' = "install"
    BY Zenon DEF WriteHead, Up, lh, calls
  <2>2. Logged' = Logged
    BY <2>1, Zenon DEF Logged
  <2>3. \A i \in 1..lhn : ~(i < tail)
    BY <2>1 DEF LInv, TypeOK, Heads
  <2> QED  BY <2>1, <2>2, <2>3, Zenon DEF LInv, HomeHolds
<1>6. LoggedStaysCached'
  BY Zenon DEF LInv, TypeOK, Heads, Distinct, LoggedStaysCached, Counts, Open, Logged, WriteHead, Up, PutHead, disk, lh, calls, progress
<1> QED  BY <1>1, <1>2, <1>3, <1>4, <1>5, <1>6, Zenon DEF LInv

LEMMA InstallTransKeeps ==
  ASSUME LInv, InstallTrans
  PROVE  LInv'
<1>1. TypeOK'
  <2>1. tail \in 1..lhn /\ lhblock[tail] \in Blocks
    BY DEF LInv, TypeOK, Heads, Distinct, InstallTrans
  <2>2. /\ home' \in [Blocks -> Values \cup {Torn}]
        /\ cache' \in [Blocks -> Values \cup {Torn}]
        /\ pins' \subseteq Blocks
    BY <2>1, Zenon DEF LInv, TypeOK, InstallTrans
  <2>3. writing' \in BOOLEAN
    BY Zenon DEF LInv, TypeOK, InstallTrans, Advance
  <2>4. tail' \in Slots
    BY <2>1 DEF LInv, TypeOK, InstallTrans, Advance
  <2>5. phase' \in {"install", "rinstall", "erase", "rerase"}
    BY Zenon DEF InstallTrans, Advance
  <2> QED  BY <2>2, <2>3, <2>4, <2>5, Zenon DEF LInv, TypeOK, InstallTrans, lh, calls
<1>2. Counts'
  BY Zenon DEF LInv, TypeOK, Counts, Open, Recovering, InstallTrans, Advance, disk, lh, calls, progress
<1>3. Heads'
  <2>1. /\ tail \in 1..lhn /\ lhn \in Nat
        /\ UNCHANGED <<hn, hblock, lhn, lhblock>> /\ phase \in {"install", "rinstall"}
    BY DEF LInv, TypeOK, InstallTrans, lh
  <2>2. \/ phase' = phase /\ tail' \in 1..lhn
        \/ phase' \in {"erase", "rerase"} /\ tail' = 1 /\ writing' = FALSE
    <3>1. CASE writing /\ tail = lhn
      BY <3>1, Zenon DEF InstallTrans, Advance
    <3>2. CASE ~(writing /\ tail = lhn)
      <4>1. phase' = phase /\ tail' = (IF writing THEN tail + 1 ELSE tail)
        BY <3>2, Zenon DEF InstallTrans, Advance
      <4> QED  BY <2>1, <3>2, <4>1
    <3> QED  BY <3>1, <3>2, Zenon
  <2>3. Distinct(lhn, lhblock)' /\ Distinct(hn, hblock)'
    BY <2>1, ZenonT(60) DEF LInv, Heads, Distinct
  <2>4. hn = lhn /\ \A i \in 1..hn : hblock[i] = lhblock[i]
    BY <2>1, Zenon DEF LInv, Heads
  <2> QED  BY <2>1, <2>2, <2>3, <2>4 DEF Heads
<1>4. LogHolds'
  <2>1. ASSUME phase' \in {"wlog", "whead", "install", "erase"}
        PROVE  phase = "install"
    BY <2>1, Zenon DEF InstallTrans, Advance
  <2>2. tail \in 1..lhn /\ UNCHANGED <<lhn, lhblock, logblk>> /\ phase' \notin {"wlog", "whead"}
    BY DEF LInv, TypeOK, InstallTrans, Advance, lh
  <2>3. ASSUME phase = "install"
        PROVE  cache' = cache
    <3>1. logblk[tail] = cache[lhblock[tail]]
      BY <2>2, <2>3, Zenon DEF LInv, LogHolds
    <3> QED  BY <3>1, Zenon DEF InstallTrans, LInv, TypeOK
  <2> QED  BY <2>1, <2>2, <2>3, Zenon DEF LInv, LogHolds
<1>5. HomeHolds'
  <2> DEFINE b == lhblock[tail]
  <2>1. /\ tail \in 1..lhn /\ lhn \in 0..LOGBLOCKS /\ b \in Blocks
        /\ \A i \in 1..lhn : lhblock[i] \in Blocks /\ (i # tail => lhblock[i] # b)
    BY DEF LInv, TypeOK, Heads, Distinct, InstallTrans
  <2>2. /\ home' = [home EXCEPT ![b] = IF writing THEN logblk[tail] ELSE Torn]
        /\ cache' = [cache EXCEPT ![b] = logblk[tail]]
        /\ UNCHANGED <<lhn, lhblock, logblk, buf, panicked>>
    BY Zenon DEF InstallTrans, lh, calls
  <2>3. b \in Logged /\ Logged' = Logged
    BY <2>1, <2>2, Zenon DEF Logged
  <2>4. \A c \in Blocks : c # b => cache'[c] = cache[c] /\ home'[c] = home[c]
    BY <2>2, Zenon DEF LInv, TypeOK
  <2>5. writing => home'[b] = logblk[tail]
    BY <2>1, <2>2, Zenon DEF LInv, TypeOK
  <2>6. /\ phase = "install" => phase' \in {"install", "erase"}
        /\ phase = "rinstall" => phase' \in {"rinstall", "rerase"}
        /\ phase \in {"install", "rinstall"} /\ ~panicked
    BY Zenon DEF InstallTrans, Advance
  <2>7. ~panicked' /\ ~Recovering' =>
          \A c \in Blocks : c \notin Logged' /\ (\A p \in Procs : buf'[p] # c)
                           => cache'[c] = home'[c]
    BY <2>2, <2>3, <2>4, <2>6, ZenonT(60) DEF LInv, HomeHolds, Recovering
  <2>8. ASSUME NEW i \in 1..lhn, i < tail \/ (i = tail /\ writing)
        PROVE  home'[lhblock[i]] = logblk[i]
    BY <2>1, <2>4, <2>5, <2>6, <2>8 DEF LInv, HomeHolds
  <2>9. phase' \in {"install", "rinstall"} =>
          \A i \in 1..lhn : i < tail' => i < tail \/ (i = tail /\ writing)
    BY <2>1, <2>6 DEF InstallTrans, Advance
  <2>10. phase' \in {"erase", "rerase"} =>
           \A i \in 1..lhn : i < tail \/ (i = tail /\ writing)
    BY <2>1, <2>6 DEF InstallTrans, Advance
  <2> QED  BY <2>2, <2>7, <2>8, <2>9, <2>10 DEF HomeHolds
<1>6. LoggedStaysCached'
  <2>1. SUFFICES ASSUME phase' = "install", NEW i \in 1..lhn', ~(i < tail')
                 PROVE  lhblock'[i] \in pins'
    BY Zenon DEF LoggedStaysCached, InstallTrans, Advance
  <2>2. phase = "install" /\ UNCHANGED <<lhn, lhblock>> /\ tail \in 1..lhn /\ lhn \in Nat
    BY <2>1 DEF InstallTrans, Advance, lh, LInv, TypeOK
  <2>3. ~(i < tail) /\ (writing => i # tail)
    BY <2>1, <2>2 DEF InstallTrans, Advance
  <2>4. lhblock[i] \in pins
    BY <2>2, <2>3, Zenon DEF LInv, LoggedStaysCached
  <2>5. writing => lhblock[i] # lhblock[tail]
    BY <2>2, <2>3, ZenonT(60) DEF LInv, Heads, Distinct
  <2> QED  BY <2>2, <2>4, <2>5, Zenon DEF InstallTrans
<1> QED  BY <1>1, <1>2, <1>3, <1>4, <1>5, <1>6, Zenon DEF LInv

LEMMA EraseKeeps ==
  ASSUME LInv, Erase
  PROVE  LInv'
<1>1. TypeOK'
  BY DEF LInv, TypeOK, Erase, Up, PutHead, disk, lh, calls, progress
<1>2. Counts'
  BY Zenon DEF LInv, TypeOK, Counts, Open, Recovering, Erase, Up, PutHead, disk, lh, calls, progress
<1>3. Heads'
  BY DEF LInv, TypeOK, Heads, Distinct, Erase, Up, PutHead, disk, lh, calls, progress
<1>4. LogHolds'
  BY Zenon DEF LInv, TypeOK, Heads, Distinct, LogHolds, Erase, Up, PutHead, disk, lh, calls, progress
<1>5. HomeHolds'
  <2>1. /\ UNCHANGED <<home, cache, buf>> /\ ~panicked /\ ~Recovering
        /\ phase = "erase" /\ phase' = "done"
    BY Zenon DEF Erase, Up, calls
  <2>2. ASSUME NEW b \in Blocks, \A p \in Procs : buf[p] # b
        PROVE  cache[b] = home[b]
    <3>1. CASE b \in Logged
      <4>1. PICK i \in 1..lhn : lhblock[i] = b
        BY <3>1, Zenon DEF Logged
      <4>2. logblk[i] = cache[b]
        BY <2>1, <4>1, Zenon DEF LInv, LogHolds
      <4>3. home[b] = logblk[i]
        BY <2>1, <4>1, Zenon DEF LInv, HomeHolds
      <4> QED  BY <4>2, <4>3, Zenon
    <3>2. CASE b \notin Logged
      BY <2>1, <2>2, <3>2, Zenon DEF LInv, HomeHolds
    <3> QED  BY <3>1, <3>2, Zenon
  <2> QED  BY <2>1, <2>2, Zenon DEF HomeHolds
<1>6. LoggedStaysCached'
  BY Zenon DEF LInv, TypeOK, Heads, Distinct, LoggedStaysCached, Counts, Open, Logged, Erase, Up, PutHead, disk, lh, calls, progress
<1> QED  BY <1>1, <1>2, <1>3, <1>4, <1>5, <1>6, Zenon DEF LInv

LEMMA CommitDoneKeeps ==
  ASSUME LInv, NEW p \in Procs, CommitDone(p)
  PROVE  LInv'
<1>1. TypeOK'
  BY Zenon DEF LInv, TypeOK, CommitDone, Up, Wake, disk, lh, calls, progress
<1>2. Counts'
  BY Zenon DEF LInv, TypeOK, Counts, Open, Recovering, CommitDone, Up, Wake, disk, lh, calls, progress
<1>3. Heads'
  BY ZenonT(60) DEF LInv, TypeOK, Heads, Distinct, CommitDone, Up, Wake, disk, lh, calls, progress
<1>4. LogHolds'
  BY Zenon DEF LInv, TypeOK, Heads, Distinct, LogHolds, CommitDone, Up, Wake, disk, lh, calls, progress
<1>5. HomeHolds'
  <2>1. /\ UNCHANGED <<home, cache, lhn, lhblock, buf>> /\ ~panicked /\ ~Recovering
        /\ phase' = "none"
    BY Zenon DEF CommitDone, Up, disk, lh
  <2>2. Logged' = Logged
    BY <2>1, Zenon DEF Logged
  <2> QED  BY <2>1, <2>2, Zenon DEF LInv, HomeHolds
<1>6. LoggedStaysCached'
  <2>1. lhn' = 0
    BY ZenonT(60) DEF CommitDone, lh, LInv, Heads
  <2> QED  BY <2>1 DEF LoggedStaysCached
<1> QED  BY <1>1, <1>2, <1>3, <1>4, <1>5, <1>6, Zenon DEF LInv

LEMMA CrashKeeps ==
  ASSUME LInv, Crash
  PROVE  LInv'
<1>1. TypeOK'
  <2>1. /\ pc' \in [Procs -> {"idle", "begin", "sleep", "op", "mod", "commit"}]
        /\ buf' \in [Procs -> Blocks \cup {None}] /\ wrote' \in [Procs -> SUBSET Blocks]
    BY Zenon DEF Crash
  <2>2. committing' \in BOOLEAN /\ panicked' \in BOOLEAN /\ writing' \in BOOLEAN
    BY Zenon DEF Crash
  <2> QED  BY <2>1, <2>2 DEF LInv, TypeOK, Crash, disk
<1>2. Counts'
  <2>1. Open' = {}
    BY Zenon DEF Open, Crash
  <2> QED  BY <2>1, FS_EmptySet, Zenon DEF Counts, Recovering, Crash
<1>3. Heads'
  <2>1. /\ lhn' = 0 /\ phase' = "rhead" /\ tail' = 1 /\ writing' = FALSE
        /\ UNCHANGED <<hn, hblock>>
    BY Zenon DEF Crash, disk
  <2>2. Distinct(lhn, lhblock)'
    BY <2>1 DEF Distinct
  <2>3. Distinct(hn, hblock)'
    BY <2>1, Zenon DEF LInv, Heads, Distinct
  <2> QED  BY <2>1, <2>2, <2>3, Zenon DEF Heads
<1>4. LogHolds'
  BY Zenon DEF LInv, TypeOK, Heads, Distinct, LogHolds, Crash, disk, lh, calls, progress
<1>5. HomeHolds'
  BY Zenon DEF LInv, TypeOK, Counts, Open, Recovering, Heads, Distinct, LogHolds, HomeHolds, Logged, Crash, disk, lh, calls, progress
<1>6. LoggedStaysCached'
  BY Zenon DEF LInv, TypeOK, Heads, Distinct, LoggedStaysCached, Counts, Open, Logged, Crash, disk, lh, calls, progress
<1> QED  BY <1>1, <1>2, <1>3, <1>4, <1>5, <1>6, Zenon DEF LInv

LEMMA ReadHeadKeeps ==
  ASSUME LInv, ReadHead
  PROVE  LInv'
<1>1. TypeOK'
  BY Zenon DEF LInv, TypeOK, ReadHead, disk, lh, calls, progress
<1>2. Counts'
  BY Zenon DEF LInv, TypeOK, Counts, Open, Recovering, ReadHead, disk, lh, calls, progress
<1>3. Heads'
  <2>1. /\ hn \in 0..LOGBLOCKS /\ phase = "rhead" /\ lhn' = hn
        /\ phase' = (IF hn > 0 THEN "rinstall" ELSE "rerase")
        /\ UNCHANGED <<hn, hblock, tail, writing>> /\ tail = 1 /\ writing = FALSE
    BY Zenon DEF LInv, TypeOK, Heads, ReadHead, disk
  <2>2. \A i \in 1..hn : lhblock'[i] = hblock[i]
    BY <2>1 DEF ReadHead
  <2>3. Distinct(lhn, lhblock)' /\ Distinct(hn, hblock)'
    BY <2>1, <2>2 DEF LInv, Heads, Distinct
  <2> QED  BY <2>1, <2>2, <2>3 DEF Heads
<1>4. LogHolds'
  BY Zenon DEF LInv, TypeOK, Heads, Distinct, LogHolds, ReadHead, disk, lh, calls, progress
<1>5. HomeHolds'
  <2>1. /\ phase' = (IF hn > 0 THEN "rinstall" ELSE "rerase") /\ tail' = 1
        /\ lhn' = hn /\ hn \in 0..LOGBLOCKS
    BY Zenon DEF LInv, TypeOK, Heads, ReadHead
  <2> QED  BY <2>1 DEF HomeHolds, Recovering
<1>6. LoggedStaysCached'
  BY ZenonT(60) DEF LInv, TypeOK, Heads, Distinct, LoggedStaysCached, Counts, Open, Logged, ReadHead, disk, lh, calls, progress
<1> QED  BY <1>1, <1>2, <1>3, <1>4, <1>5, <1>6, Zenon DEF LInv

LEMMA RecoveryDoneKeeps ==
  ASSUME LInv, RecoveryDone
  PROVE  LInv'
<1>1. TypeOK'
  BY DEF LInv, TypeOK, RecoveryDone, PutHead, disk, lh, calls, progress
<1>2. Counts'
  BY Zenon DEF LInv, TypeOK, Counts, Open, Recovering, RecoveryDone, PutHead, disk, lh, calls, progress
<1>3. Heads'
  <2>1. /\ hn' = 0 /\ lhn' = 0 /\ phase' = "none"
        /\ tail' = 1 /\ writing' = FALSE
    BY Zenon DEF LInv, Heads, RecoveryDone, PutHead
  <2> QED  BY <2>1 DEF Heads, Distinct
<1>4. LogHolds'
  BY Zenon DEF LInv, TypeOK, Heads, Distinct, LogHolds, RecoveryDone, PutHead, disk, lh, calls, progress
<1>5. HomeHolds'
  BY Zenon DEF LInv, TypeOK, Counts, Open, Recovering, Heads, Distinct, LogHolds, HomeHolds, Logged, RecoveryDone, PutHead, disk, lh, calls, progress
<1>6. LoggedStaysCached'
  <2>1. lhn' = 0
    BY Zenon DEF RecoveryDone
  <2> QED  BY <2>1 DEF LoggedStaysCached
<1> QED  BY <1>1, <1>2, <1>3, <1>4, <1>5, <1>6, Zenon DEF LInv

(* The cache recycles only buffers that agree with the disk. *)
LEMMA EvictStutters ==
  ASSUME LInv, NEW b \in Blocks, Evict(b)
  PROVE  UNCHANGED vars
<1>1. ~Recovering /\ ~panicked /\ b \notin pins /\ \A p \in Procs : buf[p] # b
  BY Zenon DEF Evict, Up
<1>2. ASSUME NEW i \in 1..lhn, lhblock[i] = b
      PROVE  cache[b] = home[b]
  <2>1. phase \in {"install", "erase"}
    BY <1>1, <1>2 DEF LInv, TypeOK, Heads, LoggedStaysCached, Recovering
  <2>2. logblk[i] = cache[b]
    BY <1>2, <2>1, Zenon DEF LInv, LogHolds
  <2>3. home[b] = logblk[i]
    BY <1>1, <1>2, <2>1, Zenon DEF LInv, HomeHolds, LoggedStaysCached
  <2> QED  BY <2>2, <2>3, Zenon
<1>3. cache[b] = home[b]
  BY <1>1, <1>2, Zenon DEF LInv, HomeHolds, Logged
<1>4. cache' = cache
  BY <1>3, Zenon DEF Evict, LInv, TypeOK
<1> QED  BY <1>4, Zenon DEF Evict, vars

LEMMA InitLInv == Init => LInv
<1> SUFFICES ASSUME Init PROVE LInv  BY Zenon
<1>1. /\ pc \in [Procs -> {"idle", "begin", "sleep", "op", "mod", "commit"}]
      /\ buf \in [Procs -> Blocks \cup {None}] /\ wrote \in [Procs -> SUBSET Blocks]
      /\ committing \in BOOLEAN /\ panicked \in BOOLEAN /\ writing \in BOOLEAN
  BY Zenon DEF Init
<1>2. TypeOK
  BY <1>1 DEF TypeOK, Init
<1>3. Counts
  <2>1. Open = {}
    BY Zenon DEF Open, Init
  <2> QED  BY <2>1, FS_EmptySet, Zenon DEF Counts, Init
<1>4. Heads /\ LogHolds /\ LoggedStaysCached
  BY DEF Heads, Distinct, LogHolds, LoggedStaysCached, Init
<1>5. HomeHolds
  BY Zenon DEF HomeHolds, Init
<1> QED  BY <1>2, <1>3, <1>4, <1>5, Zenon DEF LInv

LEMMA StutterKeeps ==
  ASSUME LInv, UNCHANGED vars
  PROVE  LInv'
<1> USE DEF vars, disk, lh, calls, progress
<1>1. TypeOK'
  BY Zenon DEF LInv, TypeOK
<1>2. Counts'
  BY Zenon DEF LInv, Counts, Open, Recovering
<1>3. Heads'
  BY ZenonT(60) DEF LInv, Heads, Distinct
<1>4. LogHolds'
  BY Zenon DEF LInv, LogHolds
<1>5. HomeHolds'
  BY Zenon DEF LInv, HomeHolds, Logged, Recovering
<1>6. LoggedStaysCached'
  BY Zenon DEF LInv, LoggedStaysCached
<1> QED  BY <1>1, <1>2, <1>3, <1>4, <1>5, <1>6, Zenon DEF LInv

LEMMA NextLInv == LInv /\ [Next]_vars => LInv'
<1> SUFFICES ASSUME LInv, [Next]_vars PROVE LInv'  BY Zenon
<1>1. ASSUME NEW p \in Procs, BeginOp(p) \/ Modify(p) \/ LogWrite(p) \/ EndOp(p)
      PROVE  LInv'
  BY <1>1, BeginOpKeeps, ModifyKeeps, LogWriteKeeps, EndOpKeeps, Zenon
<1>2. CASE LogStep
  BY <1>2, WriteLogKeeps, WriteHeadKeeps, InstallTransKeeps, EraseKeeps, ReadHeadKeeps,
     RecoveryDoneKeeps, CommitDoneKeeps, Zenon DEF LogStep
<1>3. ASSUME NEW b \in Blocks, Evict(b)
      PROVE  LInv'
  BY <1>3, EvictStutters, StutterKeeps, Zenon
<1> QED  BY <1>1, <1>2, <1>3, CrashKeeps, StutterKeeps, Zenon DEF Next

(* LInv holds in every state of log.c, its recovery included.                 *)
THEOREM LogInvariant == Spec => []LInv
BY InitLInv, NextLInv, PTL DEF Spec

(* log_write()'s bpin() keeps the only copy of a logged block in memory until *)
(* install_trans() has written it home.                                       *)
THEOREM PinnedUntilHome == Spec => []LoggedStaysCached
<1>1. LInv => LoggedStaysCached  BY Zenon DEF LInv
<1> QED  BY <1>1, LogInvariant, PTL

-----------------------------------------------------------------------------
(* Refinement: what a crash would leave changes only at write_head().         *)

LEMMA RecoveredValue ==
  ASSUME Distinct(hn, hblock)
  PROVE  /\ \A i \in 1..hn : Recovered[hblock[i]] = logblk[i]
         /\ \A b \in Blocks : (\A i \in 1..hn : hblock[i] # b) => Recovered[b] = home[b]
<1>1. ASSUME NEW i \in 1..hn
      PROVE  Recovered[hblock[i]] = logblk[i]
  <2> DEFINE k == CHOOSE j \in 1..hn : hblock[j] = hblock[i]
  <2>1. k \in 1..hn /\ hblock[k] = hblock[i]
    BY Zenon
  <2>2. k = i /\ hblock[i] \in Blocks
    BY <2>1, Zenon DEF Distinct
  <2>3. Recovered[hblock[i]] = logblk[k]
    BY <2>1, <2>2, Zenon DEF Recovered
  <2> QED  BY <2>2, <2>3, Zenon
<1> QED  BY <1>1, Zenon DEF Recovered

LEMMA RecoveredFrame ==
  ASSUME UNCHANGED disk
  PROVE  Recovered' = Recovered
<1>1. home' = home /\ logblk' = logblk /\ hn' = hn /\ hblock' = hblock
  BY Zenon DEF disk
<1> QED  BY <1>1, Zenon DEF Recovered

(* With an empty header, or once every logged block is home, a crash leaves   *)
(* what is home.                                                              *)
LEMMA RecoveredHome ==
  ASSUME TypeOK, Distinct(hn, hblock), \A i \in 1..hn : home[hblock[i]] = logblk[i]
  PROVE  Recovered = home
<1>1. \A b \in Blocks : Recovered[b] = home[b]
  BY RecoveredValue
<1>2. Recovered = [b \in Blocks |-> Recovered[b]]
  BY Zenon DEF Recovered
<1>3. home = [b \in Blocks |-> home[b]]
  BY Zenon DEF TypeOK
<1> QED  BY <1>1, <1>2, <1>3, ZenonT(60)

LEMMA EmptyHome ==
  ASSUME TypeOK, hn = 0
  PROVE  Recovered = home
BY RecoveredHome DEF Distinct

Kept == UNCHANGED <<Seen, Recovered, Open>>

LEMMA CallRefines ==
  ASSUME LInv, NEW p \in Procs, BeginOp(p) \/ Modify(p) \/ LogWrite(p) \/ EndOp(p)
  PROVE  Atomic!Next \/ Kept
<1>1. UNCHANGED disk /\ Recovered' = Recovered
  BY RecoveredFrame, Zenon DEF BeginOp, Modify, LogWrite, EndOp
<1>2. ~Recovering
  BY Zenon DEF BeginOp, Modify, LogWrite, EndOp, Up
<1>3. CASE BeginOp(p)
  <2>1. Seen' = Seen
    BY <1>2, <1>3, Zenon DEF BeginOp, Seen, Recovering, progress
  <2>2. Open' = Open \/ Open' = Open \cup {p}
    <3>1. PICK x \in {"sleep", "op"} : pc' = [pc EXCEPT ![p] = x]
      BY <1>3, Zenon DEF BeginOp
    <3>2. pc[p] \notin {"op", "mod"} /\ pc'[p] = x /\ \A q \in Procs \ {p} : pc'[q] = pc[q]
      BY <1>3, <3>1, Zenon DEF BeginOp, LInv, TypeOK
    <3> QED  BY <3>2, Zenon DEF Open
  <2> QED  BY <1>1, <2>1, <2>2, Zenon DEF Kept, Atomic!Next, Atomic!Begin
<1>4. CASE Modify(p)
  <2>1. Open' = Open /\ p \in Open
    <3>1. pc[p] = "op" /\ pc'[p] = "mod" /\ \A q \in Procs \ {p} : pc'[q] = pc[q]
      BY <1>4, Zenon DEF Modify, LInv, TypeOK
    <3> QED  BY <3>1, Zenon DEF Open
  <2>2. \E b \in Blocks, v \in Values : Seen' = [Seen EXCEPT ![b] = v]
    BY <1>2, <1>4, Zenon DEF Modify, Seen, Recovering, progress
  <2> QED  BY <1>1, <2>1, <2>2, Zenon DEF Atomic!Next, Atomic!Write
<1>5. CASE LogWrite(p)
  <2>1. Open' = Open
    BY <1>5, Zenon DEF LogWrite, Open, LInv, TypeOK
  <2>2. Seen' = Seen
    BY <1>2, <1>5, Zenon DEF LogWrite, Seen, Recovering, progress
  <2> QED  BY <1>1, <2>1, <2>2, Zenon DEF Kept
<1>6. CASE EndOp(p)
  <2>1. phase = "none"
    BY <1>6, CallOpen, Zenon DEF EndOp
  <2>2. phase' \in {"none", "wlog", "done"} /\ cache' = cache
    BY <1>6, <2>1, Zenon DEF EndOp
  <2>3. Seen' = Seen
    BY <2>1, <2>2, Zenon DEF Seen, Recovering
  <2>4. Open' = Open \ {p}
    BY <1>6, ZenonT(60) DEF EndOp, Open, Wake, LInv, TypeOK
  <2> QED  BY <1>1, <2>3, <2>4, Zenon DEF Atomic!Next, Atomic!End
<1> QED  BY <1>3, <1>4, <1>5, <1>6, Zenon

LEMMA WriteLogRefines ==
  ASSUME LInv, WriteLog
  PROVE  Kept
<1>1. hn = 0 /\ hn' = 0 /\ home' = home
  BY Zenon DEF LInv, Heads, WriteLog
<1>2. Recovered = home
  BY <1>1, EmptyHome, Zenon DEF LInv
<1>3. Recovered' = home
  <2>1. \A b \in Blocks : Recovered'[b] = home[b]
    BY <1>1 DEF Recovered
  <2>2. Recovered' = [b \in Blocks |-> Recovered'[b]]
    BY Zenon DEF Recovered
  <2>3. home = [b \in Blocks |-> home[b]]
    BY Zenon DEF LInv, TypeOK
  <2> QED  BY <2>1, <2>2, <2>3, Zenon
<1>4. Seen' = Seen /\ Open' = Open
  BY Zenon DEF WriteLog, Advance, Seen, Recovering, Open, calls
<1> QED  BY <1>2, <1>3, <1>4, Zenon DEF Kept

LEMMA WriteHeadRefines ==
  ASSUME LInv, WriteHead
  PROVE  Atomic!Next
<1>1. /\ hn' = lhn /\ lhn \in 0..LOGBLOCKS /\ UNCHANGED <<home, logblk, cache, lhn, lhblock>>
      /\ \A i \in 1..lhn : hblock'[i] = lhblock[i]
  BY DEF WriteHead, PutHead, LInv, TypeOK, lh
<1>2. /\ \A i \in 1..lhn : logblk[i] = cache[lhblock[i]] /\ lhblock[i] \in Blocks
      /\ Open = {} /\ \A p \in Procs : buf[p] = None
  BY Zenon DEF LInv, LogHolds, Heads, Distinct, Counts, WriteHead, Open
<1>3. ~panicked /\ ~Recovering
  BY Zenon DEF WriteHead, Up
<1>4. \A b \in Blocks : (\A i \in 1..lhn : lhblock[i] # b) => cache[b] = home[b]
  BY <1>2, <1>3, ZenonT(60) DEF LInv, HomeHolds, Logged
<1>5. \A b \in Blocks : Recovered'[b] = cache[b]
  <2>1. SUFFICES ASSUME NEW b \in Blocks PROVE Recovered'[b] = cache[b]
    BY Zenon
  <2>2. CASE \E i \in 1..lhn : lhblock[i] = b
    <3> DEFINE k == CHOOSE i \in 1..hn' : hblock'[i] = b
    <3>1. k \in 1..lhn /\ lhblock[k] = b
      BY <1>1, <2>2, Zenon
    <3>2. Recovered'[b] = logblk'[k]
      BY <1>1, <2>2, Zenon DEF Recovered
    <3> QED  BY <1>1, <1>2, <3>1, <3>2, Zenon
  <2>3. CASE ~\E i \in 1..lhn : lhblock[i] = b
    <3>1. Recovered'[b] = home'[b]
      BY <1>1, <2>3, Zenon DEF Recovered
    <3> QED  BY <1>1, <1>4, <2>3, <3>1, Zenon
  <2> QED  BY <2>2, <2>3, Zenon
<1>6. Recovered' = cache
  <2>1. Recovered' = [b \in Blocks |-> Recovered'[b]]
    BY Zenon DEF Recovered
  <2>2. cache = [b \in Blocks |-> cache[b]]
    BY Zenon DEF LInv, TypeOK
  <2> QED  BY <1>5, <2>1, <2>2, Zenon
<1>7. Seen = cache /\ Seen' = cache /\ Open' = Open
  BY <1>1, <1>3, Zenon DEF Seen, Recovering, WriteHead, Open, calls
<1> QED  BY <1>2, <1>6, <1>7, Zenon DEF Atomic!Next, Atomic!Commit

LEMMA InstallRefines ==
  ASSUME LInv, InstallTrans
  PROVE  Kept
<1> DEFINE b == lhblock[tail]
<1>1. /\ tail \in 1..hn /\ b = hblock[tail] /\ b \in Blocks
      /\ UNCHANGED <<hn, hblock, logblk>>
      /\ \A c \in Blocks : c # b => home'[c] = home[c]
  <2>1. tail \in 1..lhn /\ hn = lhn /\ \A i \in 1..hn : hblock[i] = lhblock[i]
    BY DEF LInv, TypeOK, Heads, InstallTrans
  <2>2. b \in Blocks
    BY <2>1, Zenon DEF LInv, Heads, Distinct
  <2>3. UNCHANGED <<hn, hblock, logblk>> /\ \A c \in Blocks : c # b => home'[c] = home[c]
    BY Zenon DEF InstallTrans, LInv, TypeOK
  <2> QED  BY <2>1, <2>2, <2>3, Zenon
<1>2. Recovered' = Recovered
  <2>1. \A c \in Blocks : (~\E i \in 1..hn : hblock[i] = c) => home'[c] = home[c]
    BY <1>1, Zenon
  <2> QED  BY <1>1, <2>1, Zenon DEF Recovered
<1>3. Open' = Open
  BY Zenon DEF InstallTrans, Open, calls
<1>4. CASE phase = "install"
  <2>1. cache[b] = logblk[tail]
    BY <1>1, <1>4, Zenon DEF LInv, LogHolds, Heads
  <2>2. cache' = cache
    BY <1>1, <2>1 DEF InstallTrans, LInv, TypeOK
  <2>3. Seen' = Seen
    BY <1>4, <2>2, Zenon DEF Seen, Recovering, InstallTrans, Advance
  <2> QED  BY <1>2, <1>3, <2>3, Zenon DEF Kept
<1>5. CASE phase = "rinstall"
  <2>1. Seen' = Seen
    BY <1>2, <1>5, Zenon DEF Seen, Recovering, InstallTrans, Advance
  <2> QED  BY <1>2, <1>3, <2>1, Zenon DEF Kept
<1> QED  BY <1>4, <1>5, Zenon DEF InstallTrans

LEMMA EraseRefines ==
  ASSUME LInv, Erase \/ RecoveryDone
  PROVE  Kept
<1>1. /\ phase \in {"erase", "rerase"} /\ home' = home /\ hn' = 0
      /\ Open' = Open
  BY Zenon DEF Erase, RecoveryDone, PutHead, Open, calls
<1>2. \A i \in 1..hn : home[hblock[i]] = logblk[i]
  BY <1>1, Zenon DEF LInv, Heads, HomeHolds
<1>3. Recovered = home
  BY <1>2, RecoveredHome, Zenon DEF LInv, Heads
<1>4. Recovered' = home
  <2>1. TypeOK'
    BY EraseKeeps, RecoveryDoneKeeps, Zenon DEF LInv
  <2>2. \A b \in Blocks : Recovered'[b] = home[b]
    BY <1>1 DEF Recovered
  <2>3. Recovered' = [b \in Blocks |-> Recovered'[b]]
    BY Zenon DEF Recovered
  <2>4. home = [b \in Blocks |-> home[b]]
    BY Zenon DEF LInv, TypeOK
  <2> QED  BY <2>2, <2>3, <2>4, Zenon
<1>5. Seen' = Seen
  BY <1>1, <1>3, Zenon DEF Erase, RecoveryDone, Seen, Recovering
<1> QED  BY <1>1, <1>3, <1>4, <1>5, Zenon DEF Kept

LEMMA StepRefines == LInv /\ [Next]_vars => [Atomic!Next]_<<Seen, Recovered, Open>>
<1> SUFFICES ASSUME LInv, [Next]_vars PROVE Atomic!Next \/ Kept
  BY Zenon DEF Kept
<1>1. ASSUME NEW p \in Procs, BeginOp(p) \/ Modify(p) \/ LogWrite(p) \/ EndOp(p)
      PROVE  Atomic!Next \/ Kept
  BY <1>1, CallRefines, Zenon
<1>2. ASSUME NEW p \in Procs, CommitDone(p)
      PROVE  Kept
  <2>1. Recovered' = Recovered
    BY <1>2, RecoveredFrame, Zenon DEF CommitDone
  <2>2. Open' = Open
    BY <1>2, Zenon DEF CommitDone, Open, Wake, LInv, TypeOK
  <2>3. Seen' = Seen
    BY <1>2, Zenon DEF CommitDone, Seen, Recovering
  <2> QED  BY <2>1, <2>2, <2>3, Zenon DEF Kept
<1>3. CASE ReadHead
  <2>1. Recovered' = Recovered
    BY <1>3, RecoveredFrame, Zenon DEF ReadHead
  <2>2. Open' = Open
    BY <1>3, Zenon DEF ReadHead, Open, calls
  <2>3. Seen' = Seen
    BY <1>3, <2>1, Zenon DEF ReadHead, Seen, Recovering
  <2> QED  BY <2>1, <2>2, <2>3, Zenon DEF Kept
<1>4. CASE LogStep
  BY <1>2, <1>3, <1>4, WriteLogRefines, WriteHeadRefines, InstallRefines, EraseRefines, Zenon
     DEF LogStep
<1>5. CASE Crash
  <2>1. Recovered' = Recovered
    BY <1>5, RecoveredFrame, Zenon DEF Crash
  <2>2. Open' = {} /\ Seen' = Recovered'
    BY <1>5, Zenon DEF Crash, Open, Seen, Recovering
  <2> QED  BY <2>1, <2>2, Zenon DEF Atomic!Next, Atomic!Crash
<1>6. ASSUME UNCHANGED vars
      PROVE  Kept
  <2>1. Recovered' = Recovered
    BY <1>6, RecoveredFrame, Zenon DEF vars
  <2>2. Open' = Open
    BY <1>6, Zenon DEF vars, calls, Open
  <2>3. Seen' = Seen
    BY <1>6, <2>1, Zenon DEF vars, progress, Seen, Recovering
  <2> QED  BY <2>1, <2>2, <2>3, Zenon DEF Kept
<1>7. ASSUME NEW b \in Blocks, Evict(b)
      PROVE  Kept
  BY <1>6, <1>7, EvictStutters, Zenon
<1> QED  BY <1>1, <1>4, <1>5, <1>6, <1>7, Zenon DEF Next

LEMMA InitRefines == Init => Atomic!Init
<1> SUFFICES ASSUME Init PROVE Atomic!Init  BY Zenon
<1>1. Open = {} /\ Seen = home /\ home \in [Blocks -> Values]
  BY Zenon DEF Init, Open, Seen, Recovering
<1>2. Recovered = home
  BY InitLInv, EmptyHome, Zenon DEF LInv, Init
<1> QED  BY <1>1, <1>2, Zenon DEF Atomic!Init

(* A file-system call is atomic and a commit durable, wherever crashes fall   *)
(* in end_op(), commit() or recover_from_log(): log.c implements AtomicDisk.  *)
THEOREM LogIsAtomic == Spec => CrashAtomic
BY InitRefines, StepRefines, LogInvariant, PTL DEF Spec, CrashAtomic, Atomic!Spec

-----------------------------------------------------------------------------
(* A commit has its process, and between calls the log is empty, so that a    *)
(* call which finds no room always finds somebody to wait for.                *)
WakerInv ==
  /\ committing => \E q \in Procs : pc[q] = "commit"
  /\ Open = {} /\ ~committing /\ ~Recovering => lhn = 0
  /\ Recovering => \A p \in Procs : pc[p] # "sleep"
  /\ WaitersHaveWaker

(* It depends on the calls, the room and whether the log is recovering. *)
LEMMA WakerFrame ==
  ASSUME WakerInv, UNCHANGED <<pc, committing, lhn, outstanding>>, Recovering <=> Recovering'
  PROVE  WakerInv'
<1>1. (NoRoom <=> NoRoom') /\ Open' = Open
  BY Zenon DEF NoRoom, Open
<1> QED  BY <1>1, Zenon DEF WakerInv, WaitersHaveWaker

(* begin_op() sleeps only when somebody will wake it. *)
LEMMA BeginOpWaker ==
  ASSUME LInv, WakerInv, NEW p \in Procs, BeginOp(p)
  PROVE  WakerInv'
<1>1. UNCHANGED <<committing, lhn, phase>> /\ ~Recovering /\ pc[p] \in {"idle", "begin"}
  BY Zenon DEF BeginOp, Up, lh, progress
<1>2. PICK x \in {"sleep", "op"} : pc' = [pc EXCEPT ![p] = x] /\ (x = "sleep" => committing \/ NoRoom)
  BY Zenon DEF BeginOp
<1>3. pc'[p] = x /\ \A q \in Procs \ {p} : pc'[q] = pc[q]
  BY <1>2, Zenon DEF LInv, TypeOK
<1>4. Open \subseteq Open' /\ (x = "op" => Open' # {}) /\ (x = "sleep" => Open' = Open)
  BY <1>1, <1>3, Zenon DEF Open
<1>5. \A q \in Procs : pc[q] = "commit" => pc'[q] = "commit"
  BY <1>1, <1>3, Zenon
<1>6. x = "sleep" => committing \/ Open # {}
  <2> SUFFICES ASSUME NoRoom, Open = {}, lhn = 0 PROVE FALSE
    BY <1>1, <1>2, Zenon DEF WakerInv
  <2>1. outstanding = 0
    BY OpenFinite, Zenon DEF LInv, Counts
  <2>2. (outstanding + 1) * MAXOPBLOCKS = MAXOPBLOCKS
    BY <2>1
  <2> QED  BY <2>2 DEF NoRoom
<1>7. committing \/ NoRoom => x = "sleep" /\ UNCHANGED outstanding
  BY <1>1, <1>2, <1>3, Zenon DEF BeginOp, LInv, TypeOK
<1>8. (committing \/ NoRoom) => (committing \/ NoRoom)'
  BY <1>1, <1>7, Zenon DEF NoRoom
<1>9. (\E q \in Procs : pc'[q] = "sleep") => committing \/ NoRoom
  BY <1>2, <1>3, Zenon DEF WakerInv, WaitersHaveWaker
<1>10. (\E q \in Procs : pc'[q] = "sleep") => Open' # {} \/ \E q \in Procs : pc'[q] = "commit"
  <2>1. committing => \E q \in Procs : pc'[q] = "commit"
    BY <1>5, Zenon DEF WakerInv
  <2> QED  BY <1>4, <1>6, <1>7, <1>9, <2>1, Zenon
<1>11. WaitersHaveWaker'
  BY <1>8, <1>9, <1>10, Zenon DEF WaitersHaveWaker
<1>12. ~Recovering'
  BY <1>1, Zenon DEF Recovering
<1>13. committing' => \E q \in Procs : pc'[q] = "commit"
  BY <1>1, <1>5, Zenon DEF WakerInv
<1>14. Open' = {} /\ ~committing' => lhn' = 0
  BY <1>1, <1>4, Zenon DEF WakerInv
<1> QED  BY <1>11, <1>12, <1>13, <1>14, Zenon DEF WakerInv

(* end_op() commits when it is the last, and wakes the others when it is not. *)
LEMMA EndOpWaker ==
  ASSUME LInv, WakerInv, NEW p \in Procs, EndOp(p)
  PROVE  WakerInv'
<1>1. outstanding \in Nat /\ outstanding >= 1 /\ p \in Open /\ phase = "none"
  BY CallOpen, Zenon DEF EndOp
<1>2. CASE outstanding = 1
  <2>1. committing' /\ pc' = [pc EXCEPT ![p] = "commit"] /\ ~Recovering'
    BY <1>2, Zenon DEF EndOp, Recovering
  <2>2. pc'[p] = "commit"
    BY <2>1, Zenon DEF LInv, TypeOK
  <2> QED  BY <2>1, <2>2, Zenon DEF WakerInv, WaitersHaveWaker
<1>3. CASE outstanding # 1
  <2>1. pc' = Wake([pc EXCEPT ![p] = "idle"]) /\ UNCHANGED <<committing, phase>> /\ outstanding' = outstanding - 1
    BY <1>3, Zenon DEF EndOp
  <2>2. \A q \in Procs : pc'[q] # "sleep"
    BY <2>1, Zenon DEF Wake, LInv, TypeOK
  <2>3. Open' # {}
    <3>1. outstanding' = Cardinality(Open')
      BY EndOpKeeps, Zenon DEF LInv, Counts
    <3>2. outstanding' # 0
      BY <1>1, <1>3, <2>1
    <3> QED  BY <3>1, <3>2, FS_EmptySet, Zenon
  <2>4. \A q \in Procs : pc[q] = "commit" => pc'[q] = "commit"
    BY <2>1, Zenon DEF EndOp, Wake, LInv, TypeOK
  <2>5. ~Recovering'
    BY <1>1, <2>1, Zenon DEF Recovering
  <2> QED  BY <2>1, <2>2, <2>3, <2>4, <2>5, Zenon DEF WakerInv, WaitersHaveWaker
<1> QED  BY <1>2, <1>3, Zenon

(* The rest of a call, and of the log's work, leaves who waits and who is     *)
(* waited for as they are; the end of a commit wakes everybody.               *)
LEMMA LogStepWaker ==
  ASSUME LInv, WakerInv, LogStep
  PROVE  WakerInv'
<1>1. ASSUME NEW p \in Procs, CommitDone(p) PROVE WakerInv'
  <2>1. \A q \in Procs : pc'[q] # "sleep"
    BY <1>1, Zenon DEF CommitDone, Wake, LInv, TypeOK
  <2>2. ~committing' /\ lhn' = 0
    BY <1>1, Zenon DEF CommitDone, lh, LInv, Heads
  <2> QED  BY <2>1, <2>2, Zenon DEF WakerInv, WaitersHaveWaker
<1>2. CASE Erase \/ ReadHead \/ RecoveryDone
  <2>1. UNCHANGED <<pc, committing>> /\ (lhn' = 0 \/ Recovering')
    BY <1>2, Zenon DEF Erase, ReadHead, RecoveryDone, calls, Recovering
  <2>2. CASE Erase
    <3>1. committing /\ ~Recovering'
      BY <2>2, Zenon DEF Erase, Up, Recovering, LInv, Counts
    <3> QED  BY <2>1, <3>1, Zenon DEF WakerInv, WaitersHaveWaker, Open
  <2>3. CASE ReadHead \/ RecoveryDone
    <3>1. \A q \in Procs : pc[q] # "sleep"
      BY <2>3, Zenon DEF ReadHead, RecoveryDone, Recovering, WakerInv
    <3> QED  BY <2>1, <3>1, Zenon DEF WakerInv, WaitersHaveWaker, Open
  <2> QED  BY <1>2, <2>2, <2>3, Zenon
<1>3. CASE WriteLog \/ WriteHead \/ InstallTrans
  <2>1. UNCHANGED <<pc, committing, lhn, outstanding>> /\ (Recovering <=> Recovering')
    BY <1>3, Zenon DEF WriteLog, WriteHead, InstallTrans, Advance, calls, lh, Recovering, Up
  <2> QED  BY <2>1, WakerFrame, Zenon
<1> QED  BY <1>1, <1>2, <1>3, Zenon DEF LogStep

(* No call sleeps in begin_op() with nobody left to wake it: neither a commit *)
(* nor a full log leaves it behind.                                           *)
THEOREM WaitersNotForgotten == Spec => []WaitersHaveWaker
<1>1. Init => WakerInv
  BY Zenon DEF Init, WakerInv, WaitersHaveWaker
<1>2. LInv /\ WakerInv /\ [Next]_vars => WakerInv'
  <2> SUFFICES ASSUME LInv, WakerInv, [Next]_vars PROVE WakerInv'
    BY Zenon
  <2>1. ASSUME NEW p \in Procs, Modify(p) \/ LogWrite(p) PROVE WakerInv'
    <3>1. UNCHANGED committing /\ p \in Open'
      BY <2>1, Zenon DEF Modify, LogWrite, Open, LInv, TypeOK
    <3>2. \A q \in Procs : pc[q] = "commit" => pc'[q] = "commit"
      BY <2>1, ZenonT(60) DEF Modify, LogWrite, LInv, TypeOK
    <3>3. /\ ~Recovering /\ ~Recovering'
          /\ (\E q \in Procs : pc'[q] = "sleep") => \E q \in Procs : pc[q] = "sleep"
      BY <2>1, ZenonT(60) DEF Modify, LogWrite, Up, Recovering, progress, LInv, TypeOK
    <3>4. lhn' \in Nat /\ lhn' >= lhn /\ lhn \in Nat /\ outstanding' = outstanding /\ outstanding \in Nat
      BY <2>1 DEF Modify, LogWrite, lh, LInv, TypeOK
    <3>5. NoRoom => NoRoom'
      <4> DEFINE reserved == (outstanding + 1) * MAXOPBLOCKS
      <4>1. reserved \in Nat
        BY <3>4
      <4>2. (NoRoom <=> lhn + reserved > LOGBLOCKS) /\ (NoRoom' <=> lhn' + reserved > LOGBLOCKS)
        BY <3>4, Zenon DEF NoRoom
      <4> HIDE DEF reserved
      <4>3. lhn + reserved > LOGBLOCKS => lhn' + reserved > LOGBLOCKS
        <5>1. \A m, n, k, l \in Nat : m >= n /\ n + k > l => m + k > l
          OBVIOUS
        <5>2. LOGBLOCKS \in Nat
          BY Zenon
        <5> QED  BY <3>4, <4>1, <5>1, <5>2, Zenon
      <4> QED  BY <4>2, <4>3, Zenon
    <3> QED  BY <3>1, <3>2, <3>3, <3>5, Zenon DEF WakerInv, WaitersHaveWaker
  <2>2. CASE Crash
    BY <2>2, Zenon DEF Crash, WakerInv, WaitersHaveWaker, Recovering
  <2>3. ASSUME UNCHANGED <<pc, committing, lhn, outstanding, phase>> PROVE WakerInv'
    BY <2>3, WakerFrame, Zenon DEF Recovering
  <2>4. ASSUME NEW b \in Blocks, Evict(b) PROVE WakerInv'
    BY <2>3, <2>4, Zenon DEF Evict, lh, calls, progress
  <2>5. CASE UNCHANGED vars
    BY <2>3, <2>5, Zenon DEF vars, lh, calls, progress
  <2> QED  BY <2>1, <2>2, <2>4, <2>5, BeginOpWaker, EndOpWaker, LogStepWaker, Zenon DEF Next
<1>3. WakerInv => WaitersHaveWaker
  BY Zenon DEF WakerInv
<1> QED  BY <1>1, <1>2, <1>3, LogInvariant, PTL DEF Spec
-----------------------------------------------------------------------------
(* The phases of commit(). *)
CommitPhases == {"wlog", "whead", "install", "erase", "done"}

(* The reservation.  What each call has logged is in the log, is within what  *)
(* the call may write, and is forgotten with the call.                        *)
Room ==
  /\ \A p \in Procs :
       /\ IsFiniteSet(wrote[p]) /\ Cardinality(wrote[p]) <= OpBlocks
       /\ wrote[p] \subseteq Logged
       /\ p \notin Open => wrote[p] = {}
       /\ pc[p] = "mod" => buf[p] \in wrote[p] \/ Cardinality(wrote[p]) < OpBlocks
  /\ committing => phase \in CommitPhases
  /\ IsFiniteSet(Written)
  /\ lhn + outstanding * MAXOPBLOCKS <= LOGBLOCKS + Cardinality(Written)
  /\ ~panicked

(* Blocks written by the open calls, numbered within each call, are OpBlocks  *)
(* per call at most.                                                          *)
LEMMA WrittenBound ==
  ASSUME LInv, Room
  PROVE  Cardinality(Written) \in Nat /\ Cardinality(Written) <= outstanding * OpBlocks
<1> DEFINE n(p) == Cardinality(wrote[p])
           E == [p \in Procs |-> CHOOSE g : g \in Surjection(1..n(p), wrote[p])]
           T == Open \X (1..OpBlocks)
           D == {w \in T : w[2] \in 1..n(w[1])}
           f == [w \in D |-> <<w[1], E[w[1]][w[2]]>>]
<1>1. ASSUME NEW p \in Procs
      PROVE  /\ n(p) \in Nat /\ n(p) <= OpBlocks
             /\ \A k \in 1..n(p) : E[p][k] \in wrote[p]
             /\ \A b \in wrote[p] : \E k \in 1..n(p) : E[p][k] = b
  <2>1. n(p) \in Nat /\ n(p) <= OpBlocks /\ ExistsBijection(1..n(p), wrote[p])
    BY FS_CardinalityType, Zenon DEF Room
  <2>2. \E g : g \in Surjection(1..n(p), wrote[p])
    BY <2>1, Zenon DEF ExistsBijection, Bijection
  <2>3. E[p] \in Surjection(1..n(p), wrote[p])
    BY <2>2, Zenon
  <2> QED  BY <2>1, <2>3, Zenon DEF Surjection
<1> HIDE DEF E, n
<1>2. \A p \in Procs : wrote[p] \subseteq Blocks /\ (p \notin Open => wrote[p] = {})
  BY Zenon DEF Room, LInv, TypeOK
<1>3. \A w \in D : w[1] \in Procs /\ w[1] \in Open /\ w[2] \in 1..n(w[1])
  BY Zenon DEF Open
<1>4. f \in [D -> Written]
  BY <1>1, <1>2, <1>3 DEF Written
<1>5. ASSUME NEW v \in Written PROVE \E w \in D : f[w] = v
  <2>1. v = <<v[1], v[2]>> /\ v[1] \in Procs /\ v[1] \in Open /\ v[2] \in wrote[v[1]]
    BY <1>2 DEF Written
  <2>2. PICK k \in 1..n(v[1]) : E[v[1]][k] = v[2]
    BY <1>1, <2>1, Zenon
  <2>3. k \in 1..OpBlocks
    BY <1>1, <2>1
  <2>4. <<v[1], k>> \in D
    BY <2>1, <2>2, <2>3, Zenon
  <2> QED  BY <2>1, <2>2, <2>4, Zenon
<1> HIDE DEF D, f
<1>6. f \in Surjection(D, Written)
  BY <1>4, <1>5, Zenon DEF Surjection
<1>7. IsFiniteSet(T) /\ Cardinality(T) = Cardinality(Open) * OpBlocks
  <2>1. IsFiniteSet(1..OpBlocks) /\ Cardinality(1..OpBlocks) = OpBlocks
    BY FS_Interval
  <2>2. IsFiniteSet(Open)
    BY OpenFinite, Zenon DEF LInv
  <2>3. IsFiniteSet(T) /\ Cardinality(T) = Cardinality(Open) * Cardinality(1..OpBlocks)
    BY <2>1, <2>2, FS_Product, Zenon
  <2> QED  BY <2>1, <2>3, Zenon
<1>8. IsFiniteSet(D) /\ Cardinality(D) <= Cardinality(T)
  BY <1>7, FS_Subset, Zenon DEF D
<1>9. IsFiniteSet(Written) /\ Cardinality(Written) <= Cardinality(D)
  BY <1>6, <1>8, FS_Surjection, Zenon
<1>10. /\ Cardinality(Written) \in Nat /\ Cardinality(D) \in Nat /\ Cardinality(T) \in Nat
       /\ Cardinality(T) = outstanding * OpBlocks
  BY <1>7, <1>8, <1>9, FS_CardinalityType, Zenon DEF LInv, Counts
<1> QED  BY <1>8, <1>9, <1>10

(* So while a call is open, log_write() finds a free slot. *)
LEMMA RoomLeft ==
  ASSUME LInv, Room, outstanding >= 1
  PROVE  lhn < LOGBLOCKS
<1>1. outstanding \in Nat /\ lhn \in Nat
  BY DEF LInv, TypeOK
<1>2. outstanding * MAXOPBLOCKS >= outstanding * OpBlocks + outstanding
  <2>1. outstanding * MAXOPBLOCKS = outstanding * (OpBlocks + 1) + outstanding * (MAXOPBLOCKS - OpBlocks - 1)
    BY <1>1
  <2>2. outstanding * (MAXOPBLOCKS - OpBlocks - 1) >= 0
    BY <1>1
  <2>3. outstanding * (OpBlocks + 1) = outstanding * OpBlocks + outstanding
    BY <1>1
  <2>4. /\ outstanding * MAXOPBLOCKS \in Int /\ outstanding * OpBlocks \in Int
        /\ outstanding * (MAXOPBLOCKS - OpBlocks - 1) \in Int
    BY <1>1
  <2> QED  BY <1>1, <2>1, <2>2, <2>3, <2>4
<1>3. /\ outstanding * MAXOPBLOCKS \in Int /\ outstanding * OpBlocks \in Int
      /\ Cardinality(Written) \in Nat /\ Cardinality(Written) <= outstanding * OpBlocks
  BY <1>1, WrittenBound
<1>4. lhn + outstanding * MAXOPBLOCKS <= LOGBLOCKS + Cardinality(Written)
  BY Zenon DEF Room
<1> QED  BY <1>1, <1>2, <1>3, <1>4

(* A step that leaves the calls, their blocks and the log's length alone. *)
LEMMA RoomFrame ==
  ASSUME Room, UNCHANGED <<pc, buf, wrote, outstanding, committing, lhn, lhblock, panicked>>,
         committing => phase' \in CommitPhases
  PROVE  Room'
<1>1. Written' = Written
  BY Zenon DEF Written
<1>2. Logged' = Logged /\ Open' = Open
  BY Zenon DEF Logged, Open
<1> QED  BY <1>1, <1>2, Zenon DEF Room

(* With no call open, nothing is reserved. *)
LEMMA RoomEmpty ==
  ASSUME TypeOK', Open' = {}, outstanding' = 0, \A p \in Procs : wrote'[p] = {},
         committing' => phase' \in CommitPhases, ~panicked'
  PROVE  Room'
<1>1. Written' = {}
  BY Zenon DEF Written
<1>2. IsFiniteSet({}) /\ Cardinality({}) = 0
  BY FS_EmptySet, Zenon
<1>3. lhn' <= LOGBLOCKS /\ 0 * MAXOPBLOCKS = 0 /\ lhn' \in Nat
  BY DEF TypeOK
<1>4. lhn' + outstanding' * MAXOPBLOCKS <= LOGBLOCKS + Cardinality(Written')
  BY <1>1, <1>2, <1>3
<1>5. ASSUME NEW p \in Procs
      PROVE  /\ pc'[p] # "mod" /\ wrote'[p] \subseteq Logged'
             /\ IsFiniteSet(wrote'[p]) /\ Cardinality(wrote'[p]) <= OpBlocks
  BY <1>2 DEF Open
<1> QED  BY <1>1, <1>2, <1>4, <1>5, Zenon DEF Room

(* begin_op() reserves MAXOPBLOCKS slots, when the log has them.              *)
LEMMA BeginOpRoom ==
  ASSUME LInv, Room, NEW p \in Procs, BeginOp(p)
  PROVE  Room'
<1> USE DEF BeginOp, Up, lh, progress
<1>0. /\ UNCHANGED <<lhn, lhblock, committing, buf, phase, panicked>> /\ pc[p] \in {"idle", "begin"}
      /\ p \notin Open
  BY Zenon DEF Open
<1>1. wrote[p] = {} /\ wrote' = wrote
  <2>1. wrote[p] = {}
    BY <1>0, Zenon DEF Room
  <2>2. wrote' = wrote \/ wrote' = [wrote EXCEPT ![p] = {}]
    BY Zenon
  <2>3. wrote = [q \in Procs |-> wrote[q]]
    BY Zenon DEF LInv, TypeOK
  <2>4. [wrote EXCEPT ![p] = {}] = wrote
    BY <2>1, <2>3, ZenonT(60)
  <2> QED  BY <2>1, <2>2, <2>4, Zenon
<1>2. Written' = Written /\ Logged' = Logged
  BY <1>0, <1>1 DEF Written, Logged
<1>3. PICK x \in {"sleep", "op"} : pc' = [pc EXCEPT ![p] = x]
  BY Zenon
<1>4. pc'[p] = x /\ \A q \in Procs \ {p} : pc'[q] = pc[q]
  BY <1>3, Zenon DEF LInv, TypeOK
<1>5. \A q \in Procs : q \notin Open' => q \notin Open
  BY <1>0, <1>4, Zenon DEF Open
<1>6. \A q \in Procs : pc'[q] = "mod" => pc[q] = "mod"
  BY <1>4, Zenon
<1>7. lhn + outstanding' * MAXOPBLOCKS <= LOGBLOCKS + Cardinality(Written)
  <2>1. CASE committing \/ NoRoom
    BY <2>1, Zenon DEF Room
  <2>2. CASE ~(committing \/ NoRoom)
    <3>1. outstanding' = outstanding + 1 /\ outstanding \in Nat /\ lhn \in Nat
      BY <2>2 DEF LInv, TypeOK
    <3>2. lhn + (outstanding + 1) * MAXOPBLOCKS <= LOGBLOCKS
      BY <2>2, <3>1 DEF NoRoom
    <3>3. Cardinality(Written) \in Nat
      BY FS_CardinalityType, Zenon DEF Room
    <3> QED  BY <3>1, <3>2, <3>3, SMTT(30)
  <2> QED  BY <2>1, <2>2, Zenon
<1> HIDE DEF BeginOp
<1> QED  BY <1>0, <1>1, <1>2, <1>5, <1>6, <1>7, ZenonT(60) DEF Room

(* A call turns to a block it has written, or to one more that it may write.  *)
LEMMA ModifyRoom ==
  ASSUME LInv, Room, NEW p \in Procs, Modify(p)
  PROVE  Room'
<1>1. PICK b \in Blocks : /\ b \in wrote[p] \/ Cardinality(wrote[p]) < OpBlocks
                          /\ buf' = [buf EXCEPT ![p] = b]
  BY Zenon DEF Modify
<1>2. /\ pc' = [pc EXCEPT ![p] = "mod"] /\ pc[p] = "op"
      /\ UNCHANGED <<wrote, outstanding, committing, lhn, lhblock, phase, panicked>>
  BY Zenon DEF Modify, lh, progress
<1>3. Written' = Written /\ Logged' = Logged
  BY <1>2, Zenon DEF Written, Logged
<1>4. pc'[p] = "mod" /\ buf'[p] = b /\ \A q \in Procs \ {p} : pc'[q] = pc[q] /\ buf'[q] = buf[q]
  BY <1>1, <1>2, Zenon DEF LInv, TypeOK
<1>5. Open' = Open
  BY <1>2, <1>4, Zenon DEF Open
<1>6. \A q \in Procs : pc'[q] = "mod" => buf'[q] \in wrote[q] \/ Cardinality(wrote[q]) < OpBlocks
  BY <1>1, <1>4, Zenon DEF Room
<1> QED  BY <1>2, <1>3, <1>5, <1>6, Zenon DEF Room

(* log_write() takes a slot only for a block its call has not written yet. *)
LEMMA LogWriteRoom ==
  ASSUME LInv, Room, NEW p \in Procs, LogWrite(p)
  PROVE  Room'
<1> DEFINE b == buf[p]
<1>1. /\ pc[p] = "mod" /\ b \in Blocks /\ p \in Open
      /\ outstanding \in Nat /\ outstanding >= 1 /\ lhn \in Nat /\ lhn < LOGBLOCKS
  <2>1. pc[p] = "mod"
    BY Zenon DEF LogWrite
  <2>2. b \in Blocks
    BY <2>1, Zenon DEF LInv, Counts
  <2> QED  BY <2>1, <2>2, CallOpen, RoomLeft DEF LInv, TypeOK
<1>2. /\ pc' = [pc EXCEPT ![p] = "op"] /\ buf' = [buf EXCEPT ![p] = None]
      /\ wrote' = [wrote EXCEPT ![p] = @ \cup {b}]
      /\ UNCHANGED <<outstanding, committing, phase>>
  BY Zenon DEF LogWrite, progress
<1>2a. ~panicked'
  <2>1. panicked' = (lhn >= LOGBLOCKS \/ outstanding < 1)
    BY Zenon DEF LogWrite
  <2>2. ~(lhn >= LOGBLOCKS \/ outstanding < 1)
    BY <1>1
  <2> QED  BY <2>1, <2>2, Zenon
<1>3. \/ b \in Logged /\ UNCHANGED <<lhn, lhblock>>
      \/ b \notin Logged /\ lhn' = lhn + 1 /\ lhblock' = [lhblock EXCEPT ![lhn + 1] = b]
  BY <1>1 DEF LogWrite, lh
<1>4. Logged \subseteq Logged' /\ b \in Logged'
  <2>1. CASE b \in Logged /\ UNCHANGED <<lhn, lhblock>>
    BY <2>1, Zenon DEF Logged
  <2>2. CASE lhn' = lhn + 1 /\ lhblock' = [lhblock EXCEPT ![lhn + 1] = b]
    <3>1. \A i \in 1..lhn : i \in 1..lhn' /\ lhblock'[i] = lhblock[i]
      BY <1>1, <2>2, SMTT(30) DEF LInv, TypeOK
    <3>2. lhn + 1 \in 1..lhn' /\ lhblock'[lhn + 1] = b
      BY <1>1, <2>2 DEF LInv, TypeOK
    <3> QED  BY <3>1, <3>2, ZenonT(60) DEF Logged
  <2> QED  BY <1>3, <2>1, <2>2, Zenon
<1>5. /\ pc'[p] = "op" /\ \A q \in Procs \ {p} : pc'[q] = pc[q] /\ buf'[q] = buf[q]
      /\ wrote'[p] = wrote[p] \cup {b} /\ \A q \in Procs \ {p} : wrote'[q] = wrote[q]
  BY <1>2, Zenon DEF LInv, TypeOK
<1>6. Open' = Open
  BY <1>1, <1>5, ZenonT(60) DEF Open
<1>7. Written' = Written \cup {<<p, b>>}
  BY <1>1, <1>5 DEF Written
<1>8. IsFiniteSet(Written) /\ Cardinality(Written) \in Nat
  BY FS_CardinalityType, Zenon DEF Room
<1>9. IsFiniteSet(wrote[p]) /\ Cardinality(wrote[p]) \in Nat /\ Cardinality(wrote[p]) <= OpBlocks
  BY FS_CardinalityType, Zenon DEF Room
<1>10. /\ IsFiniteSet(Written')
       /\ lhn' + outstanding * MAXOPBLOCKS <= LOGBLOCKS + Cardinality(Written')
  <2>1. lhn + outstanding * MAXOPBLOCKS <= LOGBLOCKS + Cardinality(Written) /\ outstanding * MAXOPBLOCKS \in Int
    BY <1>1 DEF Room
  <2>2. CASE b \in wrote[p]
    <3>1. Written' = Written
      BY <1>1, <1>7, <2>2 DEF Written
    <3>2. lhn' = lhn
      BY <1>3, <2>2, Zenon DEF Room
    <3> QED  BY <1>8, <2>1, <3>1, <3>2, ZenonT(60)
  <2>3. CASE b \notin wrote[p]
    <3>1. <<p, b>> \notin Written
      BY <2>3, Zenon DEF Written
    <3>2. IsFiniteSet(Written') /\ Cardinality(Written') = Cardinality(Written) + 1
      BY <1>7, <1>8, <3>1, FS_AddElement, ZenonT(60)
    <3>3. lhn' <= lhn + 1 /\ lhn' \in Nat
      BY <1>1, <1>3
    <3> QED  BY <1>1, <1>8, <2>1, <3>2, <3>3
  <2> QED  BY <2>2, <2>3, ZenonT(60)
<1>11. IsFiniteSet(wrote'[p]) /\ Cardinality(wrote'[p]) <= OpBlocks
  <2>1. CASE b \in wrote[p]
    <3>1. wrote'[p] = wrote[p]
      BY <1>5, <2>1, Zenon
    <3> QED  BY <1>9, <3>1, Zenon
  <2>2. CASE b \notin wrote[p]
    <3>1. Cardinality(wrote[p]) < OpBlocks
      BY <1>1, <2>2, Zenon DEF Room
    <3>2. /\ IsFiniteSet(wrote[p] \cup {b})
          /\ Cardinality(wrote[p] \cup {b}) = Cardinality(wrote[p]) + 1
      BY <1>9, <2>2, FS_AddElement, Zenon
    <3> QED  BY <1>5, <1>9, <3>1, <3>2
  <2> QED  BY <2>1, <2>2, Zenon
<1> HIDE DEF b
<1>12. ASSUME NEW q \in Procs
       PROVE  /\ IsFiniteSet(wrote'[q]) /\ Cardinality(wrote'[q]) <= OpBlocks
              /\ wrote'[q] \subseteq Logged'
              /\ q \notin Open' => wrote'[q] = {}
              /\ pc'[q] = "mod" => buf'[q] \in wrote'[q] \/ Cardinality(wrote'[q]) < OpBlocks
  <2>1. CASE q = p
    BY <1>1, <1>4, <1>5, <1>6, <1>11, <2>1, Zenon DEF Room
  <2>2. CASE q # p
    BY <1>4, <1>5, <1>6, <2>2, Zenon DEF Room
  <2> QED  BY <2>1, <2>2, Zenon
<1>13. committing' => phase' \in CommitPhases
  BY <1>2, Zenon DEF Room
<1> QED  BY <1>2, <1>2a, <1>10, <1>12, <1>13, ZenonT(60) DEF Room

(* end_op() gives back a whole reservation, of which its call used a part. *)
LEMMA EndOpRoom ==
  ASSUME LInv, Room, NEW p \in Procs, EndOp(p)
  PROVE  Room'
<1>1. /\ phase = "none" /\ outstanding \in Nat /\ outstanding >= 1 /\ p \in Open /\ pc[p] = "op"
      /\ lhn \in Nat
  BY CallOpen DEF EndOp, LInv, TypeOK
<1>2. ~committing
  BY <1>1, Zenon DEF Room, CommitPhases
<1>3. /\ outstanding' = outstanding - 1 /\ ~panicked'
      /\ wrote' = [wrote EXCEPT ![p] = {}]
      /\ UNCHANGED <<lhn, lhblock, buf>>
      /\ committing' => phase' \in CommitPhases
  BY <1>2, Zenon DEF EndOp, lh, CommitPhases
<1>4. Logged' = Logged
  BY <1>3, Zenon DEF Logged
<1>5. wrote'[p] = {} /\ \A q \in Procs \ {p} : wrote'[q] = wrote[q]
  BY <1>3, Zenon DEF LInv, TypeOK
<1>6. \A q \in Procs \ {p} : (q \notin Open' => q \notin Open) /\ (pc'[q] = "mod" => pc[q] = "mod")
  <2>1. CASE outstanding = 1
    BY <2>1, Zenon DEF EndOp, Open, LInv, TypeOK
  <2>2. CASE outstanding # 1
    BY <2>2, Zenon DEF EndOp, Wake, Open, LInv, TypeOK
  <2> QED  BY <2>1, <2>2, Zenon
<1>7. pc'[p] # "mod"
  BY <1>1, Zenon DEF EndOp, Wake, LInv, TypeOK
<1> DEFINE V == {p} \X wrote[p]
<1>8. Written' = Written \ V /\ Written \cap V = V
  <2>1. wrote[p] \subseteq Blocks
    BY Zenon DEF LInv, TypeOK
  <2> QED  BY <1>5, <2>1, Zenon DEF Written
<1>9. IsFiniteSet(wrote[p]) /\ Cardinality(wrote[p]) \in Nat /\ Cardinality(wrote[p]) <= OpBlocks
  BY FS_CardinalityType, Zenon DEF Room
<1>10. IsFiniteSet(V) /\ Cardinality(V) = Cardinality(wrote[p])
  <2>1. IsFiniteSet({p}) /\ Cardinality({p}) = 1
    BY FS_Singleton, Zenon
  <2>2. IsFiniteSet(V) /\ Cardinality(V) = 1 * Cardinality(wrote[p])
    BY <1>9, <2>1, FS_Product, ZenonT(60)
  <2> QED  BY <1>9, <2>2
<1>11. IsFiniteSet(Written) /\ Cardinality(Written) \in Nat
  BY FS_CardinalityType, Zenon DEF Room
<1> HIDE DEF V
<1>12. IsFiniteSet(Written') /\ Cardinality(Written') = Cardinality(Written) - Cardinality(wrote[p])
  <2>1. IsFiniteSet(Written \ V) /\ Cardinality(Written \ V) = Cardinality(Written) - Cardinality(Written \cap V)
    BY <1>11, FS_Difference, ZenonT(60)
  <2> QED  BY <1>8, <1>10, <2>1, Zenon
<1>13. lhn' + outstanding' * MAXOPBLOCKS <= LOGBLOCKS + Cardinality(Written')
  <2>1. lhn + outstanding * MAXOPBLOCKS <= LOGBLOCKS + Cardinality(Written)
    BY Zenon DEF Room
  <2>2. outstanding' * MAXOPBLOCKS = outstanding * MAXOPBLOCKS - MAXOPBLOCKS /\ outstanding * MAXOPBLOCKS \in Int
    BY <1>1, <1>3, SMTT(30)
  <2> QED  BY <1>1, <1>3, <1>9, <1>11, <1>12, <2>1, <2>2, SMTT(30)
<1>14. ASSUME NEW q \in Procs
       PROVE  /\ IsFiniteSet(wrote'[q]) /\ Cardinality(wrote'[q]) <= OpBlocks
              /\ wrote'[q] \subseteq Logged'
              /\ q \notin Open' => wrote'[q] = {}
              /\ pc'[q] = "mod" => buf'[q] \in wrote'[q] \/ Cardinality(wrote'[q]) < OpBlocks
  <2>1. CASE q = p
    BY <1>5, <1>7, <2>1, FS_EmptySet
  <2>2. CASE q # p
    BY <1>3, <1>4, <1>5, <1>6, <2>2, Zenon DEF Room
  <2> QED  BY <2>1, <2>2, Zenon
<1> QED  BY <1>3, <1>12, <1>13, <1>14, ZenonT(60) DEF Room

(* Nothing is reserved during a commit or in recovery. *)
LEMMA LogStepRoom ==
  ASSUME LInv, LInv', Room, LogStep
  PROVE  Room'
<1>1. phase # "none"
  BY Zenon DEF LogStep, WriteLog, WriteHead, InstallTrans, Erase, ReadHead, RecoveryDone, CommitDone
<1>2. /\ Open = {} /\ outstanding = 0 /\ \A p \in Procs : wrote[p] = {}
  <2>1. Open = {}
    BY <1>1, Zenon DEF LInv, Counts
  <2> QED  BY <2>1, FS_EmptySet, Zenon DEF LInv, Counts, Room
<1>3. /\ UNCHANGED <<outstanding, wrote, panicked>> /\ Open' = Open
      /\ committing' => phase' \in CommitPhases
  <2>1. CASE WriteLog \/ WriteHead \/ InstallTrans
    <3>1. UNCHANGED <<outstanding, wrote, panicked, pc, committing>>
      BY <2>1, Zenon DEF WriteLog, WriteHead, InstallTrans, calls
    <3>2. phase \in CommitPhases => phase' \in CommitPhases
      BY <2>1, Zenon DEF WriteLog, WriteHead, InstallTrans, Advance, CommitPhases
    <3> QED  BY <3>1, <3>2, Zenon DEF Open, Room
  <2>2. CASE Erase \/ ReadHead \/ RecoveryDone
    <3>1. UNCHANGED <<outstanding, wrote, panicked, pc, committing>>
      BY <2>2, Zenon DEF Erase, ReadHead, RecoveryDone, calls
    <3>2. phase \in CommitPhases => phase' = "done"
      BY <2>2, Zenon DEF Erase, ReadHead, RecoveryDone, CommitPhases
    <3> QED  BY <3>1, <3>2, Zenon DEF Open, Room, CommitPhases
  <2>3. ASSUME NEW p \in Procs, CommitDone(p)
        PROVE  UNCHANGED <<outstanding, wrote, panicked>> /\ ~committing' /\ Open' = Open
    <3>1. UNCHANGED <<outstanding, wrote, panicked>> /\ ~committing'
      BY <2>3, Zenon DEF CommitDone
    <3>2. Open' = Open
      BY <2>3, Zenon DEF CommitDone, Open, Wake, LInv, TypeOK
    <3> QED  BY <3>1, <3>2, Zenon
  <2> QED  BY <2>1, <2>2, <2>3, Zenon DEF LogStep
<1>4. TypeOK' /\ ~panicked
  BY Zenon DEF LInv, Room
<1> QED  BY <1>2, <1>3, <1>4, RoomEmpty, Zenon

(* The reservation of begin_op() holds, for any number of calls and any sizes *)
(* of the log and of a call: log_write() never finds the log full, and        *)
(* neither it nor end_op() panics.                                            *)
THEOREM ReservationKept == Spec => []ReservationHolds
<1>1. Init => Room
  <2> SUFFICES ASSUME Init PROVE Room
    BY Zenon
  <2>1. Written = {} /\ \A p \in Procs : wrote[p] = {} /\ pc[p] = "idle"
    BY Zenon DEF Init, Written
  <2>2. lhn + outstanding * MAXOPBLOCKS = 0
    BY DEF Init
  <2> QED  BY <2>1, <2>2, FS_EmptySet DEF Init, Room
<1>2. LInv /\ LInv' /\ Room /\ [Next]_vars => Room'
  <2> SUFFICES ASSUME LInv, LInv', Room, [Next]_vars PROVE Room'
    BY Zenon
  <2>1. CASE Crash
    <3>1. /\ outstanding' = 0 /\ (\A p \in Procs : wrote'[p] = {}) /\ ~committing' /\ ~panicked'
          /\ Open' = {}
      BY <2>1, Zenon DEF Crash, Open
    <3> QED  BY <3>1, RoomEmpty, Zenon DEF LInv
  <2>2. ASSUME NEW b \in Blocks, Evict(b) PROVE Room'
    BY <2>2, RoomFrame, Zenon DEF Evict, lh, calls, progress, Room
  <2>3. CASE UNCHANGED vars
    BY <2>3, RoomFrame, Zenon DEF vars, lh, calls, progress, Room
  <2> QED  BY <2>1, <2>2, <2>3, BeginOpRoom, ModifyRoom, LogWriteRoom, EndOpRoom, LogStepRoom, ZenonT(60)
           DEF Next
<1>3. LInv /\ Room => ReservationHolds
  BY Zenon DEF LInv, Room, ReservationHolds
<1> QED  BY <1>1, <1>2, <1>3, LogInvariant, PTL DEF Spec
=============================================================================
