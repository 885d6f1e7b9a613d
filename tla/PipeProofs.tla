----------------------------- MODULE PipeProofs -----------------------------
(* Peterson's lock in pipe.c, the freeing of the pipe and its ring of bytes,  *)
(* for any pipe size, request size and integer width, when each end of the    *)
(* pipe has one holder and the two stores of peterson_acquire() become        *)
(* visible in program order.                                                  *)
EXTENDS Pipe, Sequences, TLAPS

OneEach == \A p, q \in Procs : Id(p) = Id(q) => p = q

Spinning == {"spinflag", "spinturn"}

LockTypes ==
  /\ flag \in [{0, 1} -> {0, 1}] /\ turn \in {0, 1}
  /\ pc \in [Procs -> Pcs]
  /\ pend \in [Procs -> SUBSET {"flag", "turn"}]

(* A raised flag says where its owner is. *)
FlagInv ==
  \A p \in Procs :
    /\ pc[p] = "acq" => "turn" \in pend[p]
    /\ flag[Id(p)] = 1 <=> \/ pc[p] \in Spinning \cup Critical
                           \/ pc[p] = "acq" /\ "flag" \notin pend[p]

(* Whoever arrived second has handed the turn to the one inside. *)
TurnInv ==
  \A p, q \in Procs :
    p # q /\ pc[p] \in Critical /\ pc[q] \in Spinning \cup Critical => turn = Id(p)

PInv == LockTypes /\ FlagInv /\ TurnInv

(* The ids of the two sides. *)
LEMMA Ids ==
  /\ \A p \in Procs : Id(p) \in {0, 1} /\ Other(p) \in {0, 1} /\ Other(p) # Id(p)
  /\ \A p, q \in Procs : Id(p) # Id(q) => Other(p) = Id(q)
  BY DEF Id, Other

(* pipealloc() leaves the lock free. *)
LEMMA InitPInv == Init => PInv
<1> SUFFICES ASSUME Init PROVE PInv
  BY Zenon
<1>1. LockTypes
  BY Zenon DEF Init, LockTypes, Pcs
<1>2. FlagInv
  BY Ids, Zenon DEF Init, FlagInv, Spinning, Critical
<1>3. TurnInv
  BY Zenon DEF Init, TurnInv, Critical
<1> QED BY <1>1, <1>2, <1>3, Zenon DEF PInv

(* The invariant gives mutual exclusion: the turn cannot be both's. *)
LEMMA PInvMutex == OneEach /\ PInv => Mutex
  BY Zenon DEF OneEach, PInv, TurnInv, Mutex, Spinning

(* A step of one process that stays on its side of the lock. *)
LEMMA StayPInv ==
  ASSUME PInv, NEW p \in Procs, NEW l \in Pcs,
         pc' = [pc EXCEPT ![p] = l], UNCHANGED <<flag, turn, pend>>,
         \/ pc[p] \in Critical /\ l \in Critical
         \/ /\ pc[p] \notin Critical \cup Spinning \cup {"acq"}
            /\ l \notin Critical \cup Spinning \cup {"acq"}
         \/ pc[p] \in Spinning /\ l \in Spinning
  PROVE  PInv'
<1>1. LockTypes'
  BY Zenon DEF PInv, LockTypes
<1>2. FlagInv'
  BY ZenonT(60) DEF PInv, LockTypes, FlagInv, Critical, Spinning
<1>3. TurnInv'
  BY Zenon DEF PInv, LockTypes, TurnInv, Critical, Spinning
<1> QED BY <1>1, <1>2, <1>3, Zenon DEF PInv

(* Starting peterson_acquire(). *)
LEMMA AcquirePInv ==
  ASSUME PInv, NEW p \in Procs, NEW op, Acquire(p, op), pc[p] = "idle", UNCHANGED <<flag, turn>>
  PROVE  PInv'
<1>0. pc' = [pc EXCEPT ![p] = "acq"] /\ pend' = [pend EXCEPT ![p] = {"flag", "turn"}]
  BY Zenon DEF Acquire, Goto
<1>1. LockTypes'
  BY <1>0, Zenon DEF PInv, LockTypes, Pcs
<1>2. FlagInv'
  BY <1>0, Zenon DEF PInv, LockTypes, FlagInv, Critical, Spinning
<1>3. TurnInv'
  BY <1>0, Zenon DEF PInv, LockTypes, TurnInv, Critical, Spinning
<1> QED BY <1>1, <1>2, <1>3, Zenon DEF PInv

(* The flag is raised before the turn is handed over. *)
LEMMA StorePInv ==
  ASSUME PInv, OneEach, ~StoresReorder, NEW p \in Procs, Store(p)
  PROVE  PInv'
<1>1. PICK s \in pend[p] :
        /\ pc[p] = "acq"
        /\ s = "turn" => "flag" \notin pend[p]
        /\ flag' = IF s = "flag" THEN [flag EXCEPT ![Id(p)] = 1] ELSE flag
        /\ turn' = IF s = "turn" THEN Other(p) ELSE turn
        /\ pend' = [pend EXCEPT ![p] = pend[p] \ {s}]
        /\ pc' = [pc EXCEPT ![p] = IF pend[p] = {s} THEN "spinflag" ELSE "acq"]
  BY Zenon DEF Store, Goto
<1>2. "turn" \in pend[p] /\ pend[p] \subseteq {"flag", "turn"}
  BY <1>1, Zenon DEF PInv, FlagInv, LockTypes
<1>3. CASE s = "flag"
  <2>0. /\ flag' = [flag EXCEPT ![Id(p)] = 1] /\ turn' = turn
        /\ pend' = [pend EXCEPT ![p] = pend[p] \ {"flag"}]
        /\ pc' = pc
    BY <1>1, <1>2, <1>3, Zenon DEF PInv, LockTypes
  <2>1. LockTypes'
    BY <2>0, Ids, Zenon DEF PInv, LockTypes
  <2>2. FlagInv'
    BY <1>1, <1>2, <2>0, Ids DEF PInv, LockTypes, FlagInv, OneEach
  <2>3. TurnInv'
    BY <2>0, Zenon DEF PInv, TurnInv
  <2> QED BY <2>1, <2>2, <2>3, Zenon DEF PInv
<1>4. CASE s = "turn"
  <2>0. /\ flag' = flag /\ turn' = Other(p)
        /\ pend' = [pend EXCEPT ![p] = pend[p] \ {"turn"}]
        /\ pc' = [pc EXCEPT ![p] = "spinflag"]
        /\ "flag" \notin pend[p]
    <3>1. pend[p] = {"turn"}
      BY <1>1, <1>2, <1>4, Zenon
    <3> QED BY <1>1, <1>4, <3>1, Zenon
  <2>1. LockTypes'
    BY <2>0, Ids, Zenon DEF PInv, LockTypes, Pcs
  <2>2. FlagInv'
    BY <1>1, <2>0 DEF PInv, LockTypes, FlagInv, Spinning, Critical
  <2>3. TurnInv'
    <3> SUFFICES ASSUME NEW a \in Procs, NEW b \in Procs, a # b,
                        pc'[a] \in Critical, pc'[b] \in Spinning \cup Critical
                 PROVE  turn' = Id(a)
      BY Zenon DEF TurnInv
    <3>1. a # p
      BY <2>0, Zenon DEF PInv, LockTypes, Critical
    <3> QED BY <2>0, <3>1, Ids, Zenon DEF OneEach
  <2> QED BY <2>1, <2>2, <2>3, Zenon DEF PInv
<1> QED BY <1>1, <1>2, <1>3, <1>4, Zenon

(* Entering: the other flag is down, or the turn is this process's. *)
LEMMA SpinPInv == ASSUME PInv, OneEach, NEW p \in Procs, Spin(p) PROVE PInv'
<1>0. /\ pc[p] \in Spinning /\ UNCHANGED <<flag, turn, pend>>
      /\ pc' = [pc EXCEPT ![p] = IF pc[p] = "spinflag"
                 THEN IF flag[Other(p)] = 1 THEN "spinturn" ELSE "body"
                 ELSE IF turn = Other(p) THEN "spinflag" ELSE "body"]
  BY Zenon DEF Spin, Goto, Spinning
<1>1. CASE pc'[p] \in Spinning
  BY <1>0, <1>1, StayPInv, Zenon DEF PInv, LockTypes, Spinning, Pcs
<1>2. CASE pc'[p] \notin Spinning
  <2>1. /\ pc' = [pc EXCEPT ![p] = "body"]
        /\ flag[Other(p)] # 1 \/ turn # Other(p)
    BY <1>0, <1>2, Zenon DEF PInv, LockTypes, Spinning
  <2>2. LockTypes'
    BY <1>0, <2>1, Zenon DEF PInv, LockTypes, Pcs, Critical
  <2>3. FlagInv'
    BY <1>0, <2>1, ZenonT(60) DEF PInv, LockTypes, FlagInv, Spinning, Critical
  <2>4. TurnInv'
    <3> SUFFICES ASSUME NEW a \in Procs, NEW b \in Procs, a # b,
                        pc'[a] \in Critical, pc'[b] \in Spinning \cup Critical
                 PROVE  turn = Id(a)
      BY <1>0, Zenon DEF TurnInv
    <3>1. CASE a = p
      <4>1. flag[Id(b)] = 1 /\ Id(b) = Other(p)
        BY <2>1, <3>1, Ids, ZenonT(60) DEF PInv, LockTypes, FlagInv, OneEach
      <4>2. turn # Other(p)
        BY <2>1, <4>1, Zenon
      <4> QED BY <3>1, <4>2, Ids, Zenon DEF PInv, LockTypes, Id, Other
    <3>2. CASE a # p
      <4>1. pc[a] \in Critical /\ pc[b] \in Spinning \cup Critical
        BY <1>0, <2>1, <3>2, Zenon DEF PInv, LockTypes
      <4> QED BY <4>1, Zenon DEF PInv, TurnInv
    <3> QED BY <3>1, <3>2, Zenon
  <2> QED BY <2>2, <2>3, <2>4, Zenon DEF PInv
<1> QED BY <1>1, <1>2, Zenon

(* Leaving: the flag goes down, and nobody depends on the turn. *)
LEMMA ReleasePInv == ASSUME PInv, OneEach, NEW p \in Procs, Release(p) PROVE PInv'
<1>0. /\ pc[p] \in {"rel", "relsleep", "relfree"}
      /\ flag' = [flag EXCEPT ![Id(p)] = 0] /\ UNCHANGED <<turn, pend>>
      /\ \E l \in {"gone", "idle", "sleep", "free"} : pc' = [pc EXCEPT ![p] = l]
  BY Zenon DEF Release, Goto
<1>1. PICK l \in {"gone", "idle", "sleep", "free"} : pc' = [pc EXCEPT ![p] = l]
  BY <1>0, Zenon
<1>2. LockTypes'
  BY <1>0, <1>1, Ids, Zenon DEF PInv, LockTypes, Pcs
<1>3. FlagInv'
  <2> SUFFICES ASSUME NEW q \in Procs
      PROVE /\ pc'[q] = "acq" => "turn" \in pend'[q]
            /\ flag'[Id(q)] = 1 <=> \/ pc'[q] \in Spinning \cup Critical
                                    \/ pc'[q] = "acq" /\ "flag" \notin pend'[q]
    BY Zenon DEF FlagInv
  <2>1. CASE q = p
    BY <1>0, <1>1, <2>1, Ids, ZenonT(60) DEF PInv, LockTypes, Spinning, Critical
  <2>2. CASE q # p
    BY <1>0, <1>1, <2>2, Ids, ZenonT(60) DEF PInv, LockTypes, FlagInv, OneEach
  <2> QED BY <2>1, <2>2, Zenon
<1>4. TurnInv'
  BY <1>0, <1>1, Zenon DEF PInv, LockTypes, TurnInv, Spinning, Critical
<1> QED BY <1>2, <1>3, <1>4, Zenon DEF PInv

(* Every step of every process keeps the invariant. *)
LEMMA NextPInv == ASSUME OneEach, ~StoresReorder PROVE PInv /\ [Next]_vars => PInv'
<1> SUFFICES ASSUME PInv, [Next]_vars PROVE PInv'
  BY Zenon
<1>1. CASE UNCHANGED vars
  BY <1>1, Zenon DEF vars, PInv, LockTypes, FlagInv, TurnInv
<1>2. CASE Next
  <2> SUFFICES ASSUME NEW p \in Procs,
                      Transfer(p) \/ CloseFd(p) \/ PipeStep(p) \/ Kill(p)
               PROVE  PInv'
    BY <1>2, Zenon DEF Next
  <2> USE DEF Goto
  <2>1. CASE Transfer(p)
    BY <2>1, AcquirePInv, Zenon DEF Transfer
  <2>2. CASE CloseFd(p)
    <3>1. CASE Acquire(p, "close")
      BY <2>2, <3>1, AcquirePInv, Zenon DEF CloseFd
    <3>2. CASE pc' = [pc EXCEPT ![p] = "gone"] /\ UNCHANGED pend
      BY <2>2, <3>2, StayPInv, Zenon DEF CloseFd, Pcs, Critical, Spinning
    <3> QED BY <2>2, <3>1, <3>2, Zenon DEF CloseFd
  <2>3. CASE Store(p)
    BY <2>3, StorePInv, Zenon
  <2>4. CASE Spin(p)
    BY <2>4, SpinPInv, Zenon
  <2>5. CASE Release(p)
    BY <2>5, ReleasePInv, Zenon
  <2>6. CASE Sleep(p) \/ Kill(p)
    BY <2>6, Zenon DEF Sleep, Kill, PInv, LockTypes, FlagInv, TurnInv
  <2>7. CASE WriteLoop(p)
    <3>1. PICK l \in {"rel", "relsleep", "store"} : pc' = [pc EXCEPT ![p] = l]
      BY <2>7, Zenon DEF WriteLoop
    <3> QED BY <2>7, <3>1, StayPInv, Zenon DEF WriteLoop, Pcs, Critical
  <2>8. CASE StoreByte(p)
    BY <2>8, StayPInv, Zenon DEF StoreByte, Pcs, Critical
  <2>9. CASE ReadWait(p)
    <3>1. PICK l \in {"rel", "relsleep", "copy"} : pc' = [pc EXCEPT ![p] = l]
      BY <2>9, Zenon DEF ReadWait
    <3> QED BY <2>9, <3>1, StayPInv, Zenon DEF ReadWait, Pcs, Critical
  <2>10. CASE LoadByte(p)
    <3>1. PICK l \in {"rel", "copyout"} : pc' = [pc EXCEPT ![p] = l]
      BY <2>10, Zenon DEF LoadByte
    <3> QED BY <2>10, <3>1, StayPInv, Zenon DEF LoadByte, Pcs, Critical
  <2>11. CASE CopyOut(p)
    <3>1. PICK l \in {"rel", "copy"} : pc' = [pc EXCEPT ![p] = l]
      BY <2>11, Zenon DEF CopyOut
    <3> QED BY <2>11, <3>1, StayPInv, Zenon DEF CopyOut, Pcs, Critical
  <2>12. CASE CloseEnd(p)
    <3>1. PICK l \in {"rel", "relfree"} : pc' = [pc EXCEPT ![p] = l]
      BY <2>12, Zenon DEF CloseEnd
    <3> QED BY <2>12, <3>1, StayPInv, Zenon DEF CloseEnd, Pcs, Critical
  <2>13. CASE Free(p)
    BY <2>13, StayPInv, Zenon DEF Free, Pcs, Critical, Spinning
  <2> QED
    BY <2>1, <2>2, <2>3, <2>4, <2>5, <2>6, <2>7, <2>8, <2>9, <2>10, <2>11, <2>12, <2>13, Zenon
    DEF PipeStep
<1> QED BY <1>1, <1>2, Zenon

(* peterson_acquire() and peterson_release() exclude a writer and a reader    *)
(* from the pipe's data, provided that each end has one holder and that       *)
(* flag[id] = 1 is visible before turn = other.                               *)
THEOREM PetersonExcludes == OneEach /\ ~StoresReorder => (Spec => []Mutex)
<1> SUFFICES ASSUME OneEach, ~StoresReorder PROVE Spec => []Mutex
  BY Zenon
<1>1. Init => PInv
  BY InitPInv, Zenon
<1>2. PInv /\ [Next]_vars => PInv'
  BY NextPInv, Zenon
<1>3. PInv => Mutex
  BY PInvMutex, Zenon
<1> QED BY <1>1, <1>2, <1>3, PTL DEF Spec

(* The way into the critical section is the end of the busy-wait. *)
LEMMA EnterBySpin ==
  ASSUME LockTypes, [Next]_vars, NEW q \in Procs, pc[q] \notin Critical, pc'[q] \in Critical
  PROVE  Spin(q)
<1> USE DEF LockTypes, Critical, Goto
<1>1. CASE UNCHANGED vars
  BY <1>1, Zenon DEF vars
<1>2. ASSUME NEW p \in Procs, Transfer(p) \/ CloseFd(p) \/ Store(p) PROVE Spin(q)
  BY <1>2, ZenonT(60) DEF Transfer, CloseFd, Acquire, Store
<1>3. ASSUME NEW p \in Procs, Release(p) \/ Sleep(p) \/ Free(p) \/ Kill(p) PROVE Spin(q)
  BY <1>3, Zenon DEF Release, Sleep, Free, Kill
<1>4. ASSUME NEW p \in Procs, WriteLoop(p) \/ StoreByte(p) \/ ReadWait(p) PROVE Spin(q)
  BY <1>4, Zenon DEF WriteLoop, StoreByte, ReadWait
<1>5. ASSUME NEW p \in Procs, LoadByte(p) \/ CopyOut(p) \/ CloseEnd(p) PROVE Spin(q)
  BY <1>5, Zenon DEF LoadByte, CopyOut, CloseEnd
<1>6. ASSUME NEW p \in Procs, Spin(p) PROVE Spin(q)
  BY <1>6, Zenon DEF Spin
<1> QED BY <1>1, <1>2, <1>3, <1>4, <1>5, <1>6, Zenon DEF Next, PipeStep

(* For any pipe size and any requests, whoever comes to the lock while the    *)
(* other side waits does not overtake it.                                     *)
THEOREM TurnsAreTaken == OneEach /\ ~StoresReorder => (Spec => NoOvertaking)
<1> SUFFICES ASSUME OneEach, ~StoresReorder PROVE Spec => NoOvertaking
  BY Zenon
<1>1. PInv /\ [Next]_vars =>
        [\A p, q \in Procs :
           /\ pc[p] \in {"spinflag", "spinturn"} /\ turn = Id(p) /\ Id(q) # Id(p)
           /\ pc[q] \notin Critical
           => pc'[q] \notin Critical]_vars
  <2> SUFFICES ASSUME PInv, [Next]_vars, NEW p \in Procs, NEW q \in Procs,
                      pc[p] \in {"spinflag", "spinturn"}, turn = Id(p), Id(q) # Id(p),
                      pc[q] \notin Critical, pc'[q] \in Critical
               PROVE  FALSE
    BY Zenon
  <2>1. Spin(q)
    BY EnterBySpin, Zenon DEF PInv
  <2>2. flag[Other(q)] = 1 /\ turn = Other(q)
    BY Ids, Zenon DEF PInv, FlagInv, Spinning
  <2> QED BY <2>1, <2>2, Zenon DEF Spin, Goto, Critical, PInv, LockTypes
<1>2. Init => PInv
  BY InitPInv, Zenon
<1>3. PInv /\ [Next]_vars => PInv'
  BY NextPInv, Zenon
<1> QED BY <1>1, <1>2, <1>3, PTL DEF Spec, NoOvertaking

-----------------------------------------------------------------------------
(* The end of the pipe that a process holds is open. *)
End(p) == IF p \in Writers THEN writeopen ELSE readopen

(* An end is closed by its holder, which from then on only leaves; and it     *)
(* goes to free the pipe when the holder of the other end has left.           *)
CInv ==
  /\ TypeOK
  /\ \A p \in Procs :
       /\ pc[p] \in {"store", "copyout"} => i[p] < N
       /\ ~End(p) => call[p] = "close" /\ pc[p] \in {"rel", "relfree", "free", "gone"}
       /\ pc[p] \in {"relfree", "free"} => \A q \in Procs \ {p} : pc[q] = "gone"
  /\ freed => \A p \in Procs : pc[p] = "gone"

(* A step that leaves the ends alone: nobody is about to free the pipe unless *)
(* the step is the freeing process's own.                                     *)
LEMMA StayCInv ==
  ASSUME CInv, TypeOK', NEW p \in Procs, pc[p] # "gone", NEW l \in Pcs \ {"relfree"},
         pc' = [pc EXCEPT ![p] = l],
         l = "free" => pc[p] = "relfree",
         l \in {"store", "copyout"} => i'[p] < N,
         call'[p] = "close" /\ pc[p] \in {"rel", "relfree"} => l \in {"free", "gone"},
         pc[p] = "free" => l = "gone",
         pc[p] \in {"rel", "relfree", "free"} => call'[p] = call[p],
         \A q \in Procs \ {p} : i'[q] = i[q] /\ call'[q] = call[q],
         UNCHANGED opens
  PROVE  CInv'
<1>1. /\ pc'[p] = l /\ \A q \in Procs \ {p} : pc'[q] = pc[q]
      /\ ~freed
  BY Zenon DEF CInv, TypeOK
<1>2. \A q \in Procs : End(q)' = End(q)
  BY Zenon DEF End, opens
<1>3. ASSUME NEW q \in Procs
      PROVE  /\ pc'[q] \in {"store", "copyout"} => i'[q] < N
             /\ ~End(q)' => call'[q] = "close" /\ pc'[q] \in {"rel", "relfree", "free", "gone"}
             /\ pc'[q] \in {"relfree", "free"} => \A r \in Procs \ {q} : pc'[r] = "gone"
  <2>1. CASE q = p
    <3>1. ~End(q) => call'[q] = "close" /\ l \in {"free", "gone"}
      BY <2>1, Zenon DEF CInv
    <3>2. l = "free" => \A r \in Procs \ {p} : pc[r] = "gone"
      BY Zenon DEF CInv
    <3> QED  BY <1>1, <1>2, <2>1, <3>1, <3>2, ZenonT(60)
  <2>2. CASE q # p
    <3>1. pc'[q] \notin {"relfree", "free"}
      BY <1>1, <2>2, Zenon DEF CInv
    <3> QED  BY <1>1, <1>2, <2>2, <3>1, Zenon DEF CInv
  <2> QED  BY <2>1, <2>2, Zenon
<1> QED  BY <1>1, <1>3, Zenon DEF CInv, opens

(* What a remainder by the integer's width, or by the ring's size, can be. *)
LEMMA Remainders ==
  /\ \A x \in Int : x % UINT \in 0..UINT-1 /\ x % PIPESIZE \in 0..PIPESIZE-1
  /\ 0 \in 0..UINT-1 /\ 0 \in 0..N
  BY PipeAssumption

(* The types of the variables that several steps change. *)
LEMMA Types ==
  ASSUME TypeOK
  PROVE  /\ pc \in [Procs -> Pcs] /\ i \in [Procs -> 0..N] /\ t \in [Procs -> 0..UINT-1]
         /\ nread \in 0..UINT-1 /\ nwrite \in 0..UINT-1 /\ nread \in Int /\ nwrite \in Int
         /\ data \in [0..PIPESIZE-1 -> Bytes] /\ ch \in [Procs -> Bytes]
  BY PipeAssumption DEF TypeOK

(* Every step of every process is type-correct. *)
LEMMA TypeKept ==
  ASSUME CInv, NEW p \in Procs, Transfer(p) \/ CloseFd(p) \/ PipeStep(p) \/ Kill(p)
  PROVE  TypeOK'
<1>0. TypeOK
  BY Zenon DEF CInv
<1>a. ASSUME NEW l \in Pcs, Goto(p, l) PROVE pc' \in [Procs -> Pcs]
  BY <1>0, <1>a, Types, Zenon DEF Goto
<1>b. {"acq", "rel", "relsleep", "store", "body", "copy", "copyout"} \subseteq Pcs
  BY Zenon DEF Pcs, Critical
<1>1. ASSUME NEW op \in {"read", "write", "close"}, Acquire(p, op),
             UNCHANGED <<flag, turn, ring, opens, t, ch, last, killed, panicked>>,
             hasfd' \in [Procs -> BOOLEAN]
      PROVE  TypeOK'
  <2>1. call' \in [Procs -> {"none", "read", "write", "close"}]
    BY <1>0, <1>1, Zenon DEF Acquire, TypeOK
  <2>2. pend' \in [Procs -> SUBSET {"flag", "turn"}]
    BY <1>0, <1>1, Zenon DEF Acquire, TypeOK
  <2>3. pc' \in [Procs -> Pcs]
    BY <1>1, <1>a, <1>b, Zenon DEF Acquire
  <2>4. i' \in [Procs -> 0..N]
    BY <1>0, <1>1, Types, Remainders, Zenon DEF Acquire
  <2> QED  BY <1>0, <1>1, <2>1, <2>2, <2>3, <2>4, Zenon DEF TypeOK, ring, opens
<1>2. CASE Transfer(p)
  <2>1. (IF p \in Writers THEN "write" ELSE "read") \in {"read", "write", "close"}
    BY Zenon
  <2>2. UNCHANGED <<flag, turn, ring, opens, t, ch, last, hasfd, killed, panicked>>
    BY <1>2, Zenon DEF Transfer, env
  <2>3. Acquire(p, IF p \in Writers THEN "write" ELSE "read")
    BY <1>2, Zenon DEF Transfer
  <2> QED  BY <1>0, <1>1, <2>1, <2>2, <2>3, Zenon DEF TypeOK
<1>3. CASE CloseFd(p)
  <2>1. hasfd' \in [Procs -> BOOLEAN]
    BY <1>0, <1>3, Zenon DEF CloseFd, TypeOK
  <2>2. UNCHANGED <<flag, turn, ring, opens, t, ch, last, killed, panicked>>
    BY <1>3, Zenon DEF CloseFd
  <2>3. CASE Acquire(p, "close")
    BY <1>1, <2>1, <2>2, <2>3, Zenon
  <2>4. CASE pc' = [pc EXCEPT ![p] = "gone"] /\ UNCHANGED <<call, pend, i>>
    BY <1>0, <2>1, <2>2, <2>4, Zenon DEF TypeOK, ring, opens, Pcs
  <2> QED  BY <1>3, <2>3, <2>4, Zenon DEF CloseFd, Goto
<1>4. CASE Store(p)
  BY <1>0, <1>4, Ids DEF Store, TypeOK, Goto, ring, opens, locals, env, Pcs
<1>5. CASE Spin(p)
  BY <1>0, <1>5, Zenon DEF Spin, TypeOK, Goto, ring, opens, locals, env, Pcs, Critical
<1>6. CASE Release(p)
  BY <1>0, <1>6, Ids, Zenon DEF Release, TypeOK, Goto, ring, opens, locals, env, Pcs
<1>7. CASE Sleep(p) \/ Kill(p)
  <2>1. panicked' \in BOOLEAN
    BY <1>0, <1>7, Zenon DEF Sleep, Kill, TypeOK
  <2>2. killed' \in [Procs -> BOOLEAN]
    BY <1>0, <1>7, Zenon DEF Sleep, Kill, TypeOK
  <2>3. UNCHANGED <<flag, turn, ring, opens, pc, call, pend, locals, last, hasfd>>
    BY <1>7, Zenon DEF Sleep, Kill
  <2> QED  BY <1>0, <2>1, <2>2, <2>3, Zenon DEF TypeOK, ring, opens, locals
<1>8. CASE WriteLoop(p)
  <2>1. PICK l \in {"rel", "relsleep", "store"} : Goto(p, l)
    BY <1>8, Zenon DEF WriteLoop
  <2>2. pc' \in [Procs -> Pcs]
    BY <1>a, <1>b, <2>1, Zenon
  <2>3. t' = t \/ t' = [t EXCEPT ![p] = nwrite]
    BY <1>8, Zenon DEF WriteLoop
  <2>4. t' \in [Procs -> 0..UINT-1]
    BY <1>0, <2>3, Types, Zenon
  <2>5. UNCHANGED <<flag, turn, ring, opens, call, pend, i, ch, last, env>>
    BY <1>8, Zenon DEF WriteLoop
  <2> QED  BY <1>0, <2>2, <2>4, <2>5, Zenon DEF TypeOK, ring, opens, env
<1>9. CASE StoreByte(p)
  <2>1. data' \in [0..PIPESIZE-1 -> Bytes]
    BY <1>0, <1>9, Types, Zenon DEF StoreByte
  <2>2. nwrite' \in 0..UINT-1
    <3>1. nwrite' = (t[p] + 1) % UINT /\ t[p] + 1 \in Int
      BY <1>0, <1>9, Types DEF StoreByte
    <3> QED  BY <3>1, Remainders, Zenon
  <2>3. i' \in [Procs -> 0..N]
    <3>1. i' = [i EXCEPT ![p] = i[p] + 1] /\ i[p] < N
      BY <1>9, Zenon DEF StoreByte, CInv
    <3>2. i[p] + 1 \in 0..N
      BY <1>0, <3>1, Types, PipeAssumption
    <3> QED  BY <1>0, <3>1, <3>2, Types, Zenon
  <2>4. pc' \in [Procs -> Pcs]
    BY <1>9, <1>a, <1>b, Zenon DEF StoreByte
  <2>5. UNCHANGED <<flag, turn, nread, opens, call, pend, t, ch, last, env>>
    BY <1>9, Zenon DEF StoreByte
  <2> QED  BY <1>0, <2>1, <2>2, <2>3, <2>4, <2>5, Zenon DEF TypeOK, opens, env
<1>10. CASE ReadWait(p)
  <2>1. PICK l \in {"rel", "relsleep", "copy"} : Goto(p, l)
    BY <1>10, Zenon DEF ReadWait
  <2>2. pc' \in [Procs -> Pcs]
    BY <1>a, <1>b, <2>1, Zenon
  <2> QED  BY <1>0, <1>10, <2>2, Zenon DEF ReadWait, TypeOK, ring, opens, locals, env
<1>11. CASE LoadByte(p)
  <2>1. nread % PIPESIZE \in 0..PIPESIZE-1
    BY <1>0, Types, Remainders, Zenon
  <2>2. ch' = ch \/ ch' = [ch EXCEPT ![p] = data[nread % PIPESIZE]]
    BY <1>11, Zenon DEF LoadByte
  <2>3. ch' \in [Procs -> Bytes]
    BY <1>0, <2>1, <2>2, Types, Zenon
  <2>4. PICK l \in {"rel", "copyout"} : Goto(p, l)
    BY <1>11, Zenon DEF LoadByte
  <2>5. pc' \in [Procs -> Pcs]
    BY <1>a, <1>b, <2>4, Zenon
  <2>6. UNCHANGED <<flag, turn, ring, opens, call, pend, i, t, last, env>>
    BY <1>11, Zenon DEF LoadByte
  <2> QED  BY <1>0, <2>3, <2>5, <2>6, Zenon DEF TypeOK, ring, opens, env
<1>12. CASE CopyOut(p)
  <2>1. nread' \in 0..UINT-1
    <3>1. nread' = nread \/ nread' = (nread + 1) % UINT
      BY <1>12, Zenon DEF CopyOut
    <3>2. nread + 1 \in Int
      BY <1>0, Types
    <3>3. (nread + 1) % UINT \in 0..UINT-1
      BY <3>2, Remainders, Zenon
    <3> QED  BY <1>0, <3>1, <3>3, Types, Zenon
  <2>2. i' \in [Procs -> 0..N]
    <3>1. (i' = i \/ i' = [i EXCEPT ![p] = i[p] + 1]) /\ i[p] < N
      BY <1>12, Zenon DEF CopyOut, CInv
    <3>2. i[p] + 1 \in 0..N
      BY <1>0, <3>1, Types, PipeAssumption
    <3> QED  BY <1>0, <3>1, <3>2, Types, Zenon
  <2>3. PICK l \in {"rel", "copy"} : Goto(p, l)
    BY <1>12, Zenon DEF CopyOut
  <2>4. pc' \in [Procs -> Pcs]
    BY <1>a, <1>b, <2>3, Zenon
  <2>5. last' = last \/ last' = ch[p]
    BY <1>12, Zenon DEF CopyOut
  <2>6. last' \in Bytes
    BY <1>0, <2>5 DEF TypeOK
  <2>7. UNCHANGED <<flag, turn, data, nwrite, opens, call, pend, t, ch, env>>
    BY <1>12, Zenon DEF CopyOut
  <2> QED  BY <1>0, <2>1, <2>2, <2>4, <2>6, <2>7, Zenon DEF TypeOK, opens, env
<1>13. CASE CloseEnd(p)
  <2>1. readopen' \in BOOLEAN /\ writeopen' \in BOOLEAN
    BY <1>13, Zenon DEF CloseEnd
  <2>2. PICK l \in {"rel", "relfree"} : Goto(p, l)
    BY <1>13, Zenon DEF CloseEnd
  <2>3. pc' \in [Procs -> Pcs]
    BY <1>a, <2>2, Zenon DEF Pcs, Critical
  <2> QED  BY <1>0, <1>13, <2>1, <2>3, Zenon DEF CloseEnd, TypeOK, ring, locals, env
<1>14. CASE Free(p)
  BY <1>0, <1>14, Zenon DEF Free, TypeOK, Goto, ring, locals, env, Pcs
<1> QED  BY <1>2, <1>3, <1>4, <1>5, <1>6, <1>7, <1>8, <1>9, <1>10, <1>11, <1>12, <1>13, <1>14, Zenon
         DEF PipeStep

(* The holder of the last open end finds that the other holder has left.      *)
LEMMA CloseEndCInv ==
  ASSUME OneEach, PInv, CInv, TypeOK', NEW p \in Procs, CloseEnd(p)
  PROVE  CInv'
<1>1. /\ pc[p] = "body" /\ call[p] = "close" /\ UNCHANGED <<call, i, freed>>
      /\ pc' = [pc EXCEPT ![p] = IF ~readopen' /\ ~writeopen' THEN "relfree" ELSE "rel"]
  BY Zenon DEF CloseEnd, locals, Goto
<1>2. pc'[p] \in {"rel", "relfree"} /\ \A q \in Procs \ {p} : pc'[q] = pc[q]
  BY <1>1, Zenon DEF CInv, TypeOK
<1>3. ~freed
  BY <1>1, Zenon DEF CInv
<1>4. \A q \in Procs \ {p} : End(q)' = End(q)
  <2> SUFFICES ASSUME NEW q \in Procs \ {p} PROVE End(q)' = End(q)
    BY Zenon
  <2>1. p \in Writers <=> q \notin Writers
    BY Zenon DEF OneEach, Id
  <2>2. CASE p \in Writers
    <3>1. readopen' = (readopen /\ TRUE) /\ readopen \in BOOLEAN
      BY <2>2, Zenon DEF CloseEnd, CInv, TypeOK
    <3> QED  BY <2>1, <2>2, <3>1, Zenon DEF End
  <2>3. CASE p \notin Writers
    <3>1. writeopen' = (writeopen /\ TRUE) /\ writeopen \in BOOLEAN
      BY <2>3, Zenon DEF CloseEnd, CInv, TypeOK
    <3> QED  BY <2>1, <2>3, <3>1, Zenon DEF End
  <2> QED  BY <2>2, <2>3, Zenon
<1>5. ASSUME ~readopen', ~writeopen', NEW q \in Procs \ {p} PROVE pc[q] = "gone"
  <2>1. ~End(q)'
    BY <1>5, Zenon DEF End
  <2>2. pc[q] \in {"rel", "relfree", "free", "gone"}
    BY <1>4, <2>1, Zenon DEF CInv
  <2>3. pc[q] \notin {"rel", "relfree"}
    BY <1>1, PInvMutex, Zenon DEF Mutex, Critical
  <2>4. pc[q] # "free"
    BY <1>1, Zenon DEF CInv
  <2> QED  BY <2>2, <2>3, <2>4, Zenon
<1>6. pc'[p] = "relfree" => ~readopen' /\ ~writeopen'
  BY <1>1, Zenon DEF CInv, TypeOK
<1>7. ASSUME NEW q \in Procs
      PROVE  /\ pc'[q] \in {"store", "copyout"} => i'[q] < N
             /\ ~End(q)' => call'[q] = "close" /\ pc'[q] \in {"rel", "relfree", "free", "gone"}
             /\ pc'[q] \in {"relfree", "free"} => \A r \in Procs \ {q} : pc'[r] = "gone"
  <2>1. CASE q = p
    BY <1>1, <1>2, <1>5, <1>6, <2>1, Zenon
  <2>2. CASE q # p
    <3>1. pc'[q] \notin {"relfree", "free"}
      BY <1>1, <1>2, <2>2, Zenon DEF CInv
    <3> QED  BY <1>1, <1>2, <1>4, <2>2, <3>1, Zenon DEF CInv
  <2> QED  BY <2>1, <2>2, Zenon
<1> QED  BY <1>1, <1>3, <1>7, Zenon DEF CInv

(* kfree() is called by the process that leaves last. *)
LEMMA FreeCInv ==
  ASSUME CInv, TypeOK', NEW p \in Procs, Free(p)
  PROVE  CInv'
<1>1. /\ pc[p] = "free" /\ pc' = [pc EXCEPT ![p] = "gone"]
      /\ UNCHANGED <<call, readopen, writeopen>>
  BY Zenon DEF Free, Goto
<1>2. \A q \in Procs : pc'[q] = "gone"
  BY <1>1, Zenon DEF CInv, TypeOK
<1>3. \A q \in Procs : End(q)' = End(q)
  BY <1>1, Zenon DEF End
<1>4. \A q \in Procs : ~End(q)' => call'[q] = "close"
  BY <1>1, <1>3, Zenon DEF CInv
<1> QED  BY <1>2, <1>4, Zenon DEF CInv

(* The other steps leave the ends alone. *)
LEMMA StepCInv ==
  ASSUME OneEach, PInv, CInv, NEW p \in Procs,
         Transfer(p) \/ CloseFd(p) \/ PipeStep(p) \/ Kill(p)
  PROVE  CInv'
<1>0. TypeOK'
  BY TypeKept, Zenon
<1> USE DEF Goto
<1>b. {"gone", "idle", "acq", "spinflag", "spinturn", "rel", "relsleep", "store", "body",
       "copy", "copyout", "sleep", "free"} \subseteq Pcs \ {"relfree"}
  BY Zenon DEF Pcs, Critical
<1>c. pc[p] \in Pcs /\ i \in [Procs -> 0..N] /\ call \in [Procs -> {"none", "read", "write", "close"}]
  BY Zenon DEF CInv, TypeOK
<1>1. ASSUME NEW op, Acquire(p, op), pc[p] = "idle", UNCHANGED opens PROVE CInv'
  <2>1. /\ \A q \in Procs \ {p} : i'[q] = i[q] /\ call'[q] = call[q]
        /\ pc' = [pc EXCEPT ![p] = "acq"]
    BY <1>1, <1>c, Zenon DEF Acquire
  <2> QED  BY <1>0, <1>1, <1>b, <2>1, StayCInv, Zenon
<1>2. ASSUME NEW l \in {"spinflag", "spinturn", "acq", "body", "rel", "relsleep", "copy"},
             pc[p] \in Spinning \cup {"acq", "body", "copy"}, pc' = [pc EXCEPT ![p] = l],
             UNCHANGED <<opens, call, i>>
      PROVE  CInv'
  <2>1. pc[p] \notin {"rel", "relfree", "free", "gone"}
    BY <1>2, Zenon DEF Spinning
  <2> QED  BY <1>0, <1>2, <1>b, <2>1, StayCInv, Zenon
<1>3. CASE Transfer(p)
  BY <1>1, <1>3, Zenon DEF Transfer
<1>4. CASE CloseFd(p)
  <2>1. ~\E q \in Procs \ {p} : Id(q) = Id(p) /\ hasfd[q]
    BY Zenon DEF OneEach
  <2> QED  BY <1>1, <1>4, <2>1, Zenon DEF CloseFd
<1>5. CASE Store(p)
  <2>1. PICK l \in {"spinflag", "acq"} : pc' = [pc EXCEPT ![p] = l]
    BY <1>5, Zenon DEF Store
  <2> QED  BY <1>2, <1>5, <2>1, Zenon DEF Store, locals
<1>6. CASE Spin(p)
  <2>1. PICK l \in {"spinflag", "spinturn", "body"} : pc' = [pc EXCEPT ![p] = l]
    BY <1>6, Zenon DEF Spin
  <2> QED  BY <1>2, <1>6, <2>1, Zenon DEF Spin, locals, Spinning
<1>7. CASE Release(p)
  <2>1. PICK l \in {"gone", "idle", "sleep", "free"} :
          /\ pc' = [pc EXCEPT ![p] = l]
          /\ l = "free" => pc[p] = "relfree"
          /\ call[p] = "close" /\ pc[p] \in {"rel", "relfree"} => l \in {"free", "gone"}
    <3>1. CASE pc[p] = "rel" /\ call[p] = "close"
      BY <1>7, <3>1, Zenon DEF Release
    <3>2. CASE pc[p] = "rel" /\ call[p] # "close"
      BY <1>7, <3>2, Zenon DEF Release
    <3>3. CASE pc[p] = "relsleep"
      BY <1>7, <3>3, Zenon DEF Release
    <3>4. CASE pc[p] = "relfree"
      BY <1>7, <3>4, Zenon DEF Release
    <3> QED  BY <1>7, <3>1, <3>2, <3>3, <3>4, Zenon DEF Release
  <2>2. pc[p] \in {"rel", "relsleep", "relfree"} /\ UNCHANGED <<opens, call, i>>
    BY <1>7, Zenon DEF Release, locals
  <2> QED  BY <1>0, <1>b, <2>1, <2>2, StayCInv, Zenon
<1>8. CASE Sleep(p) \/ Kill(p)
  <2>1. UNCHANGED <<opens, pc, call, i>>
    BY <1>8, Zenon DEF Sleep, Kill, locals
  <2>2. \A q \in Procs : End(q)' = End(q)
    BY <2>1, Zenon DEF End, opens
  <2> QED  BY <1>0, <2>1, <2>2, Zenon DEF CInv, opens
<1>9. CASE WriteLoop(p)
  <2>0. pc[p] = "body" /\ UNCHANGED <<opens, call, i>>
    BY <1>9, Zenon DEF WriteLoop
  <2>1. CASE pc' = [pc EXCEPT ![p] = "store"] /\ i[p] < N
    BY <1>0, <1>b, <2>0, <2>1, StayCInv, Zenon
  <2>2. CASE pc' = [pc EXCEPT ![p] = "rel"] \/ pc' = [pc EXCEPT ![p] = "relsleep"]
    BY <1>2, <2>0, <2>2, Zenon
  <2>3. i[p] >= N \/ i[p] < N
    BY <1>c, PipeAssumption
  <2> QED  BY <1>9, <2>1, <2>2, <2>3, Zenon DEF WriteLoop
<1>10. CASE StoreByte(p)
  <2>1. /\ pc[p] = "store" /\ pc' = [pc EXCEPT ![p] = "body"] /\ UNCHANGED <<opens, call>>
        /\ i' = [i EXCEPT ![p] = i[p] + 1]
    BY <1>10, Zenon DEF StoreByte
  <2> QED  BY <1>0, <1>b, <1>c, <2>1, StayCInv, Zenon
<1>11. CASE ReadWait(p)
  <2>1. PICK l \in {"rel", "relsleep", "copy"} : pc' = [pc EXCEPT ![p] = l]
    BY <1>11, Zenon DEF ReadWait
  <2> QED  BY <1>2, <1>11, <2>1, Zenon DEF ReadWait, locals
<1>12. CASE LoadByte(p)
  <2>0. pc[p] = "copy" /\ UNCHANGED <<opens, call, i>>
    BY <1>12, Zenon DEF LoadByte
  <2>1. CASE pc' = [pc EXCEPT ![p] = "copyout"] /\ i[p] < N
    BY <1>0, <1>b, <2>0, <2>1, StayCInv, Zenon
  <2>2. CASE pc' = [pc EXCEPT ![p] = "rel"]
    BY <1>2, <2>0, <2>2, Zenon
  <2>3. i[p] >= N \/ i[p] < N
    BY <1>c, PipeAssumption
  <2> QED  BY <1>12, <2>1, <2>2, <2>3, Zenon DEF LoadByte
<1>13. CASE CopyOut(p)
  <2>1. PICK l \in {"rel", "copy"} : pc' = [pc EXCEPT ![p] = l]
    BY <1>13, Zenon DEF CopyOut
  <2>2. pc[p] = "copyout" /\ UNCHANGED <<opens, call>> /\ \A q \in Procs \ {p} : i'[q] = i[q]
    BY <1>13, <1>c, Zenon DEF CopyOut
  <2> QED  BY <1>0, <1>b, <2>1, <2>2, StayCInv, Zenon
<1> QED  BY <1>0, <1>3, <1>4, <1>5, <1>6, <1>7, <1>8, <1>9, <1>10, <1>11, <1>12, <1>13,
            CloseEndCInv, FreeCInv, Zenon DEF PipeStep

(* pipealloc() opens both ends. *)
LEMMA InitCInv == Init => CInv
<1> SUFFICES ASSUME Init PROVE CInv
  BY Zenon
<1>1. TypeOK
  BY Remainders, Zenon DEF Init, TypeOK, Pcs
<1>2. \A p \in Procs : pc[p] = "idle" /\ End(p)
  BY Zenon DEF Init, End
<1> QED  BY <1>1, <1>2, Zenon DEF Init, CInv

(* The lock and the ends together. *)
LEMMA PipeInvariant == OneEach /\ ~StoresReorder => (Spec => [](PInv /\ CInv))
<1> SUFFICES ASSUME OneEach, ~StoresReorder PROVE Spec => [](PInv /\ CInv)
  BY Zenon
<1>1. Init => PInv /\ CInv
  BY InitPInv, InitCInv, Zenon
<1>2. PInv /\ CInv /\ [Next]_vars => PInv' /\ CInv'
  <2> SUFFICES ASSUME PInv, CInv, [Next]_vars PROVE CInv'
    BY NextPInv, Zenon
  <2>1. CASE UNCHANGED vars
    BY <2>1, Zenon DEF vars, CInv, TypeOK, End, ring, opens, locals, env
  <2> QED  BY <2>1, StepCInv, Zenon DEF Next
<1> QED  BY <1>1, <1>2, PTL DEF Spec

(* The pipe's page is freed by whoever leaves last, when nobody will load     *)
(* from it again, not even to spin on the other's flag: for any sizes, as     *)
(* long as each end has one holder and the lock works.                        *)
THEOREM FreedLast == OneEach /\ ~StoresReorder => (Spec => []NoUseAfterFree)
<1>1. CInv => NoUseAfterFree
  BY Zenon DEF CInv, NoUseAfterFree
<1> QED  BY <1>1, PipeInvariant, PTL

-----------------------------------------------------------------------------
(* The ring.  Remainders, by a positive integer: there is a quotient, ... *)
LEMMA Quotient ==
  ASSUME NEW a \in Int, NEW d \in Nat \ {0}
  PROVE  a % d \in 0..d-1 /\ \E q \in Int : a = q * d + (a % d)
<1>1. a % d \in 0..d-1 /\ a \div d \in Int /\ a = (a \div d) * d + (a % d)
  OBVIOUS
<1> QED  BY <1>1, Zenon

(* ... and it is the only one. *)
LEMMA OneRemainder ==
  ASSUME NEW a \in Int, NEW d \in Nat \ {0}, NEW q \in Int, NEW r \in 0..d-1, a = q * d + r
  PROVE  a % d = r
<1> DEFINE s == a % d
<1>1. PICK p \in Int : a = p * d + s /\ s \in 0..d-1
  BY Quotient, Zenon
<1> HIDE DEF s
<1>2. (p - q) * d = r - s
  <2>1. (p - q) * d = p * d - q * d /\ p * d \in Int /\ q * d \in Int
    OBVIOUS
  <2> QED  BY <1>1, <2>1
<1>3. p - q >= 1 => (p - q) * d >= d
  <2>1. (p - q) * d = d + (p - q - 1) * d
    OBVIOUS
  <2>2. p - q >= 1 => (p - q - 1) * d >= 0
    OBVIOUS
  <2> QED  BY <2>1, <2>2
<1>4. p - q <= -1 => (p - q) * d <= -d
  <2>1. (p - q) * d = -d + (p - q + 1) * d
    OBVIOUS
  <2>2. p - q <= -1 => (p - q + 1) * d <= 0
    OBVIOUS
  <2> QED  BY <2>1, <2>2
<1>5. p - q = 0
  BY <1>1, <1>2, <1>3, <1>4
<1>6. s = r
  BY <1>1, <1>2, <1>5
<1> QED  BY <1>6, Zenon DEF s

(* A counter moves on, across the wrap-around. *)
LEMMA NextCount ==
  ASSUME NEW x \in 0..UINT-1
  PROVE  (x + 1) % UINT = IF x + 1 = UINT THEN 0 ELSE x + 1
<1>1. CASE x + 1 = UINT
  <2>1. x + 1 = 1 * UINT + 0 /\ UINT \in Nat \ {0} /\ 0 \in 0..UINT-1
    BY <1>1, PipeAssumption
  <2> QED  BY <1>1, <2>1, OneRemainder
<1>2. CASE x + 1 # UINT
  <2>1. x + 1 = 0 * UINT + (x + 1) /\ UINT \in Nat \ {0} /\ x + 1 \in 0..UINT-1
    BY <1>2, PipeAssumption
  <2> QED  BY <1>2, <2>1, OneRemainder
<1> QED  BY <1>1, <1>2, Zenon

(* The distance of two counters, modulo 2^32. *)
Ahead(x, y) == (x - y) % UINT

(* It is the difference, or 2^32 more when a counter has wrapped. *)
LEMMA AheadValue ==
  ASSUME NEW x \in 0..UINT-1, NEW y \in 0..UINT-1
  PROVE  /\ Ahead(x, y) = IF x >= y THEN x - y ELSE x - y + UINT
         /\ Ahead(x, y) \in 0..UINT-1
<1>1. CASE x >= y
  <2>1. x - y = 0 * UINT + (x - y) /\ UINT \in Nat \ {0} /\ x - y \in 0..UINT-1
    BY <1>1, PipeAssumption
  <2> QED  BY <1>1, <2>1, OneRemainder DEF Ahead
<1>2. CASE ~(x >= y)
  <2>1. x - y = (-1) * UINT + (x - y + UINT) /\ UINT \in Nat \ {0} /\ x - y + UINT \in 0..UINT-1
    BY <1>2, PipeAssumption
  <2> QED  BY <1>2, <2>1, OneRemainder DEF Ahead
<1> QED  BY <1>1, <1>2, Zenon

(* The slot of a counter does not change when the counter wraps. *)
LEMMA SameSlot ==
  ASSUME NEW x \in Int
  PROVE  (x + UINT) % PIPESIZE = x % PIPESIZE
<1>0. PIPESIZE \in Nat \ {0} /\ UINT \in Int
  BY PipeAssumption
<1>1. PICK m \in Int : UINT = m * PIPESIZE + (UINT % PIPESIZE)
  BY <1>0, Quotient, Zenon
<1>2. UINT = m * PIPESIZE
  BY <1>1, PipeAssumption
<1>3. PICK q \in Int : x = q * PIPESIZE + (x % PIPESIZE) /\ x % PIPESIZE \in 0..PIPESIZE-1
  BY <1>0, Quotient, Zenon
<1>4. x + UINT = (q + m) * PIPESIZE + (x % PIPESIZE)
  <2>1. (q + m) * PIPESIZE = q * PIPESIZE + m * PIPESIZE
    BY PipeAssumption
  <2>2. q * PIPESIZE \in Int /\ m * PIPESIZE \in Int /\ UINT \in Int
    BY PipeAssumption
  <2> QED  BY <1>2, <1>3, <2>1, <2>2
<1>5. x + UINT \in Int /\ q + m \in Int
  BY <1>0
<1> QED  BY <1>0, <1>3, <1>4, <1>5, OneRemainder, Zenon

(* Counters closer than PIPESIZE have different slots. *)
LEMMA OtherSlot ==
  ASSUME NEW x \in Int, NEW k \in 1..PIPESIZE-1
  PROVE  (x + k) % PIPESIZE # x % PIPESIZE
<1> SUFFICES ASSUME (x + k) % PIPESIZE = x % PIPESIZE PROVE FALSE
  BY Zenon
<1>1. PIPESIZE \in Nat \ {0} /\ x + k \in Int /\ k \in Int /\ k >= 1 /\ k <= PIPESIZE - 1
  BY PipeAssumption
<1>2. PICK q \in Int : x = q * PIPESIZE + (x % PIPESIZE) /\ x % PIPESIZE \in 0..PIPESIZE-1
  BY <1>1, Quotient, Zenon
<1>3. PICK m \in Int : x + k = m * PIPESIZE + ((x + k) % PIPESIZE)
  BY <1>1, Quotient, Zenon
<1> DEFINE r == x % PIPESIZE
           d == PIPESIZE
<1>4. r \in Int /\ x = q * d + r /\ x + k = m * d + r
  BY <1>1, <1>2, <1>3
<1> HIDE DEF r
<1>5. k = (m - q) * d
  <2>1. (m - q) * d = m * d - q * d /\ m * d \in Int /\ q * d \in Int
    BY <1>1
  <2> QED  BY <1>1, <1>4, <2>1
<1>6. m - q >= 1 => (m - q) * d >= d
  <2>1. (m - q) * d = d + (m - q - 1) * d
    BY <1>1
  <2>2. m - q >= 1 => (m - q - 1) * d >= 0
    BY <1>1
  <2> QED  BY <1>1, <2>1, <2>2
<1>7. m - q <= 0 => (m - q) * d <= 0
  BY <1>1
<1> QED  BY <1>1, <1>5, <1>6, <1>7

(* The bytes in the ring. *)
Count == Ahead(nwrite, nread)

(* There is always room for the byte being written, and the byte being read   *)
(* is the oldest one.                                                         *)
RInv ==
  /\ Count <= PIPESIZE
  /\ \A p \in Procs :
       /\ call[p] = "write" \/ pc[p] = "store" => p \in Writers
       /\ call[p] = "read" \/ pc[p] \in {"copy", "copyout"} => p \in Readers
       /\ pc[p] = "store" => t[p] = nwrite /\ Count < PIPESIZE
       /\ pc[p] = "copyout" => Count > 0 /\ ch[p] = data[nread % PIPESIZE]

(* What the counters say. *)
LEMMA Counters ==
  ASSUME TypeOK
  PROVE  /\ nread \in 0..UINT-1 /\ nwrite \in 0..UINT-1 /\ Count \in 0..UINT-1
         /\ nread + Count = nwrite \/ nread + Count = nwrite + UINT
         /\ nread # nwrite => Count > 0
         /\ Count <= PIPESIZE /\ ~Full => Count < PIPESIZE
<1>1. nread \in 0..UINT-1 /\ nwrite \in 0..UINT-1
  BY Zenon DEF TypeOK
<1>2. /\ Count = IF nwrite >= nread THEN nwrite - nread ELSE nwrite - nread + UINT
      /\ Count \in 0..UINT-1
  BY <1>1, AheadValue, Zenon DEF Count
<1>3. Count = PIPESIZE => Full
  <2> SUFFICES ASSUME Count = PIPESIZE PROVE Full
    BY Zenon
  <2>1. UINT \in Nat \ {0} /\ PIPESIZE \in Int /\ nread + PIPESIZE \in Int
    BY <1>1, PipeAssumption
  <2>2. CASE nwrite >= nread
    <3>1. nread + PIPESIZE = 0 * UINT + nwrite
      BY <1>1, <1>2, <2>1, <2>2
    <3> QED  BY <1>1, <2>1, <3>1, OneRemainder DEF Full
  <2>3. CASE ~(nwrite >= nread)
    <3>1. nread + PIPESIZE = 1 * UINT + nwrite
      BY <1>1, <1>2, <2>1, <2>3
    <3> QED  BY <1>1, <2>1, <3>1, OneRemainder DEF Full
  <2> QED  BY <2>2, <2>3, Zenon
<1>4. /\ nread + Count = nwrite \/ nread + Count = nwrite + UINT
      /\ nread # nwrite => Count > 0
  BY <1>1, <1>2, PipeAssumption
<1>5. Count <= PIPESIZE /\ Count # PIPESIZE => Count < PIPESIZE
  BY <1>2, PipeAssumption
<1> QED  BY <1>1, <1>2, <1>3, <1>4, <1>5, Zenon

(* The slots of the bytes in the ring are distinct, and not the next one's. *)
LEMMA RingSlots ==
  ASSUME TypeOK
  PROVE  /\ (nread + Count) % PIPESIZE = nwrite % PIPESIZE
         /\ Count < PIPESIZE => \A k \in 1..Count : (nread + k - 1) % PIPESIZE # nwrite % PIPESIZE
<1>1. /\ nread \in Int /\ nwrite \in Int /\ Count \in Int /\ Count >= 0 /\ PIPESIZE \in Nat
      /\ nread + Count = nwrite \/ nread + Count = nwrite + UINT
  BY Counters, PipeAssumption
<1>2. (nread + Count) % PIPESIZE = nwrite % PIPESIZE
  BY <1>1, SameSlot, Zenon
<1>3. ASSUME Count < PIPESIZE, NEW k \in 1..Count
      PROVE  (nread + k - 1) % PIPESIZE # nwrite % PIPESIZE
  <2> DEFINE x == nread + k - 1
             y == Count - k + 1
  <2>1. x \in Int /\ y \in 1..PIPESIZE-1 /\ x + y = nread + Count
    BY <1>1, <1>3
  <2>2. (x + y) % PIPESIZE # x % PIPESIZE
    BY <2>1, OtherSlot, Zenon
  <2> QED  BY <1>2, <2>1, <2>2, Zenon
<1> QED  BY <1>2, <1>3, Zenon

(* A byte more, and a byte less. *)
LEMMA Counted ==
  ASSUME TypeOK, Count <= PIPESIZE
  PROVE  /\ Count < PIPESIZE => Ahead((nwrite + 1) % UINT, nread) = Count + 1
         /\ Count > 0 => Ahead(nwrite, (nread + 1) % UINT) = Count - 1
<1>1. nread \in 0..UINT-1 /\ nwrite \in 0..UINT-1
  BY Zenon DEF TypeOK
<1>2. Count = IF nwrite >= nread THEN nwrite - nread ELSE nwrite - nread + UINT
  BY <1>1, AheadValue, Zenon DEF Count
<1>3. UINT \in Nat /\ PIPESIZE \in Nat /\ PIPESIZE < UINT
  BY PipeAssumption, Zenon
<1>4. ASSUME Count < PIPESIZE PROVE Ahead((nwrite + 1) % UINT, nread) = Count + 1
  <2>1. CASE nwrite + 1 = UINT
    <3>1. (nwrite + 1) % UINT = 0 /\ 0 \in 0..UINT-1
      BY <1>1, <1>3, <2>1, NextCount
    <3>2. Ahead(0, nread) = IF 0 >= nread THEN 0 - nread ELSE 0 - nread + UINT
      BY <1>1, <3>1, AheadValue, Zenon
    <3> QED  BY <1>1, <1>2, <1>3, <1>4, <2>1, <3>1, <3>2
  <2>2. CASE nwrite + 1 # UINT
    <3>0. (nwrite + 1) % UINT = nwrite + 1
      BY <1>1, <2>2, NextCount, Zenon
    <3>1. nwrite + 1 \in 0..UINT-1
      BY <1>1, <1>3, <2>2
    <3>2. Ahead(nwrite + 1, nread) = IF nwrite + 1 >= nread THEN (nwrite + 1) - nread
                                                           ELSE (nwrite + 1) - nread + UINT
      BY <1>1, <3>1, AheadValue, Zenon
    <3> QED  BY <1>1, <1>2, <1>3, <1>4, <2>2, <3>0, <3>1, <3>2
  <2> QED  BY <2>1, <2>2, Zenon
<1>5. ASSUME Count > 0 PROVE Ahead(nwrite, (nread + 1) % UINT) = Count - 1
  <2>1. CASE nread + 1 = UINT
    <3>1. (nread + 1) % UINT = 0 /\ 0 \in 0..UINT-1
      BY <1>1, <1>3, <2>1, NextCount
    <3>2. Ahead(nwrite, 0) = IF nwrite >= 0 THEN nwrite - 0 ELSE nwrite - 0 + UINT
      BY <1>1, <3>1, AheadValue, Zenon
    <3> QED  BY <1>1, <1>2, <1>3, <1>5, <2>1, <3>1, <3>2
  <2>2. CASE nread + 1 # UINT
    <3>0. (nread + 1) % UINT = nread + 1
      BY <1>1, <2>2, NextCount, Zenon
    <3>1. nread + 1 \in 0..UINT-1
      BY <1>1, <1>3, <2>2
    <3>2. Ahead(nwrite, nread + 1) = IF nwrite >= nread + 1 THEN nwrite - (nread + 1)
                                                           ELSE nwrite - (nread + 1) + UINT
      BY <1>1, <3>1, AheadValue, Zenon
    <3> QED  BY <1>1, <1>2, <1>3, <1>5, <2>2, <3>0, <3>1, <3>2
  <2> QED  BY <2>1, <2>2, Zenon
<1> QED  BY <1>4, <1>5, Zenon

(* A step that leaves the ring alone and takes up no byte. *)
LEMMA StayRInv ==
  ASSUME CInv, RInv, NEW p \in Procs, NEW l, pc' = [pc EXCEPT ![p] = l],
         l \notin {"store", "copyout"}, l = "copy" => p \in Readers,
         call'[p] = "write" => p \in Writers, call'[p] = "read" => p \in Readers,
         \A q \in Procs \ {p} : call'[q] = call[q] /\ t'[q] = t[q] /\ ch'[q] = ch[q],
         UNCHANGED ring
  PROVE  RInv'
<1>1. pc'[p] = l /\ \A q \in Procs \ {p} : pc'[q] = pc[q]
  BY Zenon DEF CInv, TypeOK
<1>2. Count' = Count /\ UNCHANGED <<data, nread, nwrite>>
  BY Zenon DEF Count, Ahead, ring
<1>3. ASSUME NEW q \in Procs
      PROVE  /\ call'[q] = "write" \/ pc'[q] = "store" => q \in Writers
             /\ call'[q] = "read" \/ pc'[q] \in {"copy", "copyout"} => q \in Readers
             /\ pc'[q] = "store" => t'[q] = nwrite' /\ Count' < PIPESIZE
             /\ pc'[q] = "copyout" => Count' > 0 /\ ch'[q] = data'[nread' % PIPESIZE]
  <2>1. CASE q = p
    BY <1>1, <2>1, Zenon
  <2>2. CASE q # p
    BY <1>1, <1>2, <2>2, Zenon DEF RInv
  <2> QED  BY <2>1, <2>2, Zenon
<1> QED  BY <1>2, <1>3, Zenon DEF RInv

(* The writer takes the next slot when the ring is not full, the reader the   *)
(* oldest byte when it is not empty.                                          *)
LEMMA TakeRInv ==
  ASSUME CInv, RInv, NEW p \in Procs, UNCHANGED <<ring, call>>,
         \/ /\ pc' = [pc EXCEPT ![p] = "store"] /\ t' = [t EXCEPT ![p] = nwrite]
            /\ ch' = ch /\ p \in Writers /\ ~Full
         \/ /\ pc' = [pc EXCEPT ![p] = "copyout"] /\ ch' = [ch EXCEPT ![p] = data[nread % PIPESIZE]]
            /\ t' = t /\ p \in Readers /\ nread # nwrite
  PROVE  RInv'
<1>0. TypeOK
  BY Zenon DEF CInv
<1>1. /\ pc \in [Procs -> Pcs] /\ t \in [Procs -> 0..UINT-1] /\ ch \in [Procs -> Bytes]
  BY <1>0, Types, Zenon
<1>2. Count' = Count /\ UNCHANGED <<data, nread, nwrite>>
  BY Zenon DEF Count, Ahead, ring
<1>3. /\ ~Full => Count < PIPESIZE
      /\ nread # nwrite => Count > 0
  BY <1>0, Counters, Zenon DEF RInv
<1>4. p \in Writers <=> p \notin Readers
  BY PipeAssumption, Zenon DEF Procs
<1>5. ASSUME NEW q \in Procs
      PROVE  /\ call'[q] = "write" \/ pc'[q] = "store" => q \in Writers
             /\ call'[q] = "read" \/ pc'[q] \in {"copy", "copyout"} => q \in Readers
             /\ pc'[q] = "store" => t'[q] = nwrite' /\ Count' < PIPESIZE
             /\ pc'[q] = "copyout" => Count' > 0 /\ ch'[q] = data'[nread' % PIPESIZE]
  <2>1. CASE q = p
    BY <1>1, <1>2, <1>3, <1>4, <2>1, Zenon DEF RInv
  <2>2. CASE q # p
    <3>1. pc'[q] = pc[q] /\ t'[q] = t[q] /\ ch'[q] = ch[q] /\ call'[q] = call[q]
      BY <1>1, <2>2, Zenon
    <3> QED  BY <1>2, <3>1, Zenon DEF RInv
  <2> QED  BY <2>1, <2>2, Zenon
<1> QED  BY <1>2, <1>5, Zenon DEF RInv

(* A byte stored does not disturb the byte being read. *)
LEMMA StoreByteRInv ==
  ASSUME OneEach, CInv, RInv, NEW p \in Procs, StoreByte(p)
  PROVE  RInv' /\ Count' = Count + 1 /\ Count < PIPESIZE /\ nwrite' = (nwrite + 1) % UINT
<1>0. TypeOK
  BY Zenon DEF CInv
<1>1. pc[p] = "store" /\ p \in Writers /\ t[p] = nwrite /\ Count < PIPESIZE /\ Count <= PIPESIZE
  BY Zenon DEF StoreByte, RInv
<1>2. /\ pc' = [pc EXCEPT ![p] = "body"] /\ UNCHANGED <<call, t, ch, nread>>
      /\ nwrite' = (nwrite + 1) % UINT
      /\ \E b \in Bytes : data' = [data EXCEPT ![nwrite % PIPESIZE] = b]
  BY <1>1, Zenon DEF StoreByte, Goto
<1>3. Count' = Count + 1
  BY <1>0, <1>1, <1>2, Counted, Zenon DEF Count
<1>4. Count \in Int /\ nread \in Int /\ PIPESIZE \in Int
  BY <1>0, Counters, PipeAssumption
<1>5. pc'[p] = "body" /\ \A q \in Procs \ {p} : pc'[q] = pc[q] /\ q \notin Writers
  BY <1>0, <1>1, <1>2, Types, ZenonT(60) DEF OneEach, Id
<1>6. Count > 0 => data'[nread % PIPESIZE] = data[nread % PIPESIZE]
  <2> SUFFICES ASSUME Count > 0 PROVE data'[nread % PIPESIZE] = data[nread % PIPESIZE]
    BY Zenon
  <2>1. 1 \in 1..Count /\ nread + 1 - 1 = nread
    BY <1>4
  <2>2. nread % PIPESIZE # nwrite % PIPESIZE
    BY <1>0, <1>1, <2>1, RingSlots, Zenon
  <2>3. nread % PIPESIZE \in 0..PIPESIZE-1 /\ data \in [0..PIPESIZE-1 -> Bytes]
    BY <1>0, <1>4, Types, Remainders, Zenon
  <2> QED  BY <1>2, <2>2, <2>3, Zenon
<1>7. ASSUME NEW q \in Procs
      PROVE  /\ call'[q] = "write" \/ pc'[q] = "store" => q \in Writers
             /\ call'[q] = "read" \/ pc'[q] \in {"copy", "copyout"} => q \in Readers
             /\ pc'[q] = "store" => t'[q] = nwrite' /\ Count' < PIPESIZE
             /\ pc'[q] = "copyout" => Count' > 0 /\ ch'[q] = data'[nread' % PIPESIZE]
  <2>1. CASE q = p
    BY <1>1, <1>2, <1>5, <2>1, Zenon DEF RInv
  <2>2. CASE q # p
    <3>1. pc[q] # "store"
      BY <1>5, <2>2, Zenon DEF RInv
    <3>2. pc[q] = "copyout" => Count > 0 /\ ch[q] = data[nread % PIPESIZE]
      BY Zenon DEF RInv
    <3> QED  BY <1>2, <1>3, <1>4, <1>5, <1>6, <2>2, <3>1, <3>2 DEF RInv
  <2> QED  BY <2>1, <2>2, Zenon
<1>8. Count' <= PIPESIZE
  BY <1>1, <1>3, <1>4
<1> QED  BY <1>1, <1>2, <1>3, <1>7, <1>8, Zenon DEF RInv

(* A byte delivered leaves the rest, and room for the byte being written. *)
LEMMA CopyOutRInv ==
  ASSUME OneEach, CInv, RInv, NEW p \in Procs, CopyOut(p), nread' = (nread + 1) % UINT,
         pc' = [pc EXCEPT ![p] = "copy"]
  PROVE  RInv' /\ Count' = Count - 1
<1>0. TypeOK
  BY Zenon DEF CInv
<1>1. pc[p] = "copyout" /\ p \in Readers /\ Count > 0 /\ Count <= PIPESIZE
  BY Zenon DEF CopyOut, RInv
<1>2. UNCHANGED <<call, t, ch, data, nwrite>>
  BY Zenon DEF CopyOut
<1>3. Count' = Count - 1
  BY <1>0, <1>1, <1>2, Counted, Zenon DEF Count
<1>4. Count \in Int /\ PIPESIZE \in Int
  BY <1>0, Counters, PipeAssumption
<1>5. pc'[p] = "copy" /\ \A q \in Procs \ {p} : pc'[q] = pc[q] /\ q \in Writers
  BY <1>0, <1>1, Types, PipeAssumption, Zenon DEF OneEach, Id, Procs
<1>6. ASSUME NEW q \in Procs
      PROVE  /\ call'[q] = "write" \/ pc'[q] = "store" => q \in Writers
             /\ call'[q] = "read" \/ pc'[q] \in {"copy", "copyout"} => q \in Readers
             /\ pc'[q] = "store" => t'[q] = nwrite' /\ Count' < PIPESIZE
             /\ pc'[q] = "copyout" => Count' > 0 /\ ch'[q] = data'[nread' % PIPESIZE]
  <2>1. CASE q = p
    BY <1>1, <1>2, <1>5, <2>1, Zenon DEF RInv
  <2>2. CASE q # p
    <3>1. pc[q] # "copyout"
      BY <1>5, <2>2, PipeAssumption, Zenon DEF RInv
    <3> QED  BY <1>2, <1>3, <1>4, <1>5, <2>2, <3>1 DEF RInv
  <2> QED  BY <2>1, <2>2, Zenon
<1>7. Count' <= PIPESIZE
  BY <1>1, <1>3, <1>4
<1> QED  BY <1>3, <1>6, <1>7, Zenon DEF RInv

(* A function on 1..n is a sequence. *)
LEMMA AsSequence ==
  ASSUME NEW n \in Nat, NEW S, NEW f \in [1..n -> S]
  PROVE  f \in Seq(S) /\ Len(f) = n
  OBVIOUS

(* When a sequence is another with an element appended, ... *)
LEMMA Appended ==
  ASSUME NEW S, NEW s \in Seq(S), NEW e \in S, NEW u \in Seq(S), Len(u) = Len(s) + 1,
         \A k \in 1..Len(s) : u[k] = s[k], u[Len(s) + 1] = e
  PROVE  u = Append(s, e)
  OBVIOUS

(* ... and when it is another's tail. *)
LEMMA HeadTail ==
  ASSUME NEW S, NEW s \in Seq(S), NEW u \in Seq(S), Len(s) = Len(u) + 1,
         \A k \in 1..Len(u) : u[k] = s[k + 1]
  PROVE  s # <<>> /\ Head(s) = s[1] /\ Tail(s) = u
  OBVIOUS

(* The queue that the ring stands for. *)
QueueIs ==
  /\ Contents \in Seq(Bytes) /\ Len(Contents) = Count /\ Count \in Nat
  /\ \A k \in 1..Count : /\ (nread + k - 1) % PIPESIZE \in 0..PIPESIZE-1
                         /\ Contents[k] = data[(nread + k - 1) % PIPESIZE]

(* A well-typed ring stands for a queue of Count bytes. *)
LEMMA Queue == TypeOK => QueueIs
<1> SUFFICES ASSUME TypeOK PROVE QueueIs
  BY Zenon
<1>1. Count \in Nat /\ nread \in Int
  BY Counters, PipeAssumption
<1>2. Contents = [k \in 1..Count |-> data[(nread + k - 1) % PIPESIZE]]
  BY Zenon DEF Contents, Count, Ahead
<1>3. \A k \in 1..Count : (nread + k - 1) % PIPESIZE \in 0..PIPESIZE-1
  <2>1. \A k \in 1..Count : nread + k - 1 \in Int
    BY <1>1
  <2> QED  BY <2>1, Remainders, Zenon
<1>4. \A k \in 1..Count : data[(nread + k - 1) % PIPESIZE] \in Bytes
  BY <1>3, Types, Zenon
<1>5. Contents \in [1..Count -> Bytes]
  BY <1>2, <1>4, Zenon
<1>6. Contents \in Seq(Bytes) /\ Len(Contents) = Count
  BY <1>1, <1>5, AsSequence, Zenon
<1> QED  BY <1>1, <1>2, <1>3, <1>6, Zenon DEF QueueIs

(* A byte stored is the queue's last. *)
LEMMA StoreByteSends ==
  ASSUME OneEach, CInv, CInv', RInv, NEW p \in Procs, StoreByte(p)
  PROVE  Fifo!Send
<1>0. TypeOK /\ TypeOK'
  BY Zenon DEF CInv
<1>a. QueueIs /\ QueueIs'
  BY <1>0, Queue, PTL
<1>1. /\ Count' = Count + 1 /\ Count < PIPESIZE /\ UNCHANGED <<nread, last>>
      /\ t[p] = nwrite
  BY StoreByteRInv, Zenon DEF StoreByte, RInv
<1>2. PICK b \in Bytes : data' = [data EXCEPT ![nwrite % PIPESIZE] = b]
  BY <1>1, Zenon DEF StoreByte
<1>3. Count \in Nat /\ nread \in Int /\ nwrite \in Int
  BY <1>0, Counters, PipeAssumption
<1>4. data \in [0..PIPESIZE-1 -> Bytes] /\ nwrite % PIPESIZE \in 0..PIPESIZE-1
  BY <1>0, <1>3, Types, Remainders, Zenon
<1>5. data'[(nread + Count) % PIPESIZE] = b
  BY <1>0, <1>2, <1>4, RingSlots, Zenon
<1>6. /\ Contents \in Seq(Bytes) /\ Len(Contents) = Count
      /\ Contents' \in Seq(Bytes) /\ Len(Contents') = Count + 1
  BY <1>1, <1>a, Zenon DEF QueueIs
<1>7. ASSUME NEW k \in 1..Count PROVE Contents'[k] = Contents[k]
  <2>0. k \in 1..Count'
    BY <1>1, <1>3
  <2>1. (nread + k - 1) % PIPESIZE # nwrite % PIPESIZE
    BY <1>0, <1>1, RingSlots, Zenon
  <2>2. /\ (nread + k - 1) % PIPESIZE \in 0..PIPESIZE-1
        /\ Contents[k] = data[(nread + k - 1) % PIPESIZE]
    BY <1>a, Zenon DEF QueueIs
  <2>3. Contents'[k] = data'[(nread + k - 1) % PIPESIZE]
    BY <1>1, <1>a, <2>0, Zenon DEF QueueIs
  <2>4. data'[(nread + k - 1) % PIPESIZE] = data[(nread + k - 1) % PIPESIZE]
    BY <1>2, <1>4, <2>1, <2>2, Zenon
  <2> QED  BY <2>2, <2>3, <2>4, Zenon
<1>8. Contents'[Count + 1] = b
  <2>1. Count + 1 \in 1..Count' /\ nread + (Count + 1) - 1 = nread + Count
    BY <1>1, <1>3
  <2>2. Contents'[Count + 1] = data'[(nread + (Count + 1) - 1) % PIPESIZE]
    BY <1>1, <1>a, <2>1, Zenon DEF QueueIs
  <2> QED  BY <1>5, <2>1, <2>2, Zenon
<1>9. Contents' = Append(Contents, b)
  BY <1>6, <1>7, <1>8, Appended, Zenon
<1> QED  BY <1>1, <1>6, <1>9, Zenon DEF Fifo!Send

(* A byte delivered is the queue's first. *)
LEMMA CopyOutReceives ==
  ASSUME OneEach, CInv, CInv', RInv, NEW p \in Procs, CopyOut(p),
         nread' = (nread + 1) % UINT, last' = ch[p], pc' = [pc EXCEPT ![p] = "copy"]
  PROVE  Fifo!Recv
<1>0. TypeOK /\ TypeOK'
  BY Zenon DEF CInv
<1>a. QueueIs /\ QueueIs'
  BY <1>0, Queue, PTL
<1>1. /\ Count' = Count - 1 /\ Count > 0 /\ UNCHANGED <<data, nwrite>>
      /\ last' = data[nread % PIPESIZE]
  BY CopyOutRInv, Zenon DEF CopyOut, RInv
<1>2. Count \in Nat /\ nread \in 0..UINT-1 /\ nread \in Int /\ UINT \in Int
  BY <1>0, Counters, PipeAssumption
<1>3. /\ Contents \in Seq(Bytes) /\ Len(Contents) = Count
      /\ Contents' \in Seq(Bytes) /\ Len(Contents') = Count'
  BY <1>a, Zenon DEF QueueIs
<1>4. Count = Count' + 1
  BY <1>1, <1>2
<1>5. ASSUME NEW k \in 1..Count' PROVE Contents'[k] = Contents[k + 1]
  <2>1. k \in Int /\ k + 1 \in 1..Count /\ nread + (k + 1) - 1 = nread + k
    BY <1>1, <1>2
  <2>2. Contents[k + 1] = data[(nread + (k + 1) - 1) % PIPESIZE]
    BY <1>a, <2>1, Zenon DEF QueueIs
  <2>3. Contents'[k] = data[(nread' + k - 1) % PIPESIZE]
    BY <1>1, <1>a, Zenon DEF QueueIs
  <2>4. (nread' + k - 1) % PIPESIZE = (nread + k) % PIPESIZE
    <3>1. CASE nread + 1 = UINT
      <4>1. nread' = 0
        BY <1>2, <3>1, NextCount, Zenon
      <4>2. nread \in Int /\ UINT \in Int /\ k \in Int
        BY <1>2, <2>1, Zenon
      <4>3. nread' + k - 1 = k - 1 /\ k - 1 \in Int /\ (k - 1) + UINT = nread + k
        BY <3>1, <4>1, <4>2
      <4> QED  BY <4>3, SameSlot, Zenon
    <3>2. CASE nread + 1 # UINT
      <4>1. nread' = nread + 1
        BY <1>2, <3>2, NextCount, Zenon
      <4>2. nread' + k - 1 = nread + k
        BY <1>2, <2>1, <4>1
      <4> QED  BY <4>2, Zenon
    <3> QED  BY <3>1, <3>2, Zenon
  <2> QED  BY <2>1, <2>2, <2>3, <2>4, Zenon
<1>6. Contents # <<>> /\ Head(Contents) = Contents[1] /\ Tail(Contents) = Contents'
  BY <1>3, <1>4, <1>5, HeadTail, ZenonT(60)
<1>7. Contents[1] = data[nread % PIPESIZE]
  <2>1. 1 \in 1..Count /\ nread + 1 - 1 = nread
    BY <1>1, <1>2
  <2>2. Contents[1] = data[(nread + 1 - 1) % PIPESIZE]
    BY <1>a, <2>1, Zenon DEF QueueIs
  <2> QED  BY <2>1, <2>2, Zenon
<1> QED  BY <1>1, <1>6, <1>7, Zenon DEF Fifo!Recv

(* Every step keeps the ring's invariant, and is a step of the queue or none  *)
(* that it shows.                                                             *)
LEMMA StepFifo ==
  ASSUME OneEach, CInv, CInv', RInv, NEW p \in Procs,
         Transfer(p) \/ CloseFd(p) \/ PipeStep(p) \/ Kill(p)
  PROVE  RInv' /\ [Fifo!Next]_<<Contents, last>>
<1>0. /\ pc[p] \in Pcs /\ call \in [Procs -> {"none", "read", "write", "close"}]
      /\ t \in [Procs -> 0..UINT-1] /\ ch \in [Procs -> Bytes]
      /\ (call[p] = "write" => p \in Writers) /\ (call[p] = "read" => p \in Readers)
  BY ZenonT(60) DEF CInv, TypeOK, RInv
<1>a. ASSUME UNCHANGED <<ring, last>> PROVE [Fifo!Next]_<<Contents, last>>
  BY <1>a, Zenon DEF Contents, ring
<1>b. ASSUME NEW l, pc' = [pc EXCEPT ![p] = l], l \notin {"store", "copyout"},
             l = "copy" => p \in Readers,
             UNCHANGED <<ring, last, call>>,
             \A q \in Procs \ {p} : t'[q] = t[q] /\ ch'[q] = ch[q]
      PROVE  RInv' /\ [Fifo!Next]_<<Contents, last>>
  <2>1. RInv'
    BY <1>0, <1>b, StayRInv, Zenon
  <2> QED  BY <1>a, <1>b, <2>1, Zenon
<1>1. ASSUME NEW op, Acquire(p, op), UNCHANGED <<ring, last, t, ch>>,
             op = "write" => p \in Writers, op = "read" => p \in Readers
      PROVE  RInv' /\ [Fifo!Next]_<<Contents, last>>
  <2>1. /\ pc' = [pc EXCEPT ![p] = "acq"] /\ call'[p] = op
        /\ \A q \in Procs \ {p} : call'[q] = call[q]
    BY <1>0, <1>1, Zenon DEF Acquire, Goto
  <2>2. RInv'
    BY <1>1, <2>1, StayRInv, Zenon
  <2> QED  BY <1>1, <1>a, <2>2, Zenon
<1> USE DEF Goto
<1>2. CASE Transfer(p)
  <2>1. p \in Writers \/ p \in Readers
    BY Zenon DEF Procs
  <2>2. PICK op \in {"write", "read"} : /\ Acquire(p, op)
                                        /\ op = "write" => p \in Writers
                                        /\ op = "read" => p \in Readers
    BY <1>2, <2>1, Zenon DEF Transfer
  <2> QED  BY <1>1, <1>2, <2>2, Zenon DEF Transfer
<1>3. CASE CloseFd(p)
  <2>1. UNCHANGED <<ring, last, t, ch>>
    BY <1>3, Zenon DEF CloseFd
  <2>2. CASE Acquire(p, "close")
    BY <1>1, <2>1, <2>2, Zenon
  <2>3. ASSUME NEW l \in {"gone"}, pc' = [pc EXCEPT ![p] = l], UNCHANGED call
        PROVE  RInv' /\ [Fifo!Next]_<<Contents, last>>
    BY <1>b, <2>1, <2>3, Zenon
  <2> QED  BY <1>3, <2>2, <2>3, Zenon DEF CloseFd
<1>4. CASE Store(p) \/ Spin(p)
  <2>1. PICK l \in {"spinflag", "spinturn", "acq", "body"} : pc' = [pc EXCEPT ![p] = l]
    BY <1>4, Zenon DEF Store, Spin
  <2>2. UNCHANGED <<ring, last, call, t, ch>>
    BY <1>4, Zenon DEF Store, Spin, locals
  <2> QED  BY <1>b, <2>1, <2>2, Zenon
<1>5. CASE Release(p)
  <2>1. PICK l \in {"gone", "idle", "sleep", "free"} : pc' = [pc EXCEPT ![p] = l]
    BY <1>5, Zenon DEF Release
  <2>2. UNCHANGED <<ring, last, call, t, ch>>
    BY <1>5, Zenon DEF Release, locals
  <2> QED  BY <1>b, <2>1, <2>2, Zenon
<1>6. CASE Sleep(p) \/ Kill(p)
  <2>1. UNCHANGED <<ring, last, call, pc, t, ch>>
    BY <1>6, Zenon DEF Sleep, Kill, locals
  <2>2. Count' = Count /\ UNCHANGED <<data, nread, nwrite>>
    BY <2>1, Zenon DEF Count, Ahead, ring
  <2>3. RInv'
    BY <2>1, <2>2, Zenon DEF RInv
  <2> QED  BY <1>a, <2>1, <2>3, Zenon
<1>7. CASE WriteLoop(p)
  <2>0. UNCHANGED <<ring, last, call, ch>> /\ p \in Writers
    BY <1>0, <1>7, Zenon DEF WriteLoop
  <2>1. CASE ~Full /\ pc' = [pc EXCEPT ![p] = "store"] /\ t' = [t EXCEPT ![p] = nwrite]
    <3>1. RInv'
      BY <2>0, <2>1, TakeRInv, Zenon
    <3> QED  BY <1>a, <2>0, <3>1, Zenon
  <2>2. ASSUME NEW l \in {"rel", "relsleep"}, pc' = [pc EXCEPT ![p] = l], UNCHANGED t
        PROVE  RInv' /\ [Fifo!Next]_<<Contents, last>>
    BY <1>b, <2>0, <2>2, Zenon
  <2> QED  BY <1>7, <2>1, <2>2, Zenon DEF WriteLoop
<1>8. CASE StoreByte(p)
  BY <1>8, StoreByteRInv, StoreByteSends, Zenon DEF Fifo!Next
<1>9. CASE ReadWait(p)
  <2>1. PICK l \in {"rel", "relsleep", "copy"} : pc' = [pc EXCEPT ![p] = l]
    BY <1>9, Zenon DEF ReadWait
  <2>2. UNCHANGED <<ring, last, call, t, ch>> /\ p \in Readers
    BY <1>0, <1>9, Zenon DEF ReadWait, locals
  <2> QED  BY <1>b, <2>1, <2>2, Zenon
<1>10. CASE LoadByte(p)
  <2>0. UNCHANGED <<ring, last, call, t>> /\ p \in Readers
    BY <1>10, Zenon DEF LoadByte, RInv
  <2>1. CASE /\ nread # nwrite /\ pc' = [pc EXCEPT ![p] = "copyout"]
             /\ ch' = [ch EXCEPT ![p] = data[nread % PIPESIZE]]
    <3>1. RInv'
      BY <2>0, <2>1, TakeRInv, Zenon
    <3> QED  BY <1>a, <2>0, <3>1, Zenon
  <2>2. ASSUME NEW l \in {"rel"}, pc' = [pc EXCEPT ![p] = l], UNCHANGED ch
        PROVE  RInv' /\ [Fifo!Next]_<<Contents, last>>
    BY <1>b, <2>0, <2>2, Zenon
  <2> QED  BY <1>10, <2>1, <2>2, Zenon DEF LoadByte
<1>11. CASE CopyOut(p)
  <2>1. ASSUME NEW l \in {"rel"}, pc' = [pc EXCEPT ![p] = l], UNCHANGED <<nread, last>>
        PROVE  RInv' /\ [Fifo!Next]_<<Contents, last>>
    <3>1. UNCHANGED <<ring, last, call, t, ch>>
      BY <1>11, <2>1, Zenon DEF CopyOut, ring
    <3> QED  BY <1>b, <2>1, <3>1, Zenon
  <2>2. CASE pc' = [pc EXCEPT ![p] = "copy"] /\ last' = ch[p] /\ nread' = (nread + 1) % UINT
    BY <1>11, <2>2, CopyOutRInv, CopyOutReceives, Zenon DEF Fifo!Next
  <2> QED  BY <1>11, <2>1, <2>2, Zenon DEF CopyOut
<1>12. CASE CloseEnd(p)
  <2>1. PICK l \in {"rel", "relfree"} : pc' = [pc EXCEPT ![p] = l]
    BY <1>12, Zenon DEF CloseEnd
  <2>2. UNCHANGED <<ring, last, call, t, ch>>
    BY <1>12, Zenon DEF CloseEnd, locals
  <2> QED  BY <1>b, <2>1, <2>2, Zenon
<1>13. CASE Free(p)
  <2>1. PICK l \in {"gone"} : pc' = [pc EXCEPT ![p] = l]
    BY <1>13, Zenon DEF Free
  <2>2. UNCHANGED <<ring, last, call, t, ch>>
    BY <1>13, Zenon DEF Free, locals
  <2> QED  BY <1>b, <2>1, <2>2, Zenon
<1> QED  BY <1>2, <1>3, <1>4, <1>5, <1>6, <1>7, <1>8, <1>9, <1>10, <1>11, <1>12, <1>13, Zenon
         DEF PipeStep

(* pipewrite() and piperead() implement a bounded FIFO queue: bytes come out  *)
(* once and in order, across the wrap-around of nread and nwrite, failed      *)
(* copies, kills and closes, as long as each end has one holder and the lock  *)
(* works (the lock makes StoreByte and CopyOut, which change a slot and its   *)
(* counter, single steps).                                                    *)
THEOREM RingIsFifo == OneEach /\ ~StoresReorder => (Spec => ImplementsFifo)
<1> SUFFICES ASSUME OneEach, ~StoresReorder PROVE Spec => ImplementsFifo
  BY Zenon
<1>1. Init => RInv /\ Fifo!Init
  <2> SUFFICES ASSUME Init PROVE RInv /\ Fifo!Init
    BY Zenon
  <2>1. nread = 0 /\ nwrite = 0 /\ last \in Bytes /\ \A p \in Procs : pc[p] = "idle" /\ call[p] = "none"
    BY Zenon DEF Init
  <2>2. Count = 0
    BY <2>1, AheadValue, Remainders DEF Count
  <2>3. RInv
    BY <2>1, <2>2, PipeAssumption DEF RInv
  <2>4. TypeOK
    BY InitCInv, Zenon DEF CInv
  <2>5. Contents \in Seq(Bytes) /\ Len(Contents) = 0
    BY <2>2, <2>4, Queue, Zenon DEF QueueIs
  <2>6. Contents = <<>>
    BY <2>5
  <2> QED  BY <2>1, <2>3, <2>6, Zenon DEF Fifo!Init
<1>2. CInv /\ CInv' /\ RInv /\ [Next]_vars => RInv' /\ [Fifo!Next]_<<Contents, last>>
  <2> SUFFICES ASSUME CInv, CInv', RInv, [Next]_vars PROVE RInv' /\ [Fifo!Next]_<<Contents, last>>
    BY Zenon
  <2>1. CASE UNCHANGED vars
    <3>1. UNCHANGED <<data, nread, nwrite, last, call, pc, t, ch>>
      BY <2>1, Zenon DEF vars, ring, locals
    <3>2. Count' = Count /\ Contents' = Contents
      BY <3>1, Zenon DEF Count, Ahead, Contents
    <3> QED  BY <3>1, <3>2, Zenon DEF RInv
  <2> QED  BY <2>1, StepFifo, Zenon DEF Next
<1>3. Spec => []CInv
  BY PipeInvariant, Zenon
<1> QED BY <1>1, <1>2, <1>3, PTL DEF Spec, ImplementsFifo, Fifo!Spec
=============================================================================
