---------------------------- MODULE BlockIOProofs ----------------------------
(* Theorems about BlockIO, for any number of processes, blocks, buffers and   *)
(* descriptors.                                                               *)
EXTENDS BlockIO, TLAPS

(* A process in a call has its block and a buffer, one outside has neither.   *)
InCall(p) == c[p].pc # "idle"
CallInv ==
  \A p \in Procs : IF InCall(p) THEN c[p].no \in Blocks /\ c[p].b \in Bufs ELSE c[p].b = None

(* A block is in one buffer at most; a buffer keeps its block while there are *)
(* references; the references are those of processes and of pins.             *)
Pins(b) == IF buf[b].no \in pinned THEN 1 ELSE 0
LookupInv ==
  /\ \A a, b \in Bufs : buf[a].no = buf[b].no /\ buf[a].no # None => a = b
  /\ \A p \in Procs : InCall(p) => buf[c[p].b].no = c[p].no
  /\ \A b \in Bufs : buf[b].ref = Cardinality(Users(b)) + Pins(b)
  /\ \A n \in pinned : \E b \in Bufs : buf[b].no = n

(* Between acquiresleep() and releasesleep(), the buffer's lock is the        *)
(* process's.                                                                 *)
Locking(p) == c[p].pc \notin {"idle", "lock"}
LockInv == \A p \in Procs : Locking(p) => buf[c[p].b].lock = p

(* The disk has yet to carry out the request of p. *)
Pending(p) == c[p].pc \in {"rw", "descsleep"} \/ (c[p].pc = "disksleep" /\ c[p].h \in avail)
Answered(p) == c[p].pc = "woken" \/ (c[p].pc = "disksleep" /\ c[p].h \notin avail)

(* Where the latest version of a block is: on disk, or in a valid buffer that *)
(* is pinned or about to be written; and what a call knows of it.             *)
Latest(b, n) ==
  /\ buf[b].no = n /\ buf[b].valid
  /\ n \in pinned \/ \E p \in Procs : c[p].b = b /\ c[p].write /\ Pending(p)
CallData(p) ==
  /\ c[p].pc = "lock" => ~c[p].write
  /\ c[p].pc \in {"hold", "changed", "written"} => buf[c[p].b].valid
  /\ Pending(p) \/ Answered(p) => buf[c[p].b].valid = c[p].write
  /\ Answered(p) /\ ~c[p].write => buf[c[p].b].data
  /\ (Answered(p) /\ c[p].write) \/ c[p].pc = "written" => store[c[p].no]
DataInv ==
  /\ \A b \in Bufs : buf[b].valid => buf[b].data
  /\ \A n \in Blocks : store[n] \/ \E b \in Bufs : Latest(b, n)
  /\ \A p \in Procs : CallData(p)

(* A request has its descriptors to itself. *)
ReqInv ==
  /\ \A p \in Waiting : /\ c[p].h \in desc[c[p].h].chain
                        /\ desc[c[p].h].b = c[p].b /\ desc[c[p].h].write = c[p].write
                        /\ Cardinality(desc[c[p].h].chain) = 3
                        /\ desc[c[p].h].chain \cap free = {}
  /\ \A p, q \in Waiting : p # q => desc[c[p].h].chain \cap desc[c[q].h].chain = {}
  /\ Cardinality(free) + 3 * Cardinality(Waiting) = NUM

(* A request is with the disk or answered, once, until its process is woken.  *)
RingInv ==
  /\ \A p \in Procs : c[p].pc = "disksleep" => c[p].h \in avail \cup Range(used)
  /\ \A h \in avail \cup Range(used) : \E p \in Procs : c[p].pc = "disksleep" /\ c[p].h = h
  /\ \A i \in 1..Len(used) : used[i] \notin avail /\ \A j \in 1..Len(used) : used[i] = used[j] => i = j
  /\ used # <<>> => irq \/ intr
  /\ \A p \in Procs : c[p].pc = "woken" => ~buf[c[p].b].disk
  /\ \A p \in Procs : c[p].pc = "descsleep" => Waiting # {}

IInv == TypeOK /\ CallInv /\ LookupInv /\ LockInv /\ DataInv /\ ReqInv /\ RingInv /\ PanicsOnlyFull

-----------------------------------------------------------------------------
(* The data a step changes. *)

LEMMA Apart == None \notin Bufs /\ None \notin Procs /\ None \notin Blocks /\ 0 \in Descs
BY SizesAssumption DEF None, Bufs, Descs

OtherBufs(b) == \A x \in Bufs : x # b => buf'[x] = buf[x]
OtherCalls(p) == \A q \in Procs : q # p => c'[q] = c[q]

(* A buffer, and a call, by its fields. *)
BufIs(e, no, ref, valid, ondisk, lock, data) ==
  /\ e \in BufType
  /\ e.no = no /\ e.ref = ref /\ e.valid = valid /\ e.disk = ondisk /\ e.lock = lock /\ e.data = data
CallIs(r, pc, no, b, write, h) ==
  /\ r \in CallType
  /\ r.pc = pc /\ r.no = no /\ r.b = b /\ r.write = write /\ r.h = h

LEMMA PutBuf ==
  ASSUME TypeOK, NEW b \in Bufs, NEW e \in BufType, buf' = [buf EXCEPT ![b] = e]
  PROVE  buf' \in [Bufs -> BufType] /\ buf'[b] = e /\ OtherBufs(b)
BY Zenon DEF TypeOK, OtherBufs

LEMMA PutCall ==
  ASSUME TypeOK, NEW p \in Procs, NEW r \in CallType, c' = [c EXCEPT ![p] = r]
  PROVE  c' \in [Procs -> CallType] /\ c'[p] = r /\ OtherCalls(p)
BY Zenon DEF TypeOK, OtherCalls

LEMMA IdleCall == CallIs(Idle, "idle", None, None, FALSE, 0)
<1>1. Idle.pc = "idle" /\ Idle.no = None /\ Idle.b = None /\ Idle.write = FALSE /\ Idle.h = 0
  BY DEF Idle
<1>2. Idle \in CallType
  BY Apart, Zenon DEF Idle, CallType, Pcs
<1> QED  BY <1>1, <1>2, Zenon DEF CallIs

(* wakeup() of those who wait for descriptors. *)
Stirred(q) == IF c[q].pc = "descsleep" THEN CallIs(c'[q], "rw", c[q].no, c[q].b, c[q].write, c[q].h)
              ELSE c'[q] = c[q]

LEMMA WakeDescType ==
  ASSUME TypeOK
  PROVE  /\ WakeDesc(c) \in [Procs -> CallType]
         /\ \A q \in Procs : IF c[q].pc = "descsleep"
                             THEN CallIs(WakeDesc(c)[q], "rw", c[q].no, c[q].b, c[q].write, c[q].h)
                             ELSE WakeDesc(c)[q] = c[q]
<1>1. \A q \in Procs : c[q] \in CallType
  BY Zenon DEF TypeOK
<1>2. \A q \in Procs : CallIs([c[q] EXCEPT !.pc = "rw"], "rw", c[q].no, c[q].b, c[q].write, c[q].h)
  BY <1>1, Zenon DEF CallType, CallIs, Pcs
<1> QED  BY <1>1, <1>2, Zenon DEF WakeDesc, CallIs

(* brelse() permutes the list. *)
LEMMA MovedOK ==
  ASSUME TypeOK, NEW b \in Bufs
  PROVE  /\ MovedToHead(b) \in [Bufs -> Bufs]
         /\ \A x \in Bufs : \E k \in Bufs : MovedToHead(b)[k] = x
<1> DEFINE place == CHOOSE k \in Bufs : lru[k] = b
           m == [k \in Bufs |-> IF k = 1 THEN b ELSE IF k <= place THEN lru[k - 1] ELSE lru[k]]
<1>1. lru \in [Bufs -> Bufs] /\ (\A x \in Bufs : \E k \in Bufs : lru[k] = x) /\ MovedToHead(b) = m
  BY Zenon DEF TypeOK, MovedToHead
<1>2. place \in Bufs /\ lru[place] = b
  BY <1>1, Zenon
<1> HIDE DEF place
<1>3. m \in [Bufs -> Bufs]
  <2>1. \A k \in Bufs : k = 1 \/ k - 1 \in Bufs
    BY SizesAssumption DEF Bufs
  <2> QED  BY <1>1, <2>1, Zenon
<1>4. ASSUME NEW x \in Bufs PROVE \E k \in Bufs : m[k] = x
  <2>1. PICK k \in Bufs : lru[k] = x
    BY <1>1, Zenon
  <2>2. CASE x = b
    <3>1. 1 \in Bufs
      BY SizesAssumption DEF Bufs
    <3> QED  BY <2>2, <3>1, Zenon
  <2>3. CASE x # b /\ k < place
    <3>1. k + 1 \in Bufs /\ k + 1 # 1 /\ k + 1 <= place /\ (k + 1) - 1 = k
      BY <1>2, <2>3, SizesAssumption DEF Bufs
    <3>2. m[k + 1] = x
      BY <2>1, <3>1, Zenon
    <3> QED  BY <3>1, <3>2, Zenon
  <2>4. CASE x # b /\ ~(k < place)
    <3>1. k # place
      BY <1>2, <2>1, <2>4, Zenon
    <3>2. k # 1 /\ ~(k <= place)
      BY <1>2, <2>4, <3>1, SizesAssumption DEF Bufs
    <3> QED  BY <2>1, <3>2, Zenon
  <2> QED  BY <2>2, <2>3, <2>4, Zenon
<1> QED  BY <1>1, <1>3, <1>4, Zenon

-----------------------------------------------------------------------------
(* Lookups: steps that leave the buffers of blocks, and who holds them, alone. *)

(* A step that leaves lookups, locks and operations alone. *)
BufFrame(b) == buf'[b].no = buf[b].no /\ buf'[b].ref = buf[b].ref /\ buf'[b].lock = buf[b].lock
CallFrame(p) == /\ c'[p].no = c[p].no /\ c'[p].b = c[p].b /\ c'[p].write = c[p].write
                /\ (InCall(p)' <=> InCall(p)) /\ (Locking(p)' <=> Locking(p))
Frame == pinned' = pinned /\ (\A b \in Bufs : BufFrame(b)) /\ (\A p \in Procs : CallFrame(p))

LEMMA FrameKeeps ==
  ASSUME CallInv, LookupInv, LockInv, Frame
  PROVE  CallInv' /\ LookupInv' /\ LockInv' /\ InUse' = InUse
<1>1. CallInv'
  BY Zenon DEF CallInv, Frame, BufFrame, CallFrame
<1>2. \A b \in Bufs : Users(b)' = Users(b) /\ Pins(b)' = Pins(b)
  BY Zenon DEF Users, Pins, Frame, BufFrame, CallFrame
<1>3. \A b \in Bufs : buf'[b].ref = Cardinality(Users(b)') + Pins(b)'
  BY <1>2, Zenon DEF LookupInv, Frame, BufFrame, CallFrame
<1>4. LookupInv'
  <2>1. \A a, b \in Bufs : buf'[a].no = buf'[b].no /\ buf'[a].no # None => a = b
    BY DEF LookupInv, Frame, BufFrame, CallFrame
  <2>2. \A p \in Procs : InCall(p)' => buf'[c'[p].b].no = c'[p].no
    BY DEF LookupInv, CallInv, Frame, BufFrame, CallFrame
  <2>3. \A n \in pinned' : \E b \in Bufs : buf'[b].no = n
    BY DEF LookupInv, Frame, BufFrame, CallFrame
  <2> QED  BY <1>3, <2>1, <2>2, <2>3, Zenon DEF LookupInv
<1>5. LockInv'
  <2>1. \A p \in Procs : Locking(p) => c[p].b \in Bufs
    BY Zenon DEF Locking, CallInv, InCall
  <2> QED  BY <2>1 DEF LockInv, Frame, BufFrame, CallFrame
<1>6. {q \in Procs : c'[q].pc # "idle"} = {q \in Procs : c[q].pc # "idle"}
  BY Zenon DEF Frame, CallFrame, InCall
<1>7. InUse' = InUse
  BY <1>6 DEF InUse, Frame, CallFrame
<1> QED  BY <1>1, <1>4, <1>5, <1>7, Zenon

(* Calls and buffers that stay, or whose progress alone changes, are framed. *)
LEMMA Framed ==
  /\ \A b \in Bufs : buf'[b] = buf[b] => BufFrame(b)
  /\ \A p \in Procs : c'[p] = c[p] \/ Stirred(p) => CallFrame(p)
<1>1. \A b \in Bufs : buf'[b] = buf[b] => BufFrame(b)
  BY Zenon DEF BufFrame
<1>2. ASSUME NEW p \in Procs, c'[p] = c[p] PROVE CallFrame(p)
  BY <1>2, Zenon DEF CallFrame, InCall, Locking
<1>3. ASSUME NEW p \in Procs, Stirred(p) PROVE CallFrame(p)
  <2>1. CASE c[p].pc = "descsleep"
    BY <1>3, <2>1 DEF Stirred, CallIs, CallFrame, InCall, Locking
  <2>2. CASE c[p].pc # "descsleep"
    BY <1>2, <1>3, <2>2, Zenon DEF Stirred
  <2> QED  BY <2>1, <2>2, Zenon
<1> QED  BY <1>1, <1>2, <1>3, Zenon

(* Two processes that hold the lock of one buffer are one. *)
LEMMA OneLocker ==
  ASSUME LockInv, NEW p \in Procs, NEW q \in Procs, Locking(p), Locking(q), c[p].b = c[q].b
  PROVE  p = q
BY Zenon DEF LockInv

-----------------------------------------------------------------------------
(* Requests and rings. *)

LEMMA RingTail ==
  ASSUME NEW s \in Seq(Descs), s # <<>>
  PROVE  /\ Tail(s) \in Seq(Descs) /\ Len(Tail(s)) = Len(s) - 1 /\ 1 \in 1..Len(s)
         /\ \A i \in 1..Len(Tail(s)) : i + 1 \in 1..Len(s) /\ i + 1 # 1 /\ Tail(s)[i] = s[i + 1]
         /\ \A i \in 1..Len(s) : i = 1 \/ \E j \in 1..Len(Tail(s)) : Tail(s)[j] = s[i]
<1>1. Len(s) \in Nat /\ Len(s) >= 1 /\ Tail(s) \in Seq(Descs) /\ Len(Tail(s)) = Len(s) - 1
  OBVIOUS
<1>2. \A i \in 1..Len(Tail(s)) : i + 1 \in 1..Len(s) /\ i + 1 # 1 /\ Tail(s)[i] = s[i + 1]
  BY <1>1
<1>3. ASSUME NEW i \in 1..Len(s), i # 1 PROVE \E j \in 1..Len(Tail(s)) : Tail(s)[j] = s[i]
  <2>1. i - 1 \in 1..Len(Tail(s)) /\ (i - 1) + 1 = i
    BY <1>1, <1>3
  <2> QED  BY <1>2, <2>1
<1> QED  BY <1>1, <1>2, <1>3

LEMMA RingAppend ==
  ASSUME NEW s \in Seq(Descs), NEW h \in Descs
  PROVE  /\ Len(Append(s, h)) = Len(s) + 1 /\ Len(s) \in Nat
         /\ \A i \in 1..Len(Append(s, h)) : \/ i \in 1..Len(s) /\ Append(s, h)[i] = s[i]
                                            \/ i = Len(s) + 1 /\ Append(s, h)[i] = h
         /\ \A i \in 1..Len(s) : i \in 1..Len(Append(s, h)) /\ Append(s, h)[i] = s[i]
         /\ Len(s) + 1 \in 1..Len(Append(s, h)) /\ Append(s, h)[Len(s) + 1] = h
OBVIOUS

LEMMA RingRange ==
  ASSUME NEW s \in Seq(Descs), NEW h
  PROVE  h \in Range(s) <=> \E i \in 1..Len(s) : s[i] = h
<1>1. DOMAIN s = 1..Len(s)
  OBVIOUS
<1> QED  BY <1>1, Zenon DEF Range

(* A process with a request, and its buffer. *)
LEMMA Requester ==
  ASSUME TypeOK, CallInv, ReqInv, NEW p \in Waiting
  PROVE  /\ p \in Procs /\ InCall(p) /\ c[p].b \in Bufs /\ c[p].no \in Blocks /\ c[p].h \in Descs
         /\ desc[c[p].h].b = c[p].b /\ desc[c[p].h].write = c[p].write
         /\ desc[c[p].h].chain \in SUBSET Descs
<1>1. p \in Procs /\ InCall(p)
  BY Zenon DEF Waiting, InCall
<1>2. c[p].b \in Bufs /\ c[p].no \in Blocks
  BY <1>1, Zenon DEF CallInv
<1>3. c[p].h \in Descs
  BY <1>1, Zenon DEF TypeOK, CallType
<1>4. desc[c[p].h].chain \in SUBSET Descs
  BY <1>3, Zenon DEF TypeOK, ReqType
<1> QED  BY <1>1, <1>2, <1>3, <1>4, Zenon DEF ReqInv

(* Requests have heads of their own, in their chains. *)
LEMMA HeadsApart ==
  ASSUME ReqInv, NEW p \in Waiting, NEW q \in Waiting, p # q
  PROVE  c[p].h # c[q].h
BY DEF ReqInv

(* A step that leaves the requests alone. *)
LEMMA ReqKept ==
  ASSUME ReqInv, Waiting' = Waiting, desc' = desc, free' = free,
         \A q \in Waiting : c'[q].h = c[q].h /\ c'[q].b = c[q].b /\ c'[q].write = c[q].write
  PROVE  ReqInv'
BY DEF ReqInv

(* The steps of bio.c leave the requests and the rings alone. *)
Asks == {"disksleep", "woken", "descsleep"}
LEMMA OffDisk ==
  ASSUME CallInv, ReqInv, RingInv, UNCHANGED disk,
         NEW p \in Procs, c[p].pc \notin Asks, c'[p].pc \notin Asks, OtherCalls(p),
         \A b \in Bufs : buf'[b].disk = buf[b].disk
  PROVE  ReqInv' /\ RingInv'
<1>1. \A q \in Procs : c[q].pc \in Asks \/ c'[q].pc \in Asks => q # p /\ c'[q] = c[q]
  BY Zenon DEF OtherCalls
<1>2. Waiting' = Waiting /\ \A q \in Waiting : c'[q] = c[q]
  BY <1>1, Zenon DEF Waiting, Asks
<1>3. ReqInv'
  BY <1>2, ReqKept, Zenon DEF disk
<1>4. \A q \in Procs : c'[q].pc = "disksleep" => c'[q].h \in avail' \cup Range(used')
  BY <1>1, Zenon DEF RingInv, disk, Asks
<1>5. \A h \in avail' \cup Range(used') : \E q \in Procs : c'[q].pc = "disksleep" /\ c'[q].h = h
  BY <1>1 DEF RingInv, disk, Asks
<1>6. \A q \in Procs : c'[q].pc = "woken" => ~buf'[c'[q].b].disk
  <2>1. ASSUME NEW q \in Procs, c'[q].pc = "woken" PROVE ~buf'[c'[q].b].disk
    <3>1. c'[q] = c[q] /\ InCall(q)
      BY <1>1, <2>1 DEF Asks, InCall
    <3>2. c[q].b \in Bufs /\ ~buf[c[q].b].disk
      BY <2>1, <3>1, Zenon DEF CallInv, RingInv
    <3> QED  BY <3>1, <3>2, Zenon
  <2> QED  BY <2>1, Zenon
<1>7. \A q \in Procs : c'[q].pc = "descsleep" => Waiting' # {}
  BY <1>1, <1>2, Zenon DEF RingInv, Asks
<1>8. /\ \A i \in 1..Len(used') : used'[i] \notin avail' /\ \A j \in 1..Len(used') : used'[i] = used'[j] => i = j
      /\ used' # <<>> => irq' \/ intr'
  BY Zenon DEF RingInv, disk
<1> QED  BY <1>3, <1>4, <1>5, <1>6, <1>7, <1>8, Zenon DEF RingInv

-----------------------------------------------------------------------------
(* Where the latest version of a block is. *)

(* A step that leaves what a call knows alone. *)
SameCall(q) ==
  /\ c'[q].no = c[q].no /\ c'[q].b = c[q].b /\ c'[q].write = c[q].write
  /\ (Pending(q)' <=> Pending(q)) /\ (Answered(q)' <=> Answered(q))
  /\ \A x \in {"lock", "hold", "changed", "written"} : c'[q].pc = x <=> c[q].pc = x

LEMMA SameStays ==
  ASSUME NEW q \in Procs, c'[q] = c[q], c[q].pc = "disksleep" => (c[q].h \in avail' <=> c[q].h \in avail)
  PROVE  SameCall(q)
BY Zenon DEF SameCall, Pending, Answered

LEMMA StirredStays ==
  ASSUME NEW q \in Procs, Stirred(q), avail' = avail
  PROVE  SameCall(q)
<1>1. CASE c[q].pc = "descsleep"
  <2>1. CallIs(c'[q], "rw", c[q].no, c[q].b, c[q].write, c[q].h)
    BY <1>1, Zenon DEF Stirred
  <2> QED  BY <1>1, <2>1 DEF SameCall, Pending, Answered, CallIs
<1>2. CASE c[q].pc # "descsleep"
  BY <1>2, SameStays, Zenon DEF Stirred
<1> QED  BY <1>1, <1>2, Zenon

LEMMA Busy ==
  ASSUME NEW q \in Procs, Pending(q) \/ Answered(q) \/ c[q].pc \in {"hold", "changed", "written"}
  PROVE  Locking(q) /\ InCall(q)
BY DEF Pending, Answered, Locking, InCall

LEMMA CallDataKept ==
  ASSUME NEW q \in Procs, SameCall(q), CallData(q),
         Locking(q) => /\ buf'[c[q].b].valid = buf[c[q].b].valid /\ (buf[c[q].b].data => buf'[c[q].b].data)
                       /\ (store[c[q].no] => store'[c[q].no])
  PROVE  CallData(q)'
<1>1. c'[q].no = c[q].no /\ c'[q].b = c[q].b /\ c'[q].write = c[q].write
  BY Zenon DEF SameCall
<1>2. c'[q].pc = "lock" => ~c'[q].write
  BY Zenon DEF SameCall, CallData
<1>3. c'[q].pc \in {"hold", "changed", "written"} => buf'[c'[q].b].valid
  <2>1. c'[q].pc \in {"hold", "changed", "written"} => c[q].pc \in {"hold", "changed", "written"}
    BY Zenon DEF SameCall
  <2> QED  BY <1>1, <2>1, Busy, Zenon DEF CallData
<1>4. Pending(q)' \/ Answered(q)' => buf'[c'[q].b].valid = c'[q].write
  BY <1>1, Busy, Zenon DEF CallData, SameCall
<1>5. Answered(q)' /\ ~c'[q].write => buf'[c'[q].b].data
  BY <1>1, Busy, Zenon DEF CallData, SameCall
<1>6. (Answered(q)' /\ c'[q].write) \/ c'[q].pc = "written" => store'[c'[q].no]
  BY <1>1, Busy, Zenon DEF CallData, SameCall
<1> QED  BY <1>2, <1>3, <1>4, <1>5, <1>6, Zenon DEF CallData

(* A buffer with the latest version of a block stays one while it keeps its   *)
(* block, the pin and those who write it.                                     *)
LEMMA LatestKept ==
  ASSUME NEW b \in Bufs, NEW n \in Blocks, Latest(b, n),
         buf'[b].no = n, buf'[b].valid, n \in pinned => n \in pinned',
         \A q \in Procs : c[q].b = b /\ c[q].write /\ Pending(q) => SameCall(q)
  PROVE  Latest(b, n)'
<1>1. n \in pinned' \/ \E q \in Procs : c'[q].b = b /\ c'[q].write /\ Pending(q)'
  BY Zenon DEF Latest, SameCall
<1> QED  BY <1>1, Zenon DEF Latest

(* Steps that only pass requests on. *)
LEMMA StillData ==
  ASSUME CallInv, DataInv, UNCHANGED <<store, pinned>>, \A q \in Procs : SameCall(q),
         \A b \in Bufs : /\ buf'[b].no = buf[b].no /\ buf'[b].valid = buf[b].valid
                         /\ buf'[b].data = buf[b].data
  PROVE  DataInv'
<1>1. \A b \in Bufs : buf'[b].valid => buf'[b].data
  BY Zenon DEF DataInv
<1>2. ASSUME NEW n \in Blocks PROVE store'[n] \/ \E b \in Bufs : Latest(b, n)'
  <2>1. CASE store[n]
    BY <2>1, Zenon
  <2>2. CASE \E b \in Bufs : Latest(b, n)
    <3>1. PICK b \in Bufs : Latest(b, n)
      BY <2>2, Zenon
    <3>2. buf'[b].no = n /\ buf'[b].valid
      BY <3>1, Zenon DEF Latest
    <3> QED  BY <3>1, <3>2, LatestKept, Zenon
  <2> QED  BY <2>1, <2>2, Zenon DEF DataInv
<1>3. ASSUME NEW q \in Procs PROVE CallData(q)'
  <2>1. Locking(q) => c[q].b \in Bufs
    BY Zenon DEF CallInv, InCall, Locking
  <2> QED  BY <2>1, CallDataKept, Zenon DEF DataInv
<1> QED  BY <1>1, <1>2, <1>3, Zenon DEF DataInv

(* A process with a buffer's lock changes its own call only, and leaves the   *)
(* other buffers, and the blocks of those that are locked, alone.             *)
LEMMA HolderData ==
  ASSUME IInv, NEW p \in Procs, OtherCalls(p) \/ \A q \in Procs : q # p => Stirred(q), avail' = avail,
         NEW b \in Bufs, b = c[p].b, OtherBufs(b), Locking(p) \/ buf'[b].valid = buf[b].valid,
         buf[b].data => buf'[b].data,
         \A m \in Blocks : m # c[p].no => store'[m] = store[m],
         Locking(p) \/ store' = store,
         NEW q \in Procs, q # p
  PROVE  SameCall(q) /\ CallData(q)'
<1>1. CallInv /\ LookupInv /\ LockInv /\ CallData(q)
  BY Zenon DEF IInv, DataInv
<1>2. SameCall(q)
  BY SameStays, StirredStays, Zenon DEF OtherCalls
<1>3. ASSUME Locking(q)
      PROVE  /\ buf'[c[q].b].valid = buf[c[q].b].valid /\ (buf[c[q].b].data => buf'[c[q].b].data)
             /\ (store[c[q].no] => store'[c[q].no])
  <2>1. c[q].b \in Bufs /\ c[q].no \in Blocks /\ buf[c[q].b].no = c[q].no
    BY <1>1, <1>3, Zenon DEF CallInv, LookupInv, Locking, InCall
  <2>2. CASE Locking(p)
    <3>1. c[q].b # b
      BY <1>1, <1>3, <2>2, OneLocker, Zenon
    <3>2. buf[b].no = c[p].no
      BY <1>1, <2>2, Zenon DEF LookupInv, Locking, InCall
    <3>3. c[p].no \in Blocks
      BY <1>1, <2>2, Zenon DEF CallInv, Locking, InCall
    <3>4. c[q].no # c[p].no
      <4>1. buf[b].no # None
        BY <3>2, <3>3, SizesAssumption, Zenon
      <4>2. \A x, y \in Bufs : buf[x].no = buf[y].no /\ buf[x].no # None => x = y
        BY <1>1, Zenon DEF LookupInv
      <4> QED  BY <2>1, <3>1, <3>2, <4>1, <4>2, Zenon
    <3> QED  BY <2>1, <3>1, <3>4, Zenon DEF OtherBufs
  <2>3. CASE ~Locking(p)
    <3>1. store' = store /\ buf'[b].valid = buf[b].valid
      BY <2>3, Zenon
    <3> QED  BY <2>1, <3>1, Zenon DEF OtherBufs
  <2> QED  BY <2>2, <2>3, Zenon
<1> QED  BY <1>1, <1>2, <1>3, CallDataKept, Zenon

(* ... so that the latest version of a block, but for the one it changes, is  *)
(* where it was.                                                              *)
LEMMA HolderLatest ==
  ASSUME IInv, NEW p \in Procs, NEW m \in Blocks, \A q \in Procs : q # p => SameCall(q),
         ~(Pending(p) /\ c[p].write), store[m] => store'[m], m \in pinned => m \in pinned' \/ store'[m],
         \A x \in Bufs : buf'[x].no = buf[x].no /\ (buf[x].valid => buf'[x].valid)
  PROVE  store'[m] \/ \E x \in Bufs : Latest(x, m)'
<1>1. CASE (\E x \in Bufs : Latest(x, m)) /\ ~store'[m]
  <2>1. PICK x \in Bufs : Latest(x, m)
    BY <1>1, Zenon
  <2>2. buf'[x].no = m /\ buf'[x].valid
    BY <2>1, Zenon DEF Latest
  <2>3. \A q \in Procs : c[q].b = x /\ c[q].write /\ Pending(q) => SameCall(q)
    OBVIOUS
  <2> QED  BY <1>1, <2>1, <2>2, <2>3, LatestKept, Zenon
<1> QED  BY <1>1, Zenon DEF DataInv, IInv

-----------------------------------------------------------------------------
(* The disk answers a request. *)

(* The disk answers the request of a process. *)
LEMMA DiskEffect ==
  ASSUME TypeOK, CallInv, LookupInv, ReqInv, RingInv, DiskAnswer
  PROVE  \E p \in Procs :
           /\ TypeOK' /\ c[p].pc = "disksleep" /\ p \in Waiting /\ c[p].b \in Bufs /\ c[p].no \in Blocks
           /\ c[p].h \in avail /\ avail' = avail \ {c[p].h} /\ used' = Append(used, c[p].h) /\ irq' = TRUE
           /\ UNCHANGED <<lru, free, desc, intr, pinned, c, panicked>>
           /\ \/ /\ c[p].write /\ buf' = buf /\ store'[c[p].no] = buf[c[p].b].data
                 /\ \A n \in Blocks : n # c[p].no => store'[n] = store[n]
              \/ /\ ~c[p].write /\ store' = store /\ OtherBufs(c[p].b)
                 /\ BufIs(buf'[c[p].b], buf[c[p].b].no, buf[c[p].b].ref, buf[c[p].b].valid,
                          buf[c[p].b].disk, buf[c[p].b].lock, store[c[p].no])
<1>1. PICK h \in avail :
        /\ avail' = avail \ {h} /\ used' = Append(used, h)
        /\ IF desc[h].write
           THEN store' = [store EXCEPT ![buf[desc[h].b].no] = buf[desc[h].b].data] /\ UNCHANGED buf
           ELSE buf' = [buf EXCEPT ![desc[h].b].data = store[buf[desc[h].b].no]] /\ UNCHANGED store
  BY Zenon DEF DiskAnswer
<1>2. irq' = TRUE /\ UNCHANGED <<lru, free, desc, intr, pinned, c, panicked>>
  BY Zenon DEF DiskAnswer
<1>3. PICK p \in Procs : c[p].pc = "disksleep" /\ c[p].h = h
  BY Zenon DEF RingInv
<1>4. p \in Waiting
  BY <1>3, Zenon DEF Waiting
<1> DEFINE b == c[p].b
           n == c[p].no
           e == [buf[b] EXCEPT !.data = store[n]]
<1>5. b \in Bufs /\ n \in Blocks /\ h \in Descs /\ desc[h].b = b /\ desc[h].write = c[p].write /\ buf[b].no = n
  BY <1>3, <1>4, Requester, Zenon DEF LookupInv
<1>6. avail' \in SUBSET Descs /\ used' \in Seq(Descs)
  <2>1. used' \in Seq(Descs)
    BY <1>1, <1>5 DEF TypeOK
  <2> QED  BY <1>1, <2>1, Zenon DEF TypeOK
<1>7. CASE c[p].write
  <2>1. store' = [store EXCEPT ![n] = buf[b].data] /\ buf' = buf /\ buf[b].data \in BOOLEAN
    BY <1>1, <1>5, <1>7, Zenon DEF TypeOK, BufType
  <2>2. /\ store' \in [Blocks -> BOOLEAN] /\ store'[n] = buf[b].data
        /\ \A m \in Blocks : m # n => store'[m] = store[m]
    BY <1>5, <2>1, Zenon DEF TypeOK
  <2>3. TypeOK'
    BY <1>2, <1>6, <2>1, <2>2, Zenon DEF TypeOK
  <2> QED  BY <1>1, <1>2, <1>3, <1>4, <1>5, <1>7, <2>1, <2>2, <2>3, Zenon
<1>8. CASE ~c[p].write
  <2>1. buf' = [buf EXCEPT ![b] = e] /\ store' = store
    BY <1>1, <1>5, <1>8, Zenon
  <2>2. buf[b] \in BufType /\ store[n] \in BOOLEAN
    BY <1>5, Zenon DEF TypeOK
  <2>3. BufIs(e, buf[b].no, buf[b].ref, buf[b].valid, buf[b].disk, buf[b].lock, store[n])
    BY <2>2, Zenon DEF BufType, BufIs
  <2>4. buf' \in [Bufs -> BufType] /\ buf'[b] = e /\ OtherBufs(b)
    BY <1>5, <2>1, <2>3, PutBuf, Zenon DEF BufIs
  <2>5. TypeOK'
    BY <1>2, <1>6, <2>1, <2>4, Zenon DEF TypeOK
  <2> HIDE DEF e
  <2> QED  BY <1>1, <1>2, <1>3, <1>4, <1>5, <1>8, <2>1, <2>3, <2>4, <2>5, Zenon
<1> QED  BY <1>7, <1>8, Zenon

LEMMA DiskFrame ==
  ASSUME TypeOK, CallInv, LookupInv, ReqInv, RingInv, DiskAnswer
  PROVE  Frame
<1>1. PICK p \in Procs :
        /\ pinned' = pinned /\ c' = c
        /\ \/ buf' = buf
           \/ /\ OtherBufs(c[p].b)
              /\ BufIs(buf'[c[p].b], buf[c[p].b].no, buf[c[p].b].ref, buf[c[p].b].valid,
                       buf[c[p].b].disk, buf[c[p].b].lock, store[c[p].no])
  BY DiskEffect, Zenon
<1>2. \A x \in Bufs : BufFrame(x)
  BY <1>1, Framed, Zenon DEF BufIs, BufFrame, OtherBufs
<1>3. \A q \in Procs : CallFrame(q)
  BY <1>1, Framed, Zenon
<1> QED  BY <1>1, <1>2, <1>3, Zenon DEF Frame

LEMMA DiskRequests ==
  ASSUME IInv, DiskAnswer
  PROVE  ReqInv' /\ RingInv'
<1>1. TypeOK /\ CallInv /\ LookupInv /\ ReqInv /\ RingInv /\ used \in Seq(Descs)
  BY Zenon DEF IInv, TypeOK
<1>2. PICK p \in Procs :
        /\ c[p].pc = "disksleep" /\ p \in Waiting
        /\ c[p].h \in avail /\ avail' = avail \ {c[p].h} /\ used' = Append(used, c[p].h) /\ irq' = TRUE
        /\ UNCHANGED <<free, desc, c>>
        /\ \/ buf' = buf
           \/ /\ OtherBufs(c[p].b)
              /\ BufIs(buf'[c[p].b], buf[c[p].b].no, buf[c[p].b].ref, buf[c[p].b].valid,
                       buf[c[p].b].disk, buf[c[p].b].lock, store[c[p].no])
  BY <1>1, DiskEffect, Zenon
<1> DEFINE h == c[p].h
<1>3. h \in Descs
  BY <1>1, <1>2, Requester, Zenon
<1>4. \A x \in Bufs : buf'[x].disk = buf[x].disk
  BY <1>2, Zenon DEF OtherBufs, BufIs
<1>5. Waiting' = Waiting
  BY <1>2, Zenon DEF Waiting
<1>6. ReqInv'
  BY <1>1, <1>2, <1>5, ReqKept, Zenon
<1>7. /\ used' = Append(used, h) /\ used' \in Seq(Descs) /\ Len(used') = Len(used) + 1 /\ Len(used) \in Nat
      /\ \A i \in 1..Len(used') : \/ i \in 1..Len(used) /\ used'[i] = used[i]
                                  \/ i = Len(used) + 1 /\ used'[i] = h
      /\ \A i \in 1..Len(used) : i \in 1..Len(used') /\ used'[i] = used[i]
      /\ Len(used) + 1 \in 1..Len(used') /\ used'[Len(used) + 1] = h
  <2> HIDE DEF h
  <2>1. used' = Append(used, h)
    BY <1>2, Zenon DEF h
  <2>2. used' \in Seq(Descs)
    BY <1>1, <1>3, <2>1
  <2> QED  BY <1>1, <1>3, <2>1, <2>2
<1>8. \A d : d \in Range(used') <=> d \in Range(used) \/ d = h
  <2> HIDE DEF h
  <2>1. ASSUME NEW d PROVE d \in Range(used') <=> d \in Range(used) \/ d = h
    <3>1. d \in Range(used') <=> \E i \in 1..Len(used') : used'[i] = d
      BY <1>7, RingRange, Zenon
    <3>2. d \in Range(used) <=> \E i \in 1..Len(used) : used[i] = d
      BY <1>1, RingRange, Zenon
    <3> QED  BY <1>7, <3>1, <3>2, Zenon
  <2> QED  BY <2>1, Zenon
<1>9. \A q \in Procs : c'[q].pc = "disksleep" => c'[q].h \in avail' \cup Range(used')
  BY <1>1, <1>2, <1>8 DEF RingInv
<1>10. \A d \in avail' \cup Range(used') : \E q \in Procs : c'[q].pc = "disksleep" /\ c'[q].h = d
  BY <1>1, <1>2, <1>8 DEF RingInv
<1>11. \A i \in 1..Len(used') : used'[i] \notin avail' /\ \A j \in 1..Len(used') : used'[i] = used'[j] => i = j
  <2>1. \A i \in 1..Len(used) : used[i] # h /\ used[i] \notin avail /\ \A j \in 1..Len(used) : used[i] = used[j] => i = j
    BY <1>1, <1>2, Zenon DEF RingInv
  <2>2. ASSUME NEW i \in 1..Len(used') PROVE used'[i] \notin avail'
    BY <1>2, <1>7, <2>1, <2>2, Zenon
  <2>3. ASSUME NEW i \in 1..Len(used'), NEW j \in 1..Len(used'), used'[i] = used'[j] PROVE i = j
    <3> HIDE DEF h
    <3>1. \/ i \in 1..Len(used) /\ used'[i] = used[i]
          \/ i = Len(used) + 1 /\ used'[i] = h
      BY <1>7, <2>3, Zenon
    <3>2. \/ j \in 1..Len(used) /\ used'[j] = used[j]
          \/ j = Len(used) + 1 /\ used'[j] = h
      BY <1>7, <2>3, Zenon
    <3>3. \A k \in 1..Len(used) : used[k] # h
      BY <2>1, Zenon DEF h
    <3> QED  BY <2>1, <2>3, <3>1, <3>2, <3>3, Zenon
  <2> QED  BY <2>2, <2>3, Zenon
<1>12. \A q \in Procs : c'[q].pc = "woken" => ~buf'[c'[q].b].disk
  <2>1. ASSUME NEW q \in Procs, c[q].pc = "woken" PROVE ~buf'[c[q].b].disk
    <3>1. InCall(q)
      BY <2>1, Zenon DEF InCall
    <3> QED  BY <1>1, <1>4, <2>1, <3>1, Zenon DEF CallInv, RingInv
  <2> QED  BY <1>2, <2>1, Zenon
<1>13. \A q \in Procs : c'[q].pc = "descsleep" => Waiting' # {}
  BY <1>2, <1>5, Zenon
<1> QED  BY <1>2, <1>6, <1>9, <1>10, <1>11, <1>12, <1>13, Zenon DEF RingInv

LEMMA DiskData ==
  ASSUME IInv, DiskAnswer
  PROVE  DataInv'
<1>1. TypeOK /\ CallInv /\ LookupInv /\ LockInv /\ ReqInv /\ RingInv /\ DataInv
  BY Zenon DEF IInv
<1>2. PICK p \in Procs :
        /\ c[p].pc = "disksleep" /\ p \in Waiting /\ c[p].b \in Bufs /\ c[p].no \in Blocks
        /\ c[p].h \in avail /\ avail' = avail \ {c[p].h}
        /\ UNCHANGED <<lru, free, desc, intr, pinned, c, panicked>>
        /\ \/ /\ c[p].write /\ buf' = buf /\ store'[c[p].no] = buf[c[p].b].data
              /\ \A n \in Blocks : n # c[p].no => store'[n] = store[n]
           \/ /\ ~c[p].write /\ store' = store /\ OtherBufs(c[p].b)
              /\ BufIs(buf'[c[p].b], buf[c[p].b].no, buf[c[p].b].ref, buf[c[p].b].valid,
                       buf[c[p].b].disk, buf[c[p].b].lock, store[c[p].no])
  BY <1>1, DiskEffect, Zenon
<1> DEFINE b == c[p].b
           n == c[p].no
<1>3. Pending(p) /\ Locking(p) /\ InCall(p) /\ Answered(p)' /\ ~Pending(p)' /\ c' = c /\ pinned' = pinned
  BY <1>2 DEF Pending, Answered, Locking, InCall
<1>4. buf[b].no = n /\ buf[b].valid = c[p].write
  BY <1>1, <1>3, Zenon DEF LookupInv, DataInv, CallData
<1>5. \A x, y \in Bufs : buf[x].no = buf[y].no /\ buf[x].no # None => x = y
  BY <1>1, Zenon DEF LookupInv
<1>6. n # None
  BY <1>2, SizesAssumption, Zenon
<1>7. ASSUME NEW q \in Procs, q # p PROVE SameCall(q)
  <2>1. c[q].pc = "disksleep" => c[q].h # c[p].h
    <3>1. c[q].pc = "disksleep" => q \in Waiting
      BY Zenon DEF Waiting
    <3> QED  BY <1>1, <1>2, <1>7, <3>1, HeadsApart, Zenon
  <2> QED  BY <1>2, <2>1, SameStays, Zenon
<1>8. \A q \in Procs : Locking(q) => c[q].b \in Bufs /\ c[q].no \in Blocks
  BY <1>1, Zenon DEF CallInv, InCall, Locking
<1>9. CASE /\ c[p].write /\ buf' = buf /\ store'[n] = buf[b].data
           /\ \A m \in Blocks : m # n => store'[m] = store[m]
  <2>1. store'[n]
    BY <1>1, <1>2, <1>4, <1>9, Zenon DEF DataInv
  <2>2. \A m \in Blocks : store[m] => store'[m]
    BY <1>9, <2>1, Zenon
  <2>3. ASSUME NEW q \in Procs, q # p PROVE CallData(q)'
    BY <1>1, <1>7, <1>8, <1>9, <2>2, <2>3, CallDataKept, Zenon DEF DataInv
  <2>4. CallData(p)'
    <3>1. c'[p].pc = "disksleep"
      BY <1>2, <1>3, Zenon
    <3> QED  BY <1>3, <1>4, <1>9, <2>1, <3>1, Zenon DEF CallData
  <2>5. ASSUME NEW m \in Blocks PROVE store'[m] \/ \E x \in Bufs : Latest(x, m)'
    <3>1. CASE m # n /\ \E x \in Bufs : Latest(x, m)
      <4>1. PICK x \in Bufs : Latest(x, m)
        BY <3>1, Zenon
      <4>2. x # b /\ buf'[x].no = m /\ buf'[x].valid
        BY <1>4, <1>9, <3>1, <4>1, Zenon DEF Latest
      <4>3. \A q \in Procs : c[q].b = x /\ c[q].write /\ Pending(q) => SameCall(q)
        BY <1>7, <4>2, Zenon
      <4> QED  BY <1>3, <4>1, <4>2, <4>3, LatestKept, Zenon
    <3> QED  BY <1>1, <2>1, <2>2, <3>1, Zenon DEF DataInv
  <2> QED  BY <1>1, <1>9, <2>3, <2>4, <2>5, Zenon DEF DataInv
<1>10. CASE /\ ~c[p].write /\ store' = store /\ OtherBufs(b)
            /\ BufIs(buf'[b], buf[b].no, buf[b].ref, buf[b].valid, buf[b].disk, buf[b].lock, store[n])
  <2>1. ~buf[b].valid
    BY <1>4, <1>10, Zenon
  <2>2. store[n]
    <3>1. ASSUME NEW x \in Bufs, Latest(x, n) PROVE FALSE
      <4>1. buf[x].no = n /\ buf[x].valid
        BY <3>1, Zenon DEF Latest
      <4> QED  BY <1>2, <1>4, <1>5, <1>6, <2>1, <4>1, Zenon
    <3> QED  BY <1>1, <1>2, <3>1, Zenon DEF DataInv
  <2>3. buf'[b].no = n /\ ~buf'[b].valid /\ buf'[b].valid = buf[b].valid /\ buf'[b].data = store[n]
    BY <1>4, <1>10, <2>1, Zenon DEF BufIs
  <2>4. \A x \in Bufs : x # b => buf'[x] = buf[x]
    BY <1>10, Zenon DEF OtherBufs
  <2>5. ASSUME NEW q \in Procs, q # p PROVE CallData(q)'
    <3>1. Locking(q) => buf'[c[q].b] = buf[c[q].b]
      BY <1>1, <1>3, <1>8, <2>4, <2>5, OneLocker, Zenon
    <3> QED  BY <1>1, <1>7, <1>10, <2>5, <3>1, CallDataKept, Zenon DEF DataInv
  <2>6. CallData(p)'
    <3>1. c'[p].pc = "disksleep"
      BY <1>2, <1>3, Zenon
    <3> QED  BY <1>3, <1>4, <1>10, <2>2, <2>3, <3>1, Zenon DEF CallData
  <2>7. ASSUME NEW m \in Blocks PROVE store'[m] \/ \E x \in Bufs : Latest(x, m)'
    <3>1. CASE \E x \in Bufs : Latest(x, m)
      <4>1. PICK x \in Bufs : Latest(x, m)
        BY <3>1, Zenon
      <4>2. x # b
        BY <2>1, <4>1, Zenon DEF Latest
      <4>3. buf'[x].no = m /\ buf'[x].valid
        BY <2>4, <4>1, <4>2, Zenon DEF Latest
      <4>4. \A q \in Procs : c[q].b = x /\ c[q].write /\ Pending(q) => SameCall(q)
        BY <1>7, <1>10, Zenon
      <4> QED  BY <1>3, <4>1, <4>3, <4>4, LatestKept, Zenon
    <3> QED  BY <1>1, <1>10, <3>1, Zenon DEF DataInv
  <2>8. \A x \in Bufs : buf'[x].valid => buf'[x].data
    BY <1>1, <2>3, <2>4, Zenon DEF DataInv
  <2> QED  BY <2>5, <2>6, <2>7, <2>8, Zenon DEF DataInv
<1> QED  BY <1>2, <1>9, <1>10, Zenon

-----------------------------------------------------------------------------
(* virtio_disk_intr() looks at an answer. *)

(* The answer that virtio_disk_intr() looks at is that of one process, which  *)
(* is the only one it wakes.                                                  *)
LEMMA AnswerEffect ==
  ASSUME TypeOK, CallInv, LockInv, ReqInv, RingInv, IntrAnswer
  PROVE  \E p \in Procs :
           /\ TypeOK' /\ c[p].pc = "disksleep" /\ p \in Waiting /\ c[p].b \in Bufs
           /\ used # <<>> /\ c[p].h = used[1] /\ used' = Tail(used)
           /\ UNCHANGED <<lru, free, desc, avail, irq, intr, store, pinned, panicked>>
           /\ OtherBufs(c[p].b)
           /\ BufIs(buf'[c[p].b], buf[c[p].b].no, buf[c[p].b].ref, buf[c[p].b].valid, FALSE,
                    buf[c[p].b].lock, buf[c[p].b].data)
           /\ OtherCalls(p) /\ CallIs(c'[p], "woken", c[p].no, c[p].b, c[p].write, c[p].h)
<1>1. used # <<>> /\ used' = Tail(used) /\ UNCHANGED <<lru, free, desc, avail, irq, intr, store, pinned, panicked>>
  BY Zenon DEF IntrAnswer
<1>2. Head(used) = used[1] /\ 1 \in DOMAIN used /\ Tail(used) \in Seq(Descs)
  BY <1>1 DEF TypeOK
<1>3. PICK p \in Procs : c[p].pc = "disksleep" /\ c[p].h = used[1]
  BY <1>2, Zenon DEF RingInv, Range
<1>4. p \in Waiting
  BY <1>3, Zenon DEF Waiting
<1> DEFINE b == c[p].b
           e == [buf[b] EXCEPT !.disk = FALSE]
           r(q) == [c[q] EXCEPT !.pc = "woken"]
<1>5. b \in Bufs /\ desc[Head(used)].b = b
  BY <1>2, <1>3, <1>4, Requester, Zenon
<1>6. /\ buf' = [buf EXCEPT ![b] = e]
      /\ c' = [q \in Procs |-> IF c[q].pc = "disksleep" /\ c[q].b = b THEN r(q) ELSE c[q]]
  BY <1>5, Zenon DEF IntrAnswer
<1>7. BufIs(e, buf[b].no, buf[b].ref, buf[b].valid, FALSE, buf[b].lock, buf[b].data)
  <2>1. buf[b] \in BufType
    BY <1>5, Zenon DEF TypeOK
  <2> QED  BY <2>1, Zenon DEF BufType, BufIs
<1>8. buf' \in [Bufs -> BufType] /\ buf'[b] = e /\ OtherBufs(b)
  BY <1>5, <1>6, <1>7, PutBuf, Zenon DEF BufIs
<1>9. \A q \in Procs : c[q] \in CallType /\ CallIs(r(q), "woken", c[q].no, c[q].b, c[q].write, c[q].h)
  <2>1. \A q \in Procs : c[q] \in CallType
    BY Zenon DEF TypeOK
  <2> QED  BY <2>1, Zenon DEF CallType, CallIs, Pcs
<1>10. c' \in [Procs -> CallType]
  BY <1>6, <1>9, Zenon DEF CallIs
<1>11. \A q \in Procs : c[q].pc = "disksleep" /\ c[q].b = b => q = p
  BY <1>3, OneLocker, Zenon DEF Locking
<1>12. c'[p] = r(p) /\ OtherCalls(p)
  BY <1>3, <1>6, <1>11, Zenon DEF OtherCalls
<1>13. TypeOK'
  BY <1>1, <1>2, <1>8, <1>10, Zenon DEF TypeOK
<1> HIDE DEF e, r
<1> QED  BY <1>1, <1>3, <1>4, <1>5, <1>7, <1>8, <1>9, <1>12, <1>13, Zenon

LEMMA AnswerFrame ==
  ASSUME TypeOK, CallInv, LockInv, ReqInv, RingInv, IntrAnswer
  PROVE  Frame
<1>1. PICK p \in Procs :
        /\ c[p].pc = "disksleep" /\ pinned' = pinned /\ OtherBufs(c[p].b) /\ OtherCalls(p)
        /\ BufIs(buf'[c[p].b], buf[c[p].b].no, buf[c[p].b].ref, buf[c[p].b].valid, FALSE,
                 buf[c[p].b].lock, buf[c[p].b].data)
        /\ CallIs(c'[p], "woken", c[p].no, c[p].b, c[p].write, c[p].h)
  BY AnswerEffect, Zenon
<1>2. \A x \in Bufs : BufFrame(x)
  BY <1>1, Framed, Zenon DEF BufIs, BufFrame, OtherBufs
<1>3. CallFrame(p)
  BY <1>1 DEF CallIs, CallFrame, InCall, Locking
<1>4. \A q \in Procs : CallFrame(q)
  BY <1>1, <1>3, Framed, Zenon DEF OtherCalls
<1> QED  BY <1>1, <1>2, <1>4, Zenon DEF Frame

LEMMA AnswerRequests ==
  ASSUME IInv, IntrAnswer
  PROVE  ReqInv' /\ RingInv'
<1>1. TypeOK /\ CallInv /\ LockInv /\ ReqInv /\ RingInv /\ used \in Seq(Descs)
  BY Zenon DEF IInv, TypeOK
<1>2. PICK p \in Procs :
        /\ c[p].pc = "disksleep" /\ p \in Waiting /\ c[p].b \in Bufs
        /\ used # <<>> /\ c[p].h = used[1] /\ used' = Tail(used)
        /\ UNCHANGED <<free, desc, avail, irq, intr>>
        /\ OtherBufs(c[p].b)
        /\ BufIs(buf'[c[p].b], buf[c[p].b].no, buf[c[p].b].ref, buf[c[p].b].valid, FALSE,
                 buf[c[p].b].lock, buf[c[p].b].data)
        /\ OtherCalls(p) /\ CallIs(c'[p], "woken", c[p].no, c[p].b, c[p].write, c[p].h)
  BY <1>1, AnswerEffect, Zenon
<1>3. \A q \in Procs : q # p => c'[q] = c[q]
  BY <1>2, Zenon DEF OtherCalls
<1>4. c'[p].pc = "woken" /\ c'[p].b = c[p].b /\ c'[p].write = c[p].write /\ c'[p].h = c[p].h
  BY <1>2, Zenon DEF CallIs
<1>5. \A x \in Bufs : buf'[x].disk => buf[x].disk /\ x # c[p].b
  BY <1>2 DEF OtherBufs, BufIs
<1>6. /\ Waiting' = Waiting
      /\ \A q \in Waiting : c'[q].h = c[q].h /\ c'[q].b = c[q].b /\ c'[q].write = c[q].write
  <2>1. \A q \in Procs : q # p => (q \in Waiting' <=> q \in Waiting)
    BY <1>3, Zenon DEF Waiting
  <2>2. p \in Waiting' /\ p \in Waiting
    BY <1>2, <1>4, Zenon DEF Waiting
  <2>3. Waiting \subseteq Procs /\ Waiting' \subseteq Procs
    BY Zenon DEF Waiting
  <2> QED  BY <1>3, <1>4, <2>1, <2>2, <2>3
<1>7. ReqInv'
  BY <1>1, <1>2, <1>6, ReqKept, Zenon
<1>8. \A i \in 1..Len(used) : used[i] \notin avail /\ \A j \in 1..Len(used) : used[i] = used[j] => i = j
  BY <1>1, Zenon DEF RingInv
<1>9. /\ used' \in Seq(Descs) /\ 1 \in 1..Len(used)
      /\ \A i \in 1..Len(used') : i + 1 \in 1..Len(used) /\ i + 1 # 1 /\ used'[i] = used[i + 1]
      /\ \A i \in 1..Len(used) : i = 1 \/ \E j \in 1..Len(used') : used'[j] = used[i]
  BY <1>1, <1>2, RingTail, Zenon
<1>10. \A q \in Procs : c'[q].pc = "disksleep" => c'[q].h \in avail' \cup Range(used')
  <2>1. ASSUME NEW q \in Procs, c'[q].pc = "disksleep" PROVE c'[q].h \in avail \cup Range(used')
    <3>1. q # p /\ c'[q] = c[q] /\ q \in Waiting
      BY <1>3, <1>4, <2>1 DEF Waiting
    <3>2. c[q].h # used[1]
      BY <1>1, <1>2, <3>1, HeadsApart, Zenon
    <3>3. c[q].h \in avail \/ c[q].h \in Range(used)
      BY <1>1, <2>1, <3>1, Zenon DEF RingInv
    <3>4. CASE c[q].h \in Range(used)
      <4>1. PICK i \in 1..Len(used) : used[i] = c[q].h
        BY <1>1, <3>4, RingRange, Zenon
      <4>2. \E j \in 1..Len(used') : used'[j] = c[q].h
        <5>1. i = 1 \/ \E j \in 1..Len(used') : used'[j] = used[i]
          BY <1>9, Zenon
        <5> QED  BY <3>2, <4>1, <5>1, Zenon
      <4> QED  BY <1>9, <3>1, <4>2, RingRange, Zenon
    <3> QED  BY <3>1, <3>3, <3>4, Zenon
  <2> QED  BY <1>2, <2>1, Zenon
<1>11. \A d \in avail' \cup Range(used') : \E q \in Procs : c'[q].pc = "disksleep" /\ c'[q].h = d
  <2>1. ASSUME NEW d \in avail \cup Range(used') PROVE \E q \in Procs : c'[q].pc = "disksleep" /\ c'[q].h = d
    <3>1. d # used[1] /\ d \in avail \cup Range(used)
      <4>1. CASE d \in avail
        BY <1>8, <1>9, <4>1, Zenon
      <4>2. CASE d \in Range(used')
        <5>1. PICK i \in 1..Len(used') : used'[i] = d
          BY <1>9, <4>2, RingRange, Zenon
        <5>2. i + 1 \in 1..Len(used) /\ i + 1 # 1 /\ d = used[i + 1]
          BY <1>9, <5>1, Zenon
        <5> QED  BY <1>1, <1>8, <1>9, <5>2, RingRange, Zenon
      <4> QED  BY <2>1, <4>1, <4>2, Zenon
    <3>2. PICK q \in Procs : c[q].pc = "disksleep" /\ c[q].h = d
      BY <1>1, <3>1, Zenon DEF RingInv
    <3>3. q # p /\ c'[q] = c[q]
      BY <1>2, <1>3, <3>1, <3>2, Zenon
    <3> QED  BY <3>2, <3>3, Zenon
  <2> QED  BY <1>2, <2>1, Zenon
<1>12. \A i \in 1..Len(used') : used'[i] \notin avail' /\ \A j \in 1..Len(used') : used'[i] = used'[j] => i = j
  <2>1. ASSUME NEW i \in 1..Len(used') PROVE used'[i] \notin avail
    BY <1>8, <1>9, Zenon
  <2>2. ASSUME NEW i \in 1..Len(used'), NEW j \in 1..Len(used'), used'[i] = used'[j] PROVE i = j
    <3>1. i + 1 \in 1..Len(used) /\ j + 1 \in 1..Len(used) /\ used[i + 1] = used[j + 1]
      BY <1>9, <2>2
    <3>2. i + 1 = j + 1
      BY <1>8, <3>1, Zenon
    <3> QED  BY <2>2, <3>2
  <2> QED  BY <1>2, <2>1, <2>2, Zenon
<1>13. \A q \in Procs : c'[q].pc = "woken" => ~buf'[c'[q].b].disk
  <2>1. ASSUME NEW q \in Procs, c'[q].pc = "woken" PROVE ~buf'[c'[q].b].disk
    <3>1. CASE q = p
      BY <1>2, <1>4, <1>5, <3>1, Zenon
    <3>2. CASE q # p
      <4>1. c'[q] = c[q] /\ InCall(q)
        BY <1>3, <2>1, <3>2 DEF InCall
      <4>2. c[q].b \in Bufs /\ ~buf[c[q].b].disk
        BY <1>1, <2>1, <4>1, Zenon DEF CallInv, RingInv
      <4> QED  BY <1>5, <4>1, <4>2, Zenon
    <3> QED  BY <3>1, <3>2, Zenon
  <2> QED  BY <2>1, Zenon
<1>14. \A q \in Procs : c'[q].pc = "descsleep" => Waiting' # {}
  BY <1>2, <1>6, Zenon
<1>15. used' # <<>> => irq' \/ intr'
  BY <1>1, <1>2, Zenon DEF RingInv
<1> QED  BY <1>7, <1>10, <1>11, <1>12, <1>13, <1>14, <1>15, Zenon DEF RingInv

LEMMA AnswerData ==
  ASSUME IInv, IntrAnswer
  PROVE  DataInv'
<1>1. TypeOK /\ CallInv /\ LockInv /\ ReqInv /\ RingInv /\ DataInv /\ used \in Seq(Descs)
  BY Zenon DEF IInv, TypeOK
<1>2. PICK p \in Procs :
        /\ c[p].pc = "disksleep" /\ used # <<>> /\ c[p].h = used[1]
        /\ UNCHANGED <<lru, free, desc, avail, irq, intr, store, pinned, panicked>>
        /\ OtherBufs(c[p].b)
        /\ BufIs(buf'[c[p].b], buf[c[p].b].no, buf[c[p].b].ref, buf[c[p].b].valid, FALSE,
                 buf[c[p].b].lock, buf[c[p].b].data)
        /\ OtherCalls(p) /\ CallIs(c'[p], "woken", c[p].no, c[p].b, c[p].write, c[p].h)
  BY <1>1, AnswerEffect, Zenon
<1>3. c[p].h \notin avail
  <2>1. 1 \in 1..Len(used)
    BY <1>1, <1>2, RingTail, Zenon
  <2> QED  BY <1>1, <1>2, <2>1, Zenon DEF RingInv
<1>4. \A q \in Procs : q # p => SameCall(q)
  BY <1>2, SameStays, Zenon DEF OtherCalls
<1>5. SameCall(p)
  BY <1>2, <1>3, Zenon DEF CallIs, SameCall, Pending, Answered
<1>6. \A x \in Bufs : buf'[x].no = buf[x].no /\ buf'[x].valid = buf[x].valid /\ buf'[x].data = buf[x].data
  BY <1>2, Zenon DEF OtherBufs, BufIs
<1> QED  BY <1>1, <1>2, <1>4, <1>5, <1>6, StillData, Zenon

(* The interrupt handler begins and ends, or nothing changes. *)
LEMMA QuietStep ==
  ASSUME IInv, IntrAck \/ IntrEnd \/ UNCHANGED vars
  PROVE  IInv'
<1>1. UNCHANGED <<buf, lru, free, desc, avail, used, store, pinned, c, panicked>>
  BY Zenon DEF IntrAck, IntrEnd, vars, disk
<1>2. irq' \in BOOLEAN /\ intr' \in BOOLEAN /\ (used # <<>> => irq' \/ intr')
  BY Zenon DEF IntrAck, IntrEnd, vars, disk, IInv, TypeOK, RingInv
<1>3. TypeOK'
  BY <1>1, <1>2, Zenon DEF IInv, TypeOK
<1>4. Frame
  BY <1>1, Framed, Zenon DEF Frame
<1>5. CallInv' /\ LookupInv' /\ LockInv' /\ PanicsOnlyFull'
  BY <1>1, <1>4, FrameKeeps, Zenon DEF IInv, PanicsOnlyFull
<1>6. DataInv'
  <2>1. \A q \in Procs : SameCall(q)
    BY <1>1, SameStays, Zenon
  <2> QED  BY <1>1, <2>1, StillData, Zenon DEF IInv
<1>7. Waiting' = Waiting
  BY <1>1, Zenon DEF Waiting
<1>8. ReqInv'
  BY <1>1, <1>7, ReqKept, Zenon DEF IInv
<1>9. RingInv'
  BY <1>1, <1>2, <1>7, ZenonT(60) DEF IInv, RingInv
<1> QED  BY <1>3, <1>5, <1>6, <1>8, <1>9, Zenon DEF IInv

-----------------------------------------------------------------------------
(* acquiresleep(), and the end of bread() and bwrite(). *)

LEMMA LockEffect ==
  ASSUME TypeOK, CallInv, NEW p \in Procs, Lock(p), NEW b, b = c[p].b
  PROVE  /\ TypeOK' /\ c[p].pc = "lock" /\ b \in Bufs /\ buf[b].lock = None
         /\ UNCHANGED <<lru, disk, store, pinned, panicked>>
         /\ OtherCalls(p) /\ OtherBufs(b)
         /\ CallIs(c'[p], IF buf[b].valid THEN "hold" ELSE "rw", c[p].no, b, c[p].write, c[p].h)
         /\ BufIs(buf'[b], buf[b].no, buf[b].ref, buf[b].valid, buf[b].disk, p, buf[b].data)
<1> DEFINE x == IF buf[b].valid THEN "hold" ELSE "rw"
           e == [buf[b] EXCEPT !.lock = p]
           r == [c[p] EXCEPT !.pc = x]
<1>1. c[p].pc = "lock" /\ b \in Bufs /\ buf[b].lock = None /\ UNCHANGED <<lru, disk, store, pinned, panicked>>
  BY Zenon DEF Lock, At, CallInv, InCall
<1>2. buf' = [buf EXCEPT ![b] = e] /\ c' = [c EXCEPT ![p] = r]
  BY Zenon DEF Lock
<1>3. BufIs(e, buf[b].no, buf[b].ref, buf[b].valid, buf[b].disk, p, buf[b].data)
  <2>1. buf[b] \in BufType
    BY <1>1, Zenon DEF TypeOK
  <2> QED  BY <2>1, Zenon DEF BufType, BufIs
<1>4. CallIs(r, x, c[p].no, b, c[p].write, c[p].h)
  <2>1. x \in Pcs
    BY Zenon DEF Pcs
  <2>2. c[p] \in CallType
    BY Zenon DEF TypeOK
  <2> HIDE DEF x
  <2> QED  BY <2>1, <2>2, Zenon DEF CallType, CallIs
<1>5. buf' \in [Bufs -> BufType] /\ buf'[b] = e /\ OtherBufs(b)
  BY <1>1, <1>2, <1>3, PutBuf, Zenon DEF BufIs
<1>6. c' \in [Procs -> CallType] /\ c'[p] = r /\ OtherCalls(p)
  BY <1>2, <1>4, PutCall, Zenon DEF CallIs
<1> QED  BY <1>1, <1>3, <1>4, <1>5, <1>6, Zenon DEF TypeOK, disk

(* The steps between acquiresleep() and releasesleep() keep lookups. *)
LEMMA LockLookup ==
  ASSUME TypeOK, CallInv, LookupInv, LockInv, NEW p \in Procs, Lock(p)
  PROVE  CallInv' /\ LookupInv' /\ LockInv'
<1> DEFINE b == c[p].b
<1>1. /\ b \in Bufs /\ InCall(p) /\ buf[b].lock = None /\ pinned' = pinned
      /\ OtherCalls(p) /\ OtherBufs(b) /\ InCall(p)' /\ c'[p].b = b /\ c'[p].no = c[p].no
      /\ buf'[b].no = buf[b].no /\ buf'[b].ref = buf[b].ref /\ buf'[b].lock = p
  <2>1. c[p].pc = "lock" /\ b \in Bufs /\ buf[b].lock = None /\ pinned' = pinned /\ OtherCalls(p) /\ OtherBufs(b)
    BY LockEffect, Zenon
  <2>2. /\ CallIs(c'[p], IF buf[b].valid THEN "hold" ELSE "rw", c[p].no, b, c[p].write, c[p].h)
        /\ BufIs(buf'[b], buf[b].no, buf[b].ref, buf[b].valid, buf[b].disk, p, buf[b].data)
    BY LockEffect, Zenon
  <2> QED  BY <2>1, <2>2, Zenon DEF CallIs, BufIs, InCall
<1> USE DEF OtherCalls, OtherBufs
<1>2. \A x \in Bufs : buf'[x].no = buf[x].no /\ buf'[x].ref = buf[x].ref
  BY <1>1, Zenon
<1>3. \A q \in Procs : c'[q].no = c[q].no /\ c'[q].b = c[q].b /\ (InCall(q)' <=> InCall(q))
  BY <1>1, Zenon DEF InCall
<1> HIDE DEF b
<1>4. CallInv'
  BY <1>3, Zenon DEF CallInv
<1>5. LockInv'
  <2>1. ASSUME NEW q \in Procs, Locking(q)' PROVE buf'[c'[q].b].lock = q
    <3>1. CASE q = p
      BY <1>1, <3>1, Zenon
    <3>2. CASE q # p
      <4>1. c'[q] = c[q] /\ Locking(q) /\ c[q].b \in Bufs
        BY <1>1, <2>1, <3>2, Zenon DEF Locking, CallInv, InCall
      <4>2. c[q].b # b
        BY <1>1, <4>1, Apart, Zenon DEF LockInv
      <4> QED  BY <1>1, <4>1, <4>2, Zenon DEF LockInv
    <3> QED  BY <3>1, <3>2, Zenon
  <2> QED  BY <2>1, Zenon DEF LockInv
<1>6. \A x \in Bufs : Users(x)' = Users(x) /\ Pins(x)' = Pins(x)
  BY <1>1, <1>2, <1>3, Zenon DEF Users, Pins
<1>7. \A x \in Bufs : buf'[x].ref = Cardinality(Users(x)') + Pins(x)'
  <2>1. \A x \in Bufs : buf[x].ref = Cardinality(Users(x)) + Pins(x)
    BY Zenon DEF LookupInv
  <2> QED  BY <1>2, <1>6, <2>1, Zenon
<1>8. \A a, x \in Bufs : buf'[a].no = buf'[x].no /\ buf'[a].no # None => a = x
  BY <1>2 DEF LookupInv
<1>9. \A q \in Procs : InCall(q)' => buf'[c'[q].b].no = c'[q].no
  BY <1>2, <1>3 DEF LookupInv, CallInv
<1>10. \A m \in pinned' : \E x \in Bufs : buf'[x].no = m
  BY <1>1, <1>2 DEF LookupInv
<1> QED  BY <1>4, <1>5, <1>7, <1>8, <1>9, <1>10, Zenon DEF LookupInv

LEMMA LockData ==
  ASSUME IInv, NEW p \in Procs, Lock(p)
  PROVE  DataInv'
<1> DEFINE b == c[p].b
<1>1. TypeOK /\ CallInv /\ DataInv /\ CallData(p)
  BY Zenon DEF IInv, DataInv
<1>2. /\ c[p].pc = "lock" /\ b \in Bufs /\ UNCHANGED <<lru, disk, store, pinned, panicked>>
      /\ OtherCalls(p) /\ OtherBufs(b)
  BY <1>1, LockEffect, Zenon
<1>3. CallIs(c'[p], IF buf[b].valid THEN "hold" ELSE "rw", c[p].no, b, c[p].write, c[p].h)
  BY <1>1, LockEffect, Zenon
<1>4. BufIs(buf'[b], buf[b].no, buf[b].ref, buf[b].valid, buf[b].disk, p, buf[b].data)
  BY <1>1, LockEffect, Zenon
<1>5. \A x \in Bufs : buf'[x].no = buf[x].no /\ buf'[x].valid = buf[x].valid /\ buf'[x].data = buf[x].data
  BY <1>2, <1>4, Zenon DEF OtherBufs, BufIs
<1>6. store' = store /\ pinned' = pinned /\ avail' = avail
  BY <1>2, Zenon DEF disk
<1>7. \A q \in Procs : q # p => SameCall(q) /\ CallData(q)'
  BY <1>2, <1>5, <1>6, HolderData, Zenon
<1>8. ~Pending(p)
  BY <1>2 DEF Pending
<1>9. \A m \in Blocks : store'[m] \/ \E x \in Bufs : Latest(x, m)'
  BY <1>5, <1>6, <1>7, <1>8, HolderLatest, Zenon
<1>10. CallData(p)'
  <2>1. c[p].write = FALSE /\ buf[b].valid \in BOOLEAN
    <3>1. c[p] \in CallType /\ buf[b] \in BufType
      BY <1>1, <1>2, Zenon DEF TypeOK
    <3>2. c[p].write \in BOOLEAN /\ buf[b].valid \in BOOLEAN
      BY <3>1, Zenon DEF CallType, BufType
    <3> QED  BY <1>1, <1>2, <3>2, Zenon DEF CallData
  <2>2. c'[p].b = b /\ c'[p].write = FALSE /\ buf'[b].valid = buf[b].valid
    BY <1>2, <1>3, <1>5, <2>1, Zenon DEF CallIs
  <2>3. CASE buf[b].valid
    <3>1. c'[p].pc = "hold"
      BY <1>3, <2>3, Zenon DEF CallIs
    <3> QED  BY <2>2, <2>3, <3>1 DEF CallData, Pending, Answered
  <2>4. CASE ~buf[b].valid
    <3>1. c'[p].pc = "rw"
      BY <1>3, <2>4, Zenon DEF CallIs
    <3> QED  BY <2>1, <2>2, <2>4, <3>1, Zenon DEF CallData, Pending, Answered
  <2> QED  BY <2>3, <2>4, Zenon
<1>11. \A x \in Bufs : buf'[x].valid => buf'[x].data
  BY <1>1, <1>5, Zenon DEF DataInv
<1> QED  BY <1>7, <1>9, <1>10, <1>11, Zenon DEF DataInv

-----------------------------------------------------------------------------
(* Finite sets. *)

(* The facts about finite sets and least elements that the proofs use. They   *)
(* are a hypothesis of the lemmas, and proved at the end from the library's   *)
(* theorems (CountingHolds): what is in scope of a step is what slows its     *)
(* proof down, and those theorems are many. Listed and Size spell out what    *)
(* IsFiniteSet and Cardinality are.                                           *)
Listed(S) == \E seq \in Seq(S) : \A s \in S : \E n \in 1..Len(seq) : seq[n] = s
Size(S) ==
  LET CS[T \in SUBSET S] == IF T = {} THEN 0 ELSE 1 + CS[T \ {CHOOSE x : x \in T}]
  IN  CS[S]
SizeOfSets ==
  /\ \A S : Listed(S) => Size(S) \in Nat /\ (Size(S) = 0 <=> S = {})
  /\ Listed({}) /\ Size({}) = 0
  /\ \A x : Listed({x}) /\ Size({x}) = 1
  /\ \A m, n \in Int : Listed(m..n) /\ Size(m..n) = IF m > n THEN 0 ELSE n - m + 1
  /\ \A S : Listed(S) => \A T \in SUBSET S : Listed(T)
OneMoreOrLess ==
  \A S, x : Listed(S) =>
    /\ Listed(S \cup {x}) /\ Listed(S \ {x})
    /\ Size(S \cup {x}) = IF x \in S THEN Size(S) ELSE Size(S) + 1
    /\ Size(S \ {x}) = IF x \in S THEN Size(S) - 1 ELSE Size(S)
SizeOfDifference == \A S, T : Listed(S) => Size(S \ T) = Size(S) - Size(S \cap T)
SizeOfUnion ==
  \A S, T : Listed(S) /\ Listed(T) => Size(S \cup T) = Size(S) + Size(T) - Size(S \cap T)
SameSize ==
  \A S, T, f : /\ Listed(S) /\ f \in [S -> T]
               /\ \A x, y \in S : f[x] = f[y] => x = y
               /\ \A y \in T : \E x \in S : f[x] = y
               => Size(T) = Size(S)
LeastOfNats == \A S : S \subseteq Nat /\ S # {} => Min(S) \in S /\ \A x \in S : Min(S) <= x
Counting ==
  SizeOfSets /\ OneMoreOrLess /\ SizeOfDifference /\ SizeOfUnion /\ SameSize /\ LeastOfNats

LEMMA FiniteIs == \A S : IsFiniteSet(S) <=> Listed(S)
BY DEF IsFiniteSet, Listed

LEMMA SizeIs == \A S : Cardinality(S) = Size(S)
BY DEF Cardinality, Size

LEMMA FinCardinality ==
  ASSUME Counting, NEW S, IsFiniteSet(S)
  PROVE  Cardinality(S) \in Nat
BY FiniteIs, SizeIs, Zenon DEF Counting, SizeOfSets

LEMMA FinEmpty ==
  ASSUME Counting
  PROVE  /\ IsFiniteSet({}) /\ Cardinality({}) = 0
         /\ \A S : IsFiniteSet(S) => (Cardinality(S) = 0 <=> S = {})
BY FiniteIs, SizeIs, Zenon DEF Counting, SizeOfSets

LEMMA FinSingleton ==
  ASSUME Counting
  PROVE  \A x : IsFiniteSet({x}) /\ Cardinality({x}) = 1
BY FiniteIs, SizeIs, Zenon DEF Counting, SizeOfSets

LEMMA FinInterval ==
  ASSUME Counting, NEW m \in Int, NEW n \in Int
  PROVE  IsFiniteSet(m..n) /\ Cardinality(m..n) = IF m > n THEN 0 ELSE n - m + 1
<1>1. Listed(m..n) /\ Size(m..n) = IF m > n THEN 0 ELSE n - m + 1
  BY Zenon DEF Counting, SizeOfSets
<1> QED  BY <1>1, FiniteIs, SizeIs, Zenon

LEMMA FinSubset ==
  ASSUME Counting, NEW S, IsFiniteSet(S), NEW T \in SUBSET S
  PROVE  IsFiniteSet(T)
BY FiniteIs, Zenon DEF Counting, SizeOfSets

LEMMA FinAdd ==
  ASSUME Counting, NEW S, NEW x, IsFiniteSet(S)
  PROVE  /\ IsFiniteSet(S \cup {x})
         /\ Cardinality(S \cup {x}) = IF x \in S THEN Cardinality(S) ELSE Cardinality(S) + 1
<1>1. Listed(S \cup {x}) /\ Size(S \cup {x}) = IF x \in S THEN Size(S) ELSE Size(S) + 1
  BY FiniteIs, Zenon DEF Counting, OneMoreOrLess
<1> QED  BY <1>1, FiniteIs, SizeIs, Zenon

LEMMA FinRemove ==
  ASSUME Counting, NEW S, NEW x, IsFiniteSet(S)
  PROVE  /\ IsFiniteSet(S \ {x})
         /\ Cardinality(S \ {x}) = IF x \in S THEN Cardinality(S) - 1 ELSE Cardinality(S)
<1>1. Listed(S \ {x}) /\ Size(S \ {x}) = IF x \in S THEN Size(S) - 1 ELSE Size(S)
  BY FiniteIs, Zenon DEF Counting, OneMoreOrLess
<1> QED  BY <1>1, FiniteIs, SizeIs, Zenon

LEMMA FinUnion ==
  ASSUME Counting, NEW S, IsFiniteSet(S), NEW T, IsFiniteSet(T)
  PROVE  Cardinality(S \cup T) = Cardinality(S) + Cardinality(T) - Cardinality(S \cap T)
<1>1. Size(S \cup T) = Size(S) + Size(T) - Size(S \cap T)
  BY FiniteIs, Zenon DEF Counting, SizeOfUnion
<1> QED  BY <1>1, SizeIs, Zenon

LEMMA FinDifference ==
  ASSUME Counting, NEW S, NEW T, IsFiniteSet(S)
  PROVE  Cardinality(S \ T) = Cardinality(S) - Cardinality(S \cap T)
<1>1. Size(S \ T) = Size(S) - Size(S \cap T)
  BY FiniteIs, Zenon DEF Counting, SizeOfDifference
<1> QED  BY <1>1, SizeIs, Zenon

LEMMA FinBijection ==
  ASSUME Counting, NEW S, NEW T, IsFiniteSet(S), NEW f \in [S -> T],
         \A x, y \in S : f[x] = f[y] => x = y,
         \A y \in T : \E x \in S : f[x] = y
  PROVE  Cardinality(T) = Cardinality(S)
<1>1. Size(T) = Size(S)
  BY FiniteIs, Zenon DEF Counting, SameSize
<1> QED  BY <1>1, SizeIs, Zenon

(* A set of naturals that is not empty has a least element, and one that is   *)
(* bounded a greatest.                                                        *)
LEMMA LeastNat ==
  ASSUME Counting, NEW S, S \subseteq Nat, S # {}
  PROVE  Min(S) \in S /\ \A x \in S : Min(S) <= x
BY Zenon DEF Counting, LeastOfNats

LEMMA GreatestNat ==
  ASSUME Counting, NEW m \in Nat, NEW S, S \subseteq 1..m, S # {}
  PROVE  Max(S) \in S
<1> DEFINE T == {m - x : x \in S}
<1>1. T \subseteq Nat /\ T # {}
  <2>1. \A x \in S : m - x \in Nat
    OBVIOUS
  <2> QED  BY <2>1, Zenon
<1>2. PICK x \in S : Min(T) = m - x
  BY <1>1, LeastNat, Zenon
<1>3. \A y \in S : m - x <= m - y
  BY <1>1, <1>2, LeastNat, Zenon
<1>4. \A y \in S : x >= y
  BY <1>3
<1> QED  BY <1>4, Zenon DEF Max

(* The users of a buffer can be counted, and a call uses its buffer. *)
LEMMA UsersFinite ==
  ASSUME Counting, NEW b \in Bufs
  PROVE  /\ IsFiniteSet(Users(b)) /\ Cardinality(Users(b)) \in Nat
         /\ Cardinality(Users(b)) = 0 <=> Users(b) = {}
<1>1. IsFiniteSet(Users(b))
  <2>1. Users(b) \subseteq Procs
    BY Zenon DEF Users
  <2> QED  BY <2>1, SizesAssumption, FinSubset, Zenon
<1> QED  BY <1>1, FinCardinality, FinEmpty, Zenon

LEMMA UserCounted ==
  ASSUME Counting, TypeOK, CallInv, LookupInv, NEW p \in Procs, InCall(p), NEW b, b = c[p].b
  PROVE  /\ b \in Bufs /\ buf[b].ref \in Nat /\ buf[b].ref >= 1
         /\ c[p].no \in pinned => buf[b].ref >= 2
<1>1. b \in Bufs /\ buf[b].no = c[p].no /\ p \in Users(b) /\ buf[b].ref = Cardinality(Users(b)) + Pins(b)
  BY Zenon DEF CallInv, LookupInv, Users
<1>2. Cardinality(Users(b)) \in Nat /\ Cardinality(Users(b)) # 0
  BY <1>1, UsersFinite, Zenon
<1>3. Pins(b) = IF c[p].no \in pinned THEN 1 ELSE 0
  BY <1>1, Zenon DEF Pins
<1> QED  BY <1>1, <1>2, <1>3

(* A buffer without references has no users and no pin. *)
LEMMA NoReferences ==
  ASSUME Counting, TypeOK, LookupInv, NEW b \in Bufs, buf[b].ref = 0
  PROVE  Users(b) = {} /\ buf[b].no \notin pinned
<1>1. Cardinality(Users(b)) \in Nat /\ Cardinality(Users(b)) + Pins(b) = 0
  BY UsersFinite, Zenon DEF LookupInv
<1>2. Pins(b) \in {0, 1}
  BY Zenon DEF Pins
<1>3. Cardinality(Users(b)) = 0 /\ Pins(b) = 0
  BY <1>1, <1>2
<1>4. buf[b].no \notin pinned
  <2>1. 1 # 0
    OBVIOUS
  <2> QED  BY <1>3, <2>1, Zenon DEF Pins
<1> QED  BY <1>3, <1>4, UsersFinite, Zenon

(* Requests can be counted. *)
LEMMA Finite ==
  ASSUME Counting, TypeOK
  PROVE  /\ IsFiniteSet(Waiting) /\ Cardinality(Waiting) \in Nat
         /\ IsFiniteSet(free) /\ Cardinality(free) \in Nat
<1>1. IsFiniteSet(Waiting)
  <2>1. Waiting \subseteq Procs
    BY Zenon DEF Waiting
  <2> QED  BY <2>1, SizesAssumption, FinSubset, Zenon
<1>2. IsFiniteSet(free)
  <2>1. IsFiniteSet(0..NUM - 1)
    BY FinInterval, SizesAssumption
  <2> QED  BY <2>1, FinSubset, Zenon DEF TypeOK, Descs
<1> QED  BY <1>1, <1>2, FinCardinality, Zenon

(* The least recently used buffer is one that nobody refers to. *)
LEMMA LruUnused ==
  ASSUME Counting, TypeOK, Unused # {}
  PROVE  lru[Max(Unused)] \in Bufs /\ buf[lru[Max(Unused)]].ref = 0
<1>1. Unused \subseteq 1..NBUF
  BY Zenon DEF Unused
<1>2. Max(Unused) \in Unused
  BY <1>1, SizesAssumption, GreatestNat, Zenon
<1> QED  BY <1>2, Zenon DEF Unused, TypeOK, Bufs

(* Three free descriptors are enough for alloc3_desc(), which takes the       *)
(* lowest of all.                                                             *)
LEMMA AllocThree ==
  ASSUME Counting, TypeOK, Cardinality(free) >= 3
  PROVE  /\ Lowest3 \subseteq free /\ Cardinality(Lowest3) = 3
         /\ Min(free) \in Lowest3 /\ Min(free) \in free
<1>1. IsFiniteSet(Descs) /\ Descs \subseteq Nat /\ free \subseteq Descs
  <2>1. IsFiniteSet(0..NUM - 1)
    BY FinInterval, SizesAssumption
  <2>2. Descs \subseteq Nat
    BY SizesAssumption DEF Descs
  <2> QED  BY <2>1, <2>2, Zenon DEF Descs, TypeOK
<1>2. IsFiniteSet(free)
  BY <1>1, FinSubset, Zenon
<1> DEFINE x == Min(free)
           F == free \ {x}
           y == Min(F)
           G == F \ {y}
           z == Min(G)
<1>3. free # {} /\ Cardinality(free) \in Nat
  BY <1>2, FinEmpty, FinCardinality
<1>4. x \in free /\ \A e \in free : x <= e
  BY <1>1, <1>3, LeastNat, Zenon
<1>5. IsFiniteSet(F) /\ Cardinality(F) = Cardinality(free) - 1
  BY <1>2, <1>4, FinRemove, Zenon
<1>6. F # {} /\ F \subseteq Nat
  <2>1. Cardinality(F) # 0
    BY <1>3, <1>5
  <2> QED  BY <1>1, <2>1, FinEmpty, Zenon
<1>7. y \in F /\ \A e \in F : y <= e
  BY <1>6, LeastNat, Zenon
<1> HIDE DEF F, y
<1>8. IsFiniteSet(G) /\ Cardinality(G) = Cardinality(F) - 1
  BY <1>5, <1>7, FinRemove, Zenon
<1>9. G # {} /\ G \subseteq Nat
  <2>1. Cardinality(G) # 0
    BY <1>3, <1>5, <1>8
  <2> QED  BY <1>6, <2>1, FinEmpty, Zenon
<1>10. z \in G /\ \A e \in G : z <= e
  BY <1>9, LeastNat, Zenon
<1> HIDE DEF x, z
<1> USE DEF F
<1>11. x # y /\ x # z /\ y # z /\ {x, y, z} \subseteq free
  BY <1>4, <1>7, <1>10, Zenon
<1>12. Cardinality({x, y, z}) = 3
  <2>1. IsFiniteSet({x}) /\ Cardinality({x}) = 1
    BY FinSingleton, Zenon
  <2>2. IsFiniteSet({x} \cup {y}) /\ Cardinality({x} \cup {y}) = 2
    <3>1. y \notin {x}
      BY <1>11, Zenon
    <3>2. IsFiniteSet({x} \cup {y}) /\ Cardinality({x} \cup {y}) = Cardinality({x}) + 1
      BY <2>1, <3>1, FinAdd, Zenon
    <3> QED  BY <2>1, <3>2
  <2>3. Cardinality(({x} \cup {y}) \cup {z}) = 3
    <3>1. z \notin {x} \cup {y}
      BY <1>11, Zenon
    <3>2. Cardinality(({x} \cup {y}) \cup {z}) = Cardinality({x} \cup {y}) + 1
      BY <2>2, <3>1, FinAdd, Zenon
    <3> QED  BY <2>2, <3>2
  <2>4. ({x} \cup {y}) \cup {z} = {x, y, z}
    BY Zenon
  <2> QED  BY <2>3, <2>4, Zenon
<1>13. \A u \in {x, y, z}, v \in free \ {x, y, z} : u < v
  BY <1>1, <1>4, <1>7, <1>10
<1> DEFINE Low(s) == Cardinality(s) = 3 /\ \A u \in s, v \in free \ s : u < v
<1>14. Lowest3 \in SUBSET free /\ Low(Lowest3)
  <2>1. Lowest3 = CHOOSE s \in SUBSET free : Low(s)
    BY Zenon DEF Lowest3
  <2>2. {x, y, z} \in SUBSET free /\ Low({x, y, z})
    BY <1>11, <1>12, <1>13, Zenon
  <2> QED  BY <2>1, <2>2, Zenon
<1>15. x \in Lowest3
  <2>1. Lowest3 # {}
    BY <1>14, FinEmpty
  <2>2. PICK u \in Lowest3 : TRUE
    BY <2>1, Zenon
  <2>3. u \in free /\ (x \notin Lowest3 => u < x)
    BY <1>4, <1>14, <2>2, Zenon
  <2>4. x <= u /\ x \in Nat /\ u \in Nat
    BY <1>1, <1>4, <2>3, Zenon
  <2> QED  BY <2>3, <2>4
<1> QED  BY <1>4, <1>14, <1>15, Zenon DEF x

-----------------------------------------------------------------------------
(* bget(). *)

(* bget() has found or recycled buffer b for block n. *)
Looked(p, n, b) ==
  /\ UNCHANGED <<lru, disk, store, pinned, panicked>>
  /\ OtherCalls(p) /\ OtherBufs(b)
  /\ CallIs(c'[p], "lock", n, b, FALSE, 0)
  /\ \/ /\ buf[b].no = n
        /\ BufIs(buf'[b], n, buf[b].ref + 1, buf[b].valid, buf[b].disk, buf[b].lock, buf[b].data)
     \/ /\ buf[b].ref = 0 /\ \A x \in Bufs : buf[x].no # n
        /\ BufIs(buf'[b], n, 1, FALSE, buf[b].disk, buf[b].lock, FALSE)

LEMMA BgetEffect ==
  ASSUME Counting, TypeOK, NEW p \in Procs, Bget(p)
  PROVE  /\ TypeOK' /\ c[p].pc = "idle" /\ ~panicked
         /\ \/ panicked' = TRUE /\ Unused = {} /\ UNCHANGED <<buf, lru, disk, store, pinned, c>>
            \/ \E n \in Blocks, b \in Bufs : Looked(p, n, b)
<1> DEFINE call(n, b) == [Idle EXCEPT !.pc = "lock", !.no = n, !.b = b]
           take(n, b, e) == /\ buf' = [buf EXCEPT ![b] = e]
                            /\ c' = [c EXCEPT ![p] = call(n, b)]
                            /\ UNCHANGED panicked
           hit(b) == [buf[b] EXCEPT !.ref = @ + 1]
           Hit(n, b) == buf[b].no = n /\ take(n, b, hit(b))
           Miss(n, b) == buf[b].ref = 0 /\ (\A x \in Bufs : buf[x].no # n) /\ take(n, b, Recycled(b, n))
<1>1. PICK n \in Blocks :
        \/ panicked' = TRUE /\ Unused = {} /\ UNCHANGED <<buf, c>>
        \/ \E b \in Bufs : Hit(n, b) \/ Miss(n, b)
  <2>1. PICK n \in Blocks :
          IF Cached(n) # {}
          THEN take(n, Min(Cached(n)), hit(Min(Cached(n))))
          ELSE IF Unused # {}
          THEN take(n, lru[Max(Unused)], Recycled(lru[Max(Unused)], n))
          ELSE panicked' = TRUE /\ UNCHANGED <<buf, c>>
    BY Zenon DEF Bget
  <2>2. Cached(n) # {} => Min(Cached(n)) \in Cached(n)
    <3>1. Cached(n) \subseteq Nat
      BY SizesAssumption DEF Cached, Bufs
    <3> QED  BY <3>1, LeastNat, Zenon
  <2>3. CASE Cached(n) # {}
    <3>1. Min(Cached(n)) \in Bufs /\ Hit(n, Min(Cached(n)))
      BY <2>1, <2>2, <2>3, Zenon DEF Cached
    <3> QED  BY <3>1, Zenon
  <2>4. CASE Cached(n) = {} /\ Unused # {}
    <3>1. lru[Max(Unused)] \in Bufs /\ Miss(n, lru[Max(Unused)])
      BY <2>1, <2>4, LruUnused, Zenon DEF Cached
    <3> QED  BY <3>1, Zenon
  <2> QED  BY <2>1, <2>3, <2>4, Zenon
<1>2. c[p].pc = "idle" /\ ~panicked /\ UNCHANGED <<lru, disk, store, pinned>>
  BY Zenon DEF Bget, At
<1>3. CASE panicked' = TRUE /\ Unused = {} /\ UNCHANGED <<buf, c>>
  BY <1>2, <1>3, Zenon DEF TypeOK, disk
<1>4. CASE \E b \in Bufs : Hit(n, b) \/ Miss(n, b)
  <2>1. PICK b \in Bufs : Hit(n, b) \/ Miss(n, b)
    BY <1>4, Zenon
  <2>2. CallIs(call(n, b), "lock", n, b, FALSE, 0)
    BY Apart, Zenon DEF CallType, CallIs, Idle, Pcs
  <2>3. c' \in [Procs -> CallType] /\ CallIs(c'[p], "lock", n, b, FALSE, 0) /\ OtherCalls(p)
    BY <2>1, <2>2, PutCall, Zenon DEF CallIs
  <2>4. buf[b] \in BufType /\ buf[b].ref + 1 \in Nat /\ 1 \in Nat
    BY DEF TypeOK, BufType
  <2>5. BufIs(hit(b), buf[b].no, buf[b].ref + 1, buf[b].valid, buf[b].disk, buf[b].lock, buf[b].data)
    BY <2>4, Zenon DEF BufType, BufIs
  <2>6. BufIs(Recycled(b, n), n, 1, FALSE, buf[b].disk, buf[b].lock, FALSE)
    BY <2>4, Zenon DEF BufType, BufIs, Recycled
  <2>7. CASE Hit(n, b)
    <3>1. buf' \in [Bufs -> BufType] /\ buf'[b] = hit(b) /\ OtherBufs(b)
      BY <2>5, <2>7, PutBuf, Zenon DEF BufIs
    <3> QED  BY <1>2, <2>3, <2>5, <2>7, <3>1, ZenonT(60) DEF TypeOK, disk, Looked
  <2>8. CASE Miss(n, b)
    <3>1. buf' \in [Bufs -> BufType] /\ buf'[b] = Recycled(b, n) /\ OtherBufs(b)
      BY <2>6, <2>8, PutBuf, Zenon DEF BufIs
    <3> QED  BY <1>2, <2>3, <2>6, <2>8, <3>1, ZenonT(60) DEF TypeOK, disk, Looked
  <2> QED  BY <2>1, <2>7, <2>8, Zenon
<1> QED  BY <1>1, <1>3, <1>4, Zenon

LEMMA BgetLookup ==
  ASSUME Counting, TypeOK, CallInv, LookupInv, LockInv,
         NEW p \in Procs, c[p].pc = "idle", NEW n \in Blocks, NEW b \in Bufs, Looked(p, n, b)
  PROVE  CallInv' /\ LookupInv' /\ LockInv'
<1> USE DEF Looked, OtherCalls, OtherBufs, CallIs, BufIs
<1>1. c[p].b = None /\ c[p].b \notin Bufs
  BY Apart, Zenon DEF CallInv, InCall
<1>2. CallInv'
  BY ZenonT(60) DEF CallInv, InCall
<1>3. \A a, x \in Bufs : buf'[a].no = buf'[x].no /\ buf'[a].no # None => a = x
  BY DEF LookupInv
<1>4. ASSUME NEW q \in Procs, InCall(q)' PROVE buf'[c'[q].b].no = c'[q].no
  <2>1. CASE q = p
    BY <2>1, Zenon
  <2>2. CASE q # p
    <3>1. c'[q] = c[q] /\ c[q].b \in Bufs /\ buf[c[q].b].no = c[q].no
      BY <1>4, <2>2, ZenonT(60) DEF InCall, CallInv, LookupInv
    <3>2. c[q].b = b => buf[b].ref # 0
      BY NoReferences, Zenon DEF Users
    <3> QED  BY <3>1, <3>2
  <2> QED  BY <2>1, <2>2, Zenon
<1>5. ASSUME NEW x \in Bufs PROVE buf'[x].ref = Cardinality(Users(x)') + Pins(x)'
  <2>1. CASE x # b
    <3>1. Users(x)' = Users(x)
      BY <1>1, <2>1, Zenon DEF Users
    <3>2. Pins(x)' = Pins(x) /\ buf'[x] = buf[x]
      BY <2>1, Zenon DEF Pins
    <3> QED  BY <3>1, <3>2, ZenonT(60) DEF LookupInv
  <2>2. CASE x = b
    <3>1. Users(b)' = Users(b) \cup {p} /\ p \notin Users(b)
      BY <1>1, ZenonT(60) DEF Users
    <3>2. Cardinality(Users(b)') = Cardinality(Users(b)) + 1 /\ Cardinality(Users(b)) \in Nat
      <4>1. IsFiniteSet(Users(b)) /\ Cardinality(Users(b)) \in Nat
        BY UsersFinite, Zenon
      <4>2. Cardinality(Users(b) \cup {p}) = Cardinality(Users(b)) + 1
        BY <3>1, <4>1, FinAdd, Zenon
      <4> QED  BY <3>1, <4>1, <4>2, Zenon
    <3>3. CASE buf[b].no = n /\ buf'[b].ref = buf[b].ref + 1
      <4>1. Pins(b)' = Pins(b) /\ Pins(b) \in {0, 1} /\ buf[b].ref = Cardinality(Users(b)) + Pins(b)
        BY <3>3, ZenonT(60) DEF Pins, LookupInv
      <4> QED  BY <2>2, <3>2, <3>3, <4>1
    <3>4. CASE buf[b].ref = 0 /\ (\A y \in Bufs : buf[y].no # n) /\ buf'[b].ref = 1
      <4>1. Pins(b)' = 0
        BY <3>4, ZenonT(60) DEF Pins, LookupInv
      <4>2. Cardinality(Users(b)) = 0
        BY <3>4, NoReferences, FinEmpty, Zenon
      <4> QED  BY <2>2, <3>2, <3>4, <4>1, <4>2
    <3> QED  BY <3>3, <3>4, Zenon
  <2> QED  BY <2>1, <2>2, Zenon
<1>6. ASSUME NEW m \in pinned' PROVE \E x \in Bufs : buf'[x].no = m
  <2>1. PICK x \in Bufs : buf[x].no = m
    BY <1>6, Zenon DEF LookupInv
  <2>2. x # b \/ buf'[b].no = m
    BY <1>6, <2>1, NoReferences, Zenon
  <2> QED  BY <2>1, <2>2, Zenon
<1>7. LockInv'
  <2>1. ASSUME NEW q \in Procs, Locking(q)' PROVE buf'[c'[q].b].lock = q
    <3>1. q # p
      BY <2>1, Zenon DEF Locking
    <3>2. c'[q] = c[q] /\ Locking(q) /\ c[q].b \in Bufs
      BY <2>1, <3>1, Zenon DEF Locking, CallInv, InCall
    <3> QED  BY <3>2 DEF LockInv
  <2> QED  BY <2>1, ZenonT(60) DEF LockInv
<1> QED  BY <1>2, <1>3, <1>4, <1>5, <1>6, <1>7, Zenon DEF LookupInv

LEMMA BgetData ==
  ASSUME Counting, IInv, NEW p \in Procs, c[p].pc = "idle", NEW n \in Blocks, NEW b \in Bufs, Looked(p, n, b)
  PROVE  DataInv'
<1>1. TypeOK /\ CallInv /\ LookupInv /\ DataInv
  BY Zenon DEF IInv
<1>2. /\ UNCHANGED <<lru, disk, store, pinned, panicked>>
      /\ OtherCalls(p) /\ OtherBufs(b) /\ CallIs(c'[p], "lock", n, b, FALSE, 0)
  BY Zenon DEF Looked
<1>3. store' = store /\ pinned' = pinned /\ avail' = avail
  BY <1>2, Zenon DEF disk
<1>4. ASSUME NEW q \in Procs, q # p PROVE SameCall(q)
  BY <1>2, <1>3, <1>4, SameStays, Zenon DEF OtherCalls
<1>5. ~Pending(p)
  BY DEF Pending
<1>6. CallData(p)'
  BY <1>2 DEF CallIs, CallData, Pending, Answered
<1>7. CASE buf[b].no = n /\ BufIs(buf'[b], n, buf[b].ref + 1, buf[b].valid, buf[b].disk, buf[b].lock, buf[b].data)
  <2>1. \A x \in Bufs : buf'[x].no = buf[x].no /\ buf'[x].valid = buf[x].valid /\ buf'[x].data = buf[x].data
    BY <1>2, <1>7, Zenon DEF OtherBufs, BufIs
  <2>2. \A x \in Bufs : buf'[x].valid => buf'[x].data
    BY <1>1, <2>1, Zenon DEF DataInv
  <2>3. ASSUME NEW m \in Blocks PROVE store'[m] \/ \E x \in Bufs : Latest(x, m)'
    <3>1. CASE \E x \in Bufs : Latest(x, m)
      <4>1. PICK x \in Bufs : Latest(x, m)
        BY <3>1, Zenon
      <4>2. buf'[x].no = m /\ buf'[x].valid
        BY <2>1, <4>1, Zenon DEF Latest
      <4>3. \A q \in Procs : c[q].b = x /\ c[q].write /\ Pending(q) => SameCall(q)
        BY <1>4, <1>5, Zenon
      <4> QED  BY <1>3, <4>1, <4>2, <4>3, LatestKept, Zenon
    <3> QED  BY <1>1, <1>3, <3>1, Zenon DEF DataInv
  <2>4. ASSUME NEW q \in Procs, q # p PROVE CallData(q)'
    <3>1. Locking(q) => c[q].b \in Bufs
      BY <1>1, Zenon DEF CallInv, InCall, Locking
    <3> QED  BY <1>1, <1>3, <1>4, <2>1, <2>4, <3>1, CallDataKept, Zenon DEF DataInv
  <2> QED  BY <1>6, <2>2, <2>3, <2>4, Zenon DEF DataInv
<1>8. CASE buf[b].ref = 0 /\ BufIs(buf'[b], n, 1, FALSE, buf[b].disk, buf[b].lock, FALSE)
  <2>1. Users(b) = {} /\ buf[b].no \notin pinned
    BY <1>1, <1>8, NoReferences, Zenon
  <2>2. \A x \in Bufs : x # b => buf'[x] = buf[x]
    BY <1>2, Zenon DEF OtherBufs
  <2>3. buf'[b].valid = FALSE
    BY <1>8, Zenon DEF BufIs
  <2>4. \A x \in Bufs : buf'[x].valid => buf'[x].data
    BY <1>1, <2>2, <2>3, ZenonT(60) DEF DataInv
  <2>5. ASSUME NEW m \in Blocks PROVE store'[m] \/ \E x \in Bufs : Latest(x, m)'
    <3>1. CASE \E x \in Bufs : Latest(x, m)
      <4>1. PICK x \in Bufs : Latest(x, m)
        BY <3>1, Zenon
      <4>2. x # b
        BY <2>1, <4>1, Zenon DEF Latest, Users
      <4>3. buf'[x].no = m /\ buf'[x].valid
        BY <2>2, <4>1, <4>2, Zenon DEF Latest
      <4>4. \A q \in Procs : c[q].b = x /\ c[q].write /\ Pending(q) => SameCall(q)
        BY <1>4, <1>5, Zenon
      <4> QED  BY <1>3, <4>1, <4>3, <4>4, LatestKept, Zenon
    <3> QED  BY <1>1, <1>3, <3>1, Zenon DEF DataInv
  <2>6. ASSUME NEW q \in Procs, q # p PROVE CallData(q)'
    <3>1. Locking(q) => c[q].b \in Bufs /\ c[q].b # b
      BY <1>1, <2>1, Zenon DEF CallInv, InCall, Locking, Users
    <3>2. Locking(q) => buf'[c[q].b] = buf[c[q].b]
      BY <2>2, <3>1, Zenon
    <3> QED  BY <1>1, <1>3, <1>4, <2>6, <3>2, CallDataKept, Zenon DEF DataInv
  <2> QED  BY <1>6, <2>4, <2>5, <2>6, Zenon DEF DataInv
<1> QED  BY <1>7, <1>8, Zenon DEF Looked

(* "bget: no buffers": each buffer is the one of a block in use. *)
LEMMA AllInUse ==
  ASSUME Counting, TypeOK, CallInv, LookupInv, Unused = {}
  PROVE  Cardinality(InUse) = NBUF
<1> DEFINE f == [b \in Bufs |-> buf[b].no]
<1>1. ASSUME NEW b \in Bufs PROVE buf[b].no \in InUse
  <2>1. buf[b].ref # 0
    <3>1. PICK k \in Bufs : lru[k] = b
      BY Zenon DEF TypeOK
    <3> QED  BY <3>1, Zenon DEF Unused, Bufs
  <2>2. CASE Users(b) # {}
    <3>1. PICK p \in Procs : c[p].b = b
      BY <2>2, Zenon DEF Users
    <3>2. InCall(p)
      BY <3>1, Apart, Zenon DEF CallInv
    <3>3. buf[b].no = c[p].no
      BY <3>1, <3>2, Zenon DEF LookupInv
    <3> QED  BY <3>2, <3>3, Zenon DEF InUse, InCall
  <2>3. CASE Users(b) = {}
    <3>1. Cardinality(Users(b)) = 0 /\ buf[b].ref = Cardinality(Users(b)) + Pins(b)
      BY <2>3, UsersFinite, Zenon DEF LookupInv
    <3>2. Pins(b) # 0
      BY <2>1, <3>1 DEF Pins
    <3> QED  BY <3>2, Zenon DEF Pins, InUse
  <2> QED  BY <2>2, <2>3, Zenon
<1>2. ASSUME NEW n \in InUse PROVE \E b \in Bufs : f[b] = n
  <2>1. CASE n \in pinned
    BY <2>1, Zenon DEF LookupInv
  <2>2. CASE \E p \in Procs : c[p].pc # "idle" /\ n = c[p].no
    <3>1. PICK p \in Procs : InCall(p) /\ n = c[p].no
      BY <2>2, Zenon DEF InCall
    <3> QED  BY <3>1, Zenon DEF CallInv, LookupInv
  <2> QED  BY <2>1, <2>2, Zenon DEF InUse
<1>3. None \notin InUse
  BY Apart DEF InUse, TypeOK, CallInv, InCall
<1>4. f \in [Bufs -> InUse]
  BY <1>1, Zenon
<1>5. \A a, b \in Bufs : f[a] = f[b] => a = b
  BY <1>1, <1>3, Zenon DEF LookupInv
<1>6. IsFiniteSet(Bufs) /\ Cardinality(Bufs) = NBUF
  BY FinInterval, SizesAssumption DEF Bufs
<1> HIDE DEF f
<1> QED  BY <1>2, <1>4, <1>5, <1>6, FinBijection, Zenon

-----------------------------------------------------------------------------
(* The holder of a buffer changes it. *)

LEMMA ChangeEffect ==
  ASSUME TypeOK, CallInv, NEW p \in Procs, Change(p), NEW b, b = c[p].b, NEW n, n = c[p].no
  PROVE  /\ TypeOK' /\ c[p].pc = "hold" /\ b \in Bufs /\ n \in Blocks
         /\ UNCHANGED <<lru, disk, panicked>>
         /\ OtherCalls(p) /\ OtherBufs(b)
         /\ \/ /\ CallIs(c'[p], "rw", n, b, TRUE, c[p].h) /\ pinned' = pinned
               /\ BufIs(buf'[b], buf[b].no, buf[b].ref, buf[b].valid, buf[b].disk, buf[b].lock, TRUE)
            \/ /\ n \notin pinned /\ pinned' = pinned \cup {n}
               /\ CallIs(c'[p], "changed", n, b, c[p].write, c[p].h)
               /\ BufIs(buf'[b], buf[b].no, buf[b].ref + 1, buf[b].valid, buf[b].disk, buf[b].lock, TRUE)
         /\ store'[n] = FALSE /\ \A m \in Blocks : m # n => store'[m] = store[m]
<1> DEFINE e1 == [buf[b] EXCEPT !.data = TRUE]
           e2 == [buf[b] EXCEPT !.data = TRUE, !.ref = @ + 1]
           r1 == [c[p] EXCEPT !.pc = "rw", !.write = TRUE]
           r2 == [c[p] EXCEPT !.pc = "changed"]
<1>1. c[p].pc = "hold" /\ b \in Bufs /\ n \in Blocks /\ UNCHANGED <<lru, disk, panicked>>
  BY Zenon DEF Change, At, CallInv, InCall
<1>2. /\ store' \in [Blocks -> BOOLEAN] /\ store'[n] = FALSE
      /\ \A m \in Blocks : m # n => store'[m] = store[m]
  BY <1>1, Zenon DEF Change, TypeOK
<1>3. \/ buf' = [buf EXCEPT ![b] = e1] /\ c' = [c EXCEPT ![p] = r1] /\ pinned' = pinned
      \/ /\ n \notin pinned /\ pinned' = pinned \cup {n}
         /\ buf' = [buf EXCEPT ![b] = e2] /\ c' = [c EXCEPT ![p] = r2]
  BY Zenon DEF Change, Pin
<1>4. c[p] \in CallType /\ buf[b] \in BufType /\ buf[b].ref + 1 \in Nat
  BY <1>1 DEF TypeOK, BufType
<1>5. /\ BufIs(e1, buf[b].no, buf[b].ref, buf[b].valid, buf[b].disk, buf[b].lock, TRUE)
      /\ BufIs(e2, buf[b].no, buf[b].ref + 1, buf[b].valid, buf[b].disk, buf[b].lock, TRUE)
  BY <1>4, Zenon DEF BufType, BufIs
<1>6. CallIs(r1, "rw", n, b, TRUE, c[p].h) /\ CallIs(r2, "changed", n, b, c[p].write, c[p].h)
  BY <1>4, Zenon DEF CallType, CallIs, Pcs
<1>7. CASE buf' = [buf EXCEPT ![b] = e1] /\ c' = [c EXCEPT ![p] = r1] /\ pinned' = pinned
  <2>1. buf' \in [Bufs -> BufType] /\ buf'[b] = e1 /\ OtherBufs(b)
    BY <1>1, <1>5, <1>7, PutBuf, Zenon DEF BufIs
  <2>2. c' \in [Procs -> CallType] /\ c'[p] = r1 /\ OtherCalls(p)
    BY <1>6, <1>7, PutCall, Zenon DEF CallIs
  <2> QED  BY <1>1, <1>2, <1>5, <1>6, <1>7, <2>1, <2>2, ZenonT(60) DEF TypeOK, disk
<1>8. CASE /\ n \notin pinned /\ pinned' = pinned \cup {n}
           /\ buf' = [buf EXCEPT ![b] = e2] /\ c' = [c EXCEPT ![p] = r2]
  <2>1. buf' \in [Bufs -> BufType] /\ buf'[b] = e2 /\ OtherBufs(b)
    BY <1>1, <1>5, <1>8, PutBuf, Zenon DEF BufIs
  <2>2. c' \in [Procs -> CallType] /\ c'[p] = r2 /\ OtherCalls(p)
    BY <1>6, <1>8, PutCall, Zenon DEF CallIs
  <2> QED  BY <1>1, <1>2, <1>5, <1>6, <1>8, <2>1, <2>2, ZenonT(60) DEF TypeOK, disk
<1> QED  BY <1>3, <1>7, <1>8, Zenon

LEMMA ChangeLookup ==
  ASSUME Counting, TypeOK, CallInv, LookupInv, LockInv, NEW p \in Procs, Change(p)
  PROVE  CallInv' /\ LookupInv' /\ LockInv'
<1> DEFINE b == c[p].b
           n == c[p].no
<1>1. /\ b \in Bufs /\ n \in Blocks /\ InCall(p) /\ Locking(p) /\ buf[b].no = n /\ n # None
      /\ OtherCalls(p) /\ OtherBufs(b) /\ c'[p].no = n /\ c'[p].b = b /\ InCall(p)'
      /\ buf'[b].no = n /\ buf'[b].lock = buf[b].lock
      /\ \/ pinned' = pinned /\ buf'[b].ref = buf[b].ref
         \/ n \notin pinned /\ pinned' = pinned \cup {n} /\ buf'[b].ref = buf[b].ref + 1
  <2>1. c[p].pc = "hold" /\ b \in Bufs /\ n \in Blocks /\ OtherCalls(p) /\ OtherBufs(b)
    BY ChangeEffect, Zenon
  <2>2. InCall(p) /\ Locking(p) /\ buf[b].no = n /\ n # None
    BY <2>1, Apart, Zenon DEF InCall, Locking, LookupInv
  <2>3. /\ CallIs(c'[p], "rw", n, b, TRUE, c[p].h) \/ CallIs(c'[p], "changed", n, b, c[p].write, c[p].h)
        /\ buf'[b].no = n /\ buf'[b].lock = buf[b].lock
        /\ \/ pinned' = pinned /\ buf'[b].ref = buf[b].ref
           \/ n \notin pinned /\ pinned' = pinned \cup {n} /\ buf'[b].ref = buf[b].ref + 1
    BY <2>2, ChangeEffect, ZenonT(60) DEF BufIs
  <2> QED  BY <2>1, <2>2, <2>3, Zenon DEF CallIs, InCall
<1> USE DEF OtherCalls, OtherBufs
<1>2. \A x \in Bufs : buf'[x].no = buf[x].no /\ buf'[x].lock = buf[x].lock
  BY <1>1, Zenon
<1>3. \A q \in Procs : c'[q].no = c[q].no /\ c'[q].b = c[q].b /\ (InCall(q)' <=> InCall(q))
                       /\ (Locking(q)' => Locking(q))
  BY <1>1, Zenon DEF InCall, Locking
<1> HIDE DEF b, n
<1>4. CallInv'
  BY <1>3, Zenon DEF CallInv
<1>5. LockInv'
  <2>1. \A q \in Procs : Locking(q) => c[q].b \in Bufs
    BY Zenon DEF Locking, CallInv, InCall
  <2> QED  BY <1>2, <1>3, <2>1 DEF LockInv
<1>6. ASSUME NEW x \in Bufs PROVE buf'[x].ref = Cardinality(Users(x)') + Pins(x)'
  <2>1. Users(x)' = Users(x)
    BY <1>3, Zenon DEF Users
  <2>2. buf[x].ref = Cardinality(Users(x)) + Pins(x) /\ Cardinality(Users(x)) \in Nat
    BY UsersFinite, Zenon DEF LookupInv
  <2>3. CASE pinned' = pinned /\ buf'[b].ref = buf[b].ref
    <3>1. Pins(x)' = Pins(x) /\ buf'[x].ref = buf[x].ref
      BY <1>1, <1>2, <2>3, ZenonT(60) DEF Pins
    <3> QED  BY <2>1, <2>2, <3>1, Zenon
  <2>4. CASE x # b /\ pinned' = pinned \cup {n}
    <3>1. buf[x].no # n
      BY <1>1, <2>4 DEF LookupInv
    <3>2. Pins(x)' = Pins(x) /\ buf'[x].ref = buf[x].ref
      BY <1>1, <1>2, <2>4, <3>1, ZenonT(60) DEF Pins
    <3> QED  BY <2>1, <2>2, <3>2, Zenon
  <2>5. CASE x = b /\ n \notin pinned /\ pinned' = pinned \cup {n} /\ buf'[b].ref = buf[b].ref + 1
    <3>1. Pins(x)' = 1 /\ Pins(x) = 0
      BY <1>1, <1>2, <2>5, ZenonT(60) DEF Pins
    <3> QED  BY <2>1, <2>2, <2>5, <3>1
  <2> QED  BY <1>1, <2>3, <2>4, <2>5, Zenon
<1>7. \A a, x \in Bufs : buf'[a].no = buf'[x].no /\ buf'[a].no # None => a = x
  BY <1>2 DEF LookupInv
<1>8. \A q \in Procs : InCall(q)' => buf'[c'[q].b].no = c'[q].no
  BY <1>2, <1>3, SMTT(30) DEF LookupInv, CallInv
<1>9. \A m \in pinned' : \E x \in Bufs : buf'[x].no = m
  BY <1>1, <1>2 DEF LookupInv
<1> QED  BY <1>4, <1>5, <1>6, <1>7, <1>8, <1>9, Zenon DEF LookupInv

LEMMA ChangeData ==
  ASSUME IInv, NEW p \in Procs, Change(p)
  PROVE  DataInv'
<1> DEFINE b == c[p].b
           n == c[p].no
<1>1. TypeOK /\ CallInv /\ LookupInv /\ DataInv /\ CallData(p)
  BY Zenon DEF IInv, DataInv
<1>2. /\ c[p].pc = "hold" /\ b \in Bufs /\ n \in Blocks /\ UNCHANGED <<lru, disk, panicked>>
      /\ OtherCalls(p) /\ OtherBufs(b)
  BY <1>1, ChangeEffect, Zenon
<1>3. \A m \in Blocks : m # n => store'[m] = store[m]
  BY <1>1, ChangeEffect, Zenon
<1>4. \/ /\ CallIs(c'[p], "rw", n, b, TRUE, c[p].h) /\ pinned' = pinned
         /\ BufIs(buf'[b], buf[b].no, buf[b].ref, buf[b].valid, buf[b].disk, buf[b].lock, TRUE)
      \/ /\ n \notin pinned /\ pinned' = pinned \cup {n}
         /\ CallIs(c'[p], "changed", n, b, c[p].write, c[p].h)
         /\ BufIs(buf'[b], buf[b].no, buf[b].ref + 1, buf[b].valid, buf[b].disk, buf[b].lock, TRUE)
  BY <1>1, ChangeEffect, Zenon
<1>5. /\ buf'[b].no = buf[b].no /\ buf'[b].valid = buf[b].valid /\ buf'[b].data = TRUE
      /\ c'[p].b = b /\ pinned \subseteq pinned'
      /\ \/ c'[p].pc = "rw" /\ c'[p].write = TRUE
         \/ c'[p].pc = "changed" /\ n \in pinned'
  BY <1>4, Zenon DEF BufIs, CallIs
<1>6. buf[b].no = n /\ buf[b].valid = TRUE /\ Locking(p) /\ avail' = avail /\ ~Pending(p)
  <2>1. buf[b].no = n
    BY <1>1, <1>2, Zenon DEF LookupInv, InCall
  <2>2. buf[b].valid = TRUE
    <3>1. buf[b] \in BufType
      BY <1>1, <1>2, Zenon DEF TypeOK
    <3> QED  BY <1>1, <1>2, <3>1, Zenon DEF BufType, CallData
  <2> QED  BY <1>2, <2>1, <2>2 DEF Locking, Pending, disk
<1> HIDE DEF n
<1>7. \A x \in Bufs : x # b => buf'[x] = buf[x]
  BY <1>2, Zenon DEF OtherBufs
<1>8. \A q \in Procs : q # p => SameCall(q) /\ CallData(q)'
  BY <1>2, <1>3, <1>5, <1>6, HolderData, Zenon DEF n
<1>9. \A x \in Bufs : buf'[x].no = buf[x].no /\ (buf[x].valid => buf'[x].valid)
  BY <1>5, <1>7, Zenon
<1>10. ASSUME NEW m \in Blocks PROVE store'[m] \/ \E x \in Bufs : Latest(x, m)'
  <2>1. CASE m = n
    <3>1. n \in pinned' \/ (c'[p].b = b /\ c'[p].write /\ Pending(p)')
      BY <1>5 DEF Pending
    <3>2. PICK x \in Bufs : x = b
      BY <1>2, Zenon
    <3>3. Latest(x, m)'
      BY <1>5, <1>6, <2>1, <3>1, <3>2, Zenon DEF Latest
    <3> QED  BY <3>3, Zenon
  <2>2. CASE m # n
    BY <1>3, <1>5, <1>6, <1>8, <1>9, <2>2, HolderLatest, ZenonT(60)
  <2> QED  BY <2>1, <2>2, Zenon
<1>11. CallData(p)'
  <2>1. buf'[c'[p].b].valid = TRUE
    BY <1>5, <1>6, Zenon
  <2> QED  BY <1>5, <2>1, Zenon DEF CallData, Pending, Answered
<1>12. \A x \in Bufs : buf'[x].valid => buf'[x].data
  BY <1>1, <1>5, <1>7, Zenon DEF DataInv
<1> QED  BY <1>8, <1>10, <1>11, <1>12, Zenon DEF DataInv

-----------------------------------------------------------------------------
(* brelse(). *)

LEMMA BrelseEffect ==
  ASSUME Counting, TypeOK, CallInv, LookupInv, NEW p \in Procs, Brelse(p), NEW b, b = c[p].b, NEW n, n = c[p].no
  PROVE  /\ TypeOK' /\ c[p].pc \in {"hold", "written", "changed"} /\ b \in Bufs /\ ~panicked
         /\ UNCHANGED <<disk, store, panicked>>
         /\ OtherCalls(p) /\ OtherBufs(b) /\ CallIs(c'[p], "idle", None, None, FALSE, 0)
         /\ \/ /\ pinned' = pinned
               /\ BufIs(buf'[b], buf[b].no, buf[b].ref - 1, buf[b].valid, buf[b].disk, None, buf[b].data)
            \/ /\ c[p].pc = "written" /\ n \in pinned /\ pinned' = pinned \ {n}
               /\ BufIs(buf'[b], buf[b].no, buf[b].ref - 2, buf[b].valid, buf[b].disk, None, buf[b].data)
<1> DEFINE unpin == c[p].pc = "written" /\ n \in pinned
           ref == buf[b].ref - (IF unpin THEN 2 ELSE 1)
           e == [buf[b] EXCEPT !.lock = None, !.ref = ref]
<1>1. /\ c[p].pc \in {"hold", "written", "changed"} /\ ~panicked /\ UNCHANGED <<disk, store, panicked>>
      /\ buf' = [buf EXCEPT ![b] = e] /\ c' = [c EXCEPT ![p] = Idle]
      /\ lru' = IF ref = 0 THEN MovedToHead(b) ELSE lru
      /\ pinned' = IF unpin THEN pinned \ {n} ELSE pinned
  BY Zenon DEF Brelse
<1>2. InCall(p)
  BY <1>1, Zenon DEF InCall
<1>3. b \in Bufs /\ ref \in Nat /\ buf[b] \in BufType
  <2>1. b \in Bufs /\ buf[b] \in BufType
    BY <1>2, UserCounted, ZenonT(60) DEF TypeOK
  <2>2. ref \in Nat
    BY <1>2, UserCounted
  <2> QED  BY <2>1, <2>2
<1>4. BufIs(e, buf[b].no, ref, buf[b].valid, buf[b].disk, None, buf[b].data)
  <2> HIDE DEF ref
  <2> QED  BY <1>3, Zenon DEF BufType, BufIs
<1>5. CallIs(Idle, "idle", None, None, FALSE, 0) /\ Idle \in CallType
  BY IdleCall, Zenon DEF CallIs
<1>6. buf' \in [Bufs -> BufType] /\ buf'[b] = e /\ OtherBufs(b)
  BY <1>1, <1>3, <1>4, PutBuf, Zenon DEF BufIs
<1>7. c' \in [Procs -> CallType] /\ c'[p] = Idle /\ OtherCalls(p)
  BY <1>1, <1>5, PutCall, Zenon
<1>8. lru' \in [Bufs -> Bufs] /\ \A x \in Bufs : \E k \in Bufs : lru'[k] = x
  <2>1. lru' = MovedToHead(b) \/ lru' = lru
    BY <1>1, Zenon
  <2>2. CASE lru' = lru
    BY <2>2, Zenon DEF TypeOK
  <2>3. CASE lru' = MovedToHead(b)
    BY <1>3, <2>3, MovedOK, Zenon
  <2> QED  BY <2>1, <2>2, <2>3, Zenon
<1>9. TypeOK'
  BY <1>1, <1>6, <1>7, <1>8, ZenonT(60) DEF TypeOK, disk
<1>10. CASE unpin
  BY <1>1, <1>3, <1>4, <1>5, <1>6, <1>7, <1>9, <1>10, ZenonT(60)
<1>11. CASE ~unpin
  BY <1>1, <1>3, <1>4, <1>5, <1>6, <1>7, <1>9, <1>11, ZenonT(60)
<1> QED  BY <1>10, <1>11, Zenon

LEMMA BrelseLookup ==
  ASSUME Counting, TypeOK, CallInv, LookupInv, LockInv, NEW p \in Procs, Brelse(p)
  PROVE  CallInv' /\ LookupInv' /\ LockInv'
<1> DEFINE b == c[p].b
           n == c[p].no
<1>1. /\ b \in Bufs /\ InCall(p) /\ Locking(p) /\ buf[b].no = n /\ n # None
      /\ OtherCalls(p) /\ OtherBufs(b) /\ ~InCall(p)' /\ c'[p].b = None
      /\ buf'[b].no = n
      /\ \/ pinned' = pinned /\ buf'[b].ref = buf[b].ref - 1
         \/ n \in pinned /\ pinned' = pinned \ {n} /\ buf'[b].ref = buf[b].ref - 2
  <2>1. /\ c[p].pc \in {"hold", "written", "changed"} /\ b \in Bufs /\ OtherCalls(p) /\ OtherBufs(b)
        /\ CallIs(c'[p], "idle", None, None, FALSE, 0)
    BY BrelseEffect, Zenon
  <2>2. InCall(p) /\ Locking(p)
    BY <2>1, Zenon DEF InCall, Locking
  <2>3. buf[b].no = n /\ n # None
    BY <2>2, Apart, Zenon DEF LookupInv, CallInv
  <2>4. /\ buf'[b].no = n
        /\ \/ pinned' = pinned /\ buf'[b].ref = buf[b].ref - 1
           \/ n \in pinned /\ pinned' = pinned \ {n} /\ buf'[b].ref = buf[b].ref - 2
    BY <2>3, BrelseEffect, ZenonT(60) DEF BufIs
  <2>5. ~InCall(p)' /\ c'[p].b = None
    BY <2>1, Zenon DEF CallIs, InCall
  <2> QED  BY <2>1, <2>2, <2>3, <2>4, <2>5, ZenonT(60)
<1> USE DEF OtherCalls, OtherBufs
<1>2. \A x \in Bufs : buf'[x].no = buf[x].no
  BY <1>1, Zenon
<1>3. \A q \in Procs : InCall(q)' => q # p /\ c'[q] = c[q] /\ InCall(q)
  BY <1>1, Zenon DEF InCall
<1> HIDE DEF b, n
<1>4. CallInv'
  <2>1. ASSUME NEW q \in Procs PROVE IF InCall(q)' THEN c'[q].no \in Blocks /\ c'[q].b \in Bufs ELSE c'[q].b = None
    <3>1. CASE q = p
      BY <1>1, <3>1, Zenon
    <3>2. CASE q # p
      BY <1>1, <3>2, Zenon DEF CallInv, InCall
    <3> QED  BY <3>1, <3>2, Zenon
  <2> QED  BY <2>1, Zenon DEF CallInv
<1>5. LockInv'
  <2>1. ASSUME NEW q \in Procs, Locking(q)' PROVE buf'[c'[q].b].lock = q
    <3>1. InCall(q)'
      BY <2>1, Zenon DEF Locking, InCall
    <3>2. q # p /\ c'[q] = c[q] /\ Locking(q) /\ c[q].b \in Bufs
      BY <1>3, <2>1, <3>1, Zenon DEF Locking, CallInv
    <3>3. c[q].b # b
      BY <1>1, <3>2, OneLocker, Zenon DEF b
    <3> QED  BY <1>1, <3>2, <3>3, Zenon DEF LockInv
  <2> QED  BY <2>1, Zenon DEF LockInv
<1>6. ASSUME NEW x \in Bufs PROVE buf'[x].ref = Cardinality(Users(x)') + Pins(x)'
  <2>1. buf[x].ref = Cardinality(Users(x)) + Pins(x) /\ Cardinality(Users(x)) \in Nat /\ IsFiniteSet(Users(x))
    BY UsersFinite, Zenon DEF LookupInv
  <2>2. CASE x # b
    <3>1. Users(x)' = Users(x)
      <4>1. p \notin Users(x) /\ p \notin Users(x)'
        BY <1>1, <2>2, Apart, ZenonT(60) DEF Users, b
      <4> QED  BY <1>1, <4>1, Zenon DEF Users
    <3>2. buf[x].no # n /\ buf'[x] = buf[x]
      BY <1>1, <2>2 DEF LookupInv
    <3>3. Pins(x)' = Pins(x)
      BY <1>1, <3>2, Zenon DEF Pins
    <3> QED  BY <2>1, <3>1, <3>2, <3>3, Zenon
  <2>3. CASE x = b
    <3>1. Users(x)' = Users(x) \ {p} /\ p \in Users(x)
      <4>1. p \in Users(x) /\ p \notin Users(x)'
        BY <1>1, <2>3, Apart, Zenon DEF Users, b
      <4> QED  BY <1>1, <4>1, Zenon DEF Users
    <3>2. Cardinality(Users(x) \ {p}) = Cardinality(Users(x)) - 1
      BY <2>1, <3>1, FinRemove, Zenon
    <3>3. CASE pinned' = pinned /\ buf'[b].ref = buf[b].ref - 1
      <4>1. Pins(x)' = Pins(x) /\ Pins(x) \in {0, 1}
        BY <1>2, <3>3, Zenon DEF Pins
      <4> QED  BY <2>1, <2>3, <3>1, <3>2, <3>3, <4>1
    <3>4. CASE n \in pinned /\ pinned' = pinned \ {n} /\ buf'[b].ref = buf[b].ref - 2
      <4>1. Pins(x)' = 0 /\ Pins(x) = 1
        BY <1>1, <2>3, <3>4, ZenonT(60) DEF Pins
      <4> QED  BY <2>1, <2>3, <3>1, <3>2, <3>4, <4>1
    <3> QED  BY <1>1, <3>3, <3>4, Zenon
  <2> QED  BY <2>2, <2>3, Zenon
<1>7. \A a, x \in Bufs : buf'[a].no = buf'[x].no /\ buf'[a].no # None => a = x
  BY <1>2 DEF LookupInv
<1>8. \A q \in Procs : InCall(q)' => buf'[c'[q].b].no = c'[q].no
  BY <1>2, <1>3, SMTT(30) DEF LookupInv, CallInv
<1>9. \A m \in pinned' : \E x \in Bufs : buf'[x].no = m
  BY <1>1, <1>2 DEF LookupInv
<1> QED  BY <1>4, <1>5, <1>6, <1>7, <1>8, <1>9, Zenon DEF LookupInv

LEMMA BrelseData ==
  ASSUME Counting, IInv, NEW p \in Procs, Brelse(p)
  PROVE  DataInv'
<1> DEFINE b == c[p].b
           n == c[p].no
<1>1. TypeOK /\ CallInv /\ LookupInv /\ DataInv /\ CallData(p)
  BY Zenon DEF IInv, DataInv
<1>2. /\ c[p].pc \in {"hold", "written", "changed"} /\ b \in Bufs /\ UNCHANGED <<disk, store, panicked>>
      /\ OtherCalls(p) /\ OtherBufs(b) /\ CallIs(c'[p], "idle", None, None, FALSE, 0)
  BY <1>1, BrelseEffect, Zenon
<1>3. \/ /\ pinned' = pinned
         /\ BufIs(buf'[b], buf[b].no, buf[b].ref - 1, buf[b].valid, buf[b].disk, None, buf[b].data)
      \/ /\ c[p].pc = "written" /\ n \in pinned /\ pinned' = pinned \ {n}
         /\ BufIs(buf'[b], buf[b].no, buf[b].ref - 2, buf[b].valid, buf[b].disk, None, buf[b].data)
  BY <1>1, BrelseEffect, Zenon
<1>4. \A x \in Bufs : buf'[x].no = buf[x].no /\ buf'[x].valid = buf[x].valid /\ buf'[x].data = buf[x].data
  <2>1. buf'[b].no = buf[b].no /\ buf'[b].valid = buf[b].valid /\ buf'[b].data = buf[b].data
    BY <1>3 DEF BufIs
  <2> QED  BY <1>2, <2>1, ZenonT(60) DEF OtherBufs
<1>5. store' = store /\ avail' = avail
  BY <1>2, Zenon DEF disk
<1>6. \A m \in pinned : m \in pinned' \/ store'[m]
  BY <1>1, <1>3, <1>5, Zenon DEF CallData
<1>7. \A q \in Procs : q # p => SameCall(q) /\ CallData(q)'
  BY <1>2, <1>4, <1>5, HolderData, Zenon
<1>8. ~Pending(p)
  BY <1>2 DEF Pending
<1>9. \A m \in Blocks : store'[m] \/ \E x \in Bufs : Latest(x, m)'
  BY <1>4, <1>5, <1>6, <1>7, <1>8, HolderLatest, ZenonT(60)
<1>10. CallData(p)'
  BY <1>2 DEF CallIs, CallData, Pending, Answered
<1>11. \A x \in Bufs : buf'[x].valid => buf'[x].data
  BY <1>1, <1>4, Zenon DEF DataInv
<1> QED  BY <1>7, <1>9, <1>10, <1>11, Zenon DEF DataInv

-----------------------------------------------------------------------------
(* The steps of bio.c. *)

LEMMA BioRequests ==
  ASSUME Counting, IInv, NEW p \in Procs, Bget(p) \/ Lock(p) \/ Change(p) \/ Brelse(p)
  PROVE  ReqInv' /\ RingInv'
<1> USE Zenon DEF IInv
<1>1. CASE Bget(p)
  <2>1. c[p].pc = "idle" /\ (UNCHANGED <<buf, disk, c>> \/ \E n \in Blocks, b \in Bufs : Looked(p, n, b))
    BY <1>1, BgetEffect
  <2>2. CASE UNCHANGED <<buf, disk, c>>
    <3>1. c[p].pc \notin Asks /\ c'[p].pc \notin Asks
      BY <2>1, <2>2 DEF Asks
    <3> QED  BY <2>2, <3>1, OffDisk DEF OtherCalls
  <2>3. CASE \E n \in Blocks, b \in Bufs : Looked(p, n, b)
    <3>1. PICK n \in Blocks, b \in Bufs : Looked(p, n, b)
      BY <2>3
    <3>2. c'[p].pc = "lock" /\ OtherCalls(p) /\ UNCHANGED disk
      BY <3>1 DEF Looked, CallIs
    <3>3. \A x \in Bufs : buf'[x].disk = buf[x].disk
      BY <3>1 DEF Looked, BufIs, OtherBufs
    <3>4. c[p].pc \notin Asks /\ c'[p].pc \notin Asks
      BY <2>1, <3>2 DEF Asks
    <3> QED  BY <3>2, <3>3, <3>4, OffDisk
  <2> QED  BY <2>1, <2>2, <2>3
<1>2. CASE Lock(p)
  <2> DEFINE b == c[p].b
  <2>1. c[p].pc = "lock" /\ OtherCalls(p) /\ OtherBufs(b) /\ UNCHANGED disk
    BY <1>2, LockEffect
  <2>2. /\ CallIs(c'[p], IF buf[b].valid THEN "hold" ELSE "rw", c[p].no, b, c[p].write, c[p].h)
        /\ BufIs(buf'[b], buf[b].no, buf[b].ref, buf[b].valid, buf[b].disk, p, buf[b].data)
    BY <1>2, LockEffect
  <2>3. \A x \in Bufs : buf'[x].disk = buf[x].disk
    BY <2>1, <2>2 DEF BufIs, OtherBufs
  <2>4. c[p].pc \notin Asks /\ c'[p].pc \notin Asks
    BY <2>1, <2>2 DEF Asks, CallIs
  <2> QED  BY <2>1, <2>3, <2>4, OffDisk
<1>3. CASE Change(p)
  <2> DEFINE b == c[p].b
             n == c[p].no
  <2>1. c[p].pc = "hold" /\ OtherCalls(p) /\ OtherBufs(b) /\ UNCHANGED disk
    BY <1>3, ChangeEffect
  <2>2. CallIs(c'[p], "rw", n, b, TRUE, c[p].h) \/ CallIs(c'[p], "changed", n, b, c[p].write, c[p].h)
    BY <1>3, ChangeEffect, ZenonT(60)
  <2>3. \E r : BufIs(buf'[b], buf[b].no, r, buf[b].valid, buf[b].disk, buf[b].lock, TRUE)
    BY <1>3, ChangeEffect, ZenonT(60)
  <2>4. \A x \in Bufs : buf'[x].disk = buf[x].disk
    BY <2>1, <2>3 DEF BufIs, OtherBufs
  <2>5. c[p].pc \notin Asks /\ c'[p].pc \notin Asks
    BY <2>1, <2>2 DEF Asks, CallIs
  <2> QED  BY <2>1, <2>4, <2>5, OffDisk
<1>4. CASE Brelse(p)
  <2> DEFINE b == c[p].b
  <2>1. /\ c[p].pc \in {"hold", "written", "changed"} /\ OtherCalls(p) /\ OtherBufs(b) /\ UNCHANGED disk
        /\ CallIs(c'[p], "idle", None, None, FALSE, 0)
    BY <1>4, BrelseEffect
  <2>2. \E r : BufIs(buf'[b], buf[b].no, r, buf[b].valid, buf[b].disk, None, buf[b].data)
    BY <1>4, BrelseEffect
  <2>3. \A x \in Bufs : buf'[x].disk = buf[x].disk
    BY <2>1, <2>2 DEF BufIs, OtherBufs
  <2>4. c[p].pc \notin Asks /\ c'[p].pc \notin Asks
    BY <2>1 DEF Asks, CallIs
  <2> QED  BY <2>1, <2>3, <2>4, OffDisk
<1> QED  BY <1>1, <1>2, <1>3, <1>4

LEMMA BioStep ==
  ASSUME Counting, IInv, NEW p \in Procs, Bget(p) \/ Lock(p) \/ Change(p) \/ Brelse(p)
  PROVE  IInv'
<1>1. TypeOK /\ CallInv /\ LookupInv /\ LockInv
  BY Zenon DEF IInv
<1>2. ReqInv' /\ RingInv'
  BY BioRequests, Zenon
<1>3. CASE Bget(p)
  <2>1. TypeOK' /\ c[p].pc = "idle" /\ ~panicked
    BY <1>1, <1>3, BgetEffect, Zenon
  <2>2. CASE panicked' = TRUE /\ Unused = {} /\ UNCHANGED <<buf, lru, disk, store, pinned, c>>
    <3>1. Frame
      BY <2>2, Framed, Zenon DEF Frame
    <3>2. CallInv' /\ LookupInv' /\ LockInv' /\ InUse' = InUse
      BY <1>1, <3>1, FrameKeeps, Zenon
    <3>3. PanicsOnlyFull'
      BY <1>1, <2>2, <3>2, AllInUse, Zenon DEF PanicsOnlyFull
    <3>4. DataInv'
      <4>1. \A q \in Procs : SameCall(q)
        BY <2>2, SameStays, Zenon DEF disk
      <4> QED  BY <1>1, <2>2, <4>1, StillData, Zenon DEF IInv
    <3> QED  BY <1>2, <2>1, <3>2, <3>3, <3>4, Zenon DEF IInv
  <2>3. CASE \E n \in Blocks, b \in Bufs : Looked(p, n, b)
    <3>1. PICK n \in Blocks, b \in Bufs : Looked(p, n, b)
      BY <2>3, Zenon
    <3>2. CallInv' /\ LookupInv' /\ LockInv'
      BY <1>1, <2>1, <3>1, BgetLookup, Zenon
    <3>3. DataInv'
      BY <2>1, <3>1, BgetData, Zenon
    <3>4. PanicsOnlyFull'
      BY <2>1, <3>1, Zenon DEF Looked, PanicsOnlyFull
    <3> QED  BY <1>2, <2>1, <3>2, <3>3, <3>4, Zenon DEF IInv
  <2> QED  BY <1>1, <1>3, <2>2, <2>3, BgetEffect, Zenon
<1>4. CASE Lock(p)
  <2>1. TypeOK' /\ PanicsOnlyFull'
    <3>1. panicked' = panicked /\ ~panicked
      BY <1>4, Zenon DEF Lock, At
    <3> QED  BY <1>1, <1>4, <3>1, LockEffect, Zenon DEF PanicsOnlyFull
  <2> QED  BY <1>1, <1>2, <1>4, <2>1, LockLookup, LockData, ZenonT(60) DEF IInv
<1>5. CASE Change(p)
  <2>1. TypeOK' /\ PanicsOnlyFull'
    <3>1. panicked' = panicked /\ ~panicked
      BY <1>5, Zenon DEF Change, At
    <3> QED  BY <1>1, <1>5, <3>1, ChangeEffect, Zenon DEF PanicsOnlyFull
  <2> QED  BY <1>1, <1>2, <1>5, <2>1, ChangeLookup, ChangeData, ZenonT(60) DEF IInv
<1>6. CASE Brelse(p)
  <2>1. TypeOK' /\ PanicsOnlyFull'
    <3>1. panicked' = panicked /\ ~panicked
      BY <1>6, Zenon DEF Brelse
    <3> QED  BY <1>1, <1>6, <3>1, BrelseEffect, Zenon DEF PanicsOnlyFull
  <2> QED  BY <1>1, <1>2, <1>6, <2>1, BrelseLookup, BrelseData, Zenon DEF IInv
<1> QED  BY <1>3, <1>4, <1>5, <1>6, Zenon

-----------------------------------------------------------------------------
(* virtio_disk_rw() passes a request to the disk. *)

LEMMA SubmitEffect ==
  ASSUME Counting, TypeOK, CallInv, NEW p \in Procs, Submit(p), NEW b, b = c[p].b
  PROVE  /\ TypeOK' /\ c[p].pc = "rw" /\ b \in Bufs /\ ~intr
         /\ UNCHANGED <<lru, store, pinned, panicked>>
         /\ \/ /\ Cardinality(free) < 3 /\ UNCHANGED <<buf, disk>>
               /\ CallIs(c'[p], "descsleep", c[p].no, b, c[p].write, c[p].h)
               /\ (\A q \in Procs : q # p => Stirred(q)) \/ OtherCalls(p)
            \/ \E h \in Descs :
               /\ Cardinality(free) >= 3 /\ h = Min(free)
               /\ free' = free \ Lowest3 /\ avail' = avail \cup {h} /\ UNCHANGED <<used, irq, intr>>
               /\ desc'[h].chain = Lowest3 /\ desc'[h].write = c[p].write /\ desc'[h].b = b
               /\ \A d \in Descs : d # h => desc'[d] = desc[d]
               /\ OtherBufs(b)
               /\ BufIs(buf'[b], buf[b].no, buf[b].ref, buf[b].valid, TRUE, buf[b].lock, buf[b].data)
               /\ OtherCalls(p) /\ CallIs(c'[p], "disksleep", c[p].no, b, c[p].write, h)
<1>1. c[p].pc = "rw" /\ ~intr /\ b \in Bufs /\ UNCHANGED <<lru, store, pinned, panicked>> /\ c[p] \in CallType
  BY Zenon DEF Submit, At, CallInv, InCall, TypeOK
<1>2. CASE Cardinality(free) < 3
  <2> DEFINE w == IF free = {} THEN c ELSE WakeDesc(c)
             r == [w[p] EXCEPT !.pc = "descsleep"]
  <2>1. c' = [w EXCEPT ![p] = r] /\ UNCHANGED <<buf, disk>>
    BY <1>2, Zenon DEF Submit
  <2>2. w \in [Procs -> CallType] /\ w[p] = c[p]
    BY <1>1, WakeDescType, Zenon DEF TypeOK
  <2>3. CallIs(r, "descsleep", c[p].no, b, c[p].write, c[p].h)
    BY <1>1, <2>2, Zenon DEF CallType, CallIs, Pcs
  <2>4. c' \in [Procs -> CallType] /\ c'[p] = r /\ \A q \in Procs : q # p => c'[q] = w[q]
    <3> HIDE DEF w, r
    <3> QED  BY <2>1, <2>2, <2>3, Zenon DEF CallIs
  <2>5. (\A q \in Procs : q # p => Stirred(q)) \/ OtherCalls(p)
    BY <2>4, WakeDescType, Zenon DEF OtherCalls, Stirred
  <2>6. TypeOK'
    BY <1>1, <2>1, <2>4, Zenon DEF TypeOK, disk
  <2> QED  BY <1>1, <1>2, <2>1, <2>3, <2>4, <2>5, <2>6, ZenonT(60)
<1>3. CASE ~(Cardinality(free) < 3)
  <2> DEFINE h == Min(free)
             q == [chain |-> Lowest3, write |-> c[p].write, b |-> b]
             e == [buf[b] EXCEPT !.disk = TRUE]
             r == [c[p] EXCEPT !.pc = "disksleep", !.h = h]
  <2>1. /\ free' = free \ Lowest3 /\ desc' = [desc EXCEPT ![h] = q] /\ avail' = avail \cup {h}
        /\ buf' = [buf EXCEPT ![b] = e] /\ c' = [c EXCEPT ![p] = r] /\ UNCHANGED <<used, irq, intr>>
    BY <1>3, Zenon DEF Submit
  <2>2. Cardinality(free) >= 3
    <3>1. IsFiniteSet(free)
      <4>1. IsFiniteSet(0..NUM - 1)
        BY FinInterval, SizesAssumption
      <4> QED  BY <4>1, FinSubset, Zenon DEF TypeOK, Descs
    <3>2. Cardinality(free) \in Nat
      BY <3>1, FinCardinality, Zenon
    <3> QED  BY <1>3, <3>2
  <2>3. h \in Descs /\ Lowest3 \in SUBSET Descs
    BY <2>2, AllocThree, Zenon DEF TypeOK
  <2> HIDE DEF h
  <2>4. q \in ReqType /\ q.chain = Lowest3 /\ q.write = c[p].write /\ q.b = b
    BY <1>1, <2>3, Zenon DEF ReqType, CallType
  <2>5. desc' \in [Descs -> ReqType] /\ desc'[h] = q /\ \A d \in Descs : d # h => desc'[d] = desc[d]
    <3> HIDE DEF q
    <3> QED  BY <2>1, <2>3, <2>4, ZenonT(60) DEF TypeOK
  <2>6. buf[b] \in BufType
    BY <1>1, Zenon DEF TypeOK
  <2>7. BufIs(e, buf[b].no, buf[b].ref, buf[b].valid, TRUE, buf[b].lock, buf[b].data)
    BY <2>6, Zenon DEF BufType, BufIs
  <2>8. buf' \in [Bufs -> BufType] /\ buf'[b] = e /\ OtherBufs(b)
    BY <1>1, <2>1, <2>7, PutBuf, Zenon DEF BufIs
  <2>9. CallIs(r, "disksleep", c[p].no, b, c[p].write, h)
    BY <1>1, <2>3, Zenon DEF CallType, CallIs, Pcs
  <2>10. c' \in [Procs -> CallType] /\ c'[p] = r /\ OtherCalls(p)
    BY <2>1, <2>9, PutCall, ZenonT(60) DEF CallIs
  <2>11. TypeOK'
    BY <1>1, <2>1, <2>3, <2>5, <2>8, <2>10, ZenonT(60) DEF TypeOK, disk
  <2> HIDE DEF q, e, r
  <2>12. h = Min(free)
    BY DEF h
  <2>13. /\ desc'[h].chain = Lowest3 /\ desc'[h].write = c[p].write /\ desc'[h].b = b
         /\ BufIs(buf'[b], buf[b].no, buf[b].ref, buf[b].valid, TRUE, buf[b].lock, buf[b].data)
         /\ CallIs(c'[p], "disksleep", c[p].no, b, c[p].write, h)
    BY <2>4, <2>5, <2>7, <2>8, <2>9, <2>10, ZenonT(60)
  <2> QED  BY <1>1, <2>1, <2>2, <2>3, <2>5, <2>8, <2>10, <2>11, <2>12, <2>13, ZenonT(60)
<1> QED  BY <1>2, <1>3, Zenon

LEMMA SubmitFrame ==
  ASSUME Counting, TypeOK, CallInv, NEW p \in Procs, Submit(p)
  PROVE  Frame
<1> DEFINE b == c[p].b
<1>1. c[p].pc = "rw" /\ b \in Bufs /\ pinned' = pinned
  BY SubmitEffect, Zenon
<1>2. \/ buf' = buf
      \/ OtherBufs(b) /\ BufIs(buf'[b], buf[b].no, buf[b].ref, buf[b].valid, TRUE, buf[b].lock, buf[b].data)
  BY SubmitEffect, Zenon
<1>3. /\ \/ CallIs(c'[p], "descsleep", c[p].no, b, c[p].write, c[p].h)
         \/ \E h \in Descs : CallIs(c'[p], "disksleep", c[p].no, b, c[p].write, h)
      /\ (\A q \in Procs : q # p => Stirred(q)) \/ OtherCalls(p)
  BY SubmitEffect, Zenon
<1>4. ASSUME NEW x \in Bufs PROVE BufFrame(x)
  <2>1. CASE buf'[x] = buf[x]
    BY <2>1, Framed, Zenon
  <2>2. CASE x = b /\ BufIs(buf'[b], buf[b].no, buf[b].ref, buf[b].valid, TRUE, buf[b].lock, buf[b].data)
    BY <2>2, ZenonT(60) DEF BufIs, BufFrame
  <2> QED  BY <1>2, <2>1, <2>2, Zenon DEF OtherBufs
<1>5. CallFrame(p)
  BY <1>1, <1>3 DEF CallIs, CallFrame, InCall, Locking
<1>6. \A q \in Procs : CallFrame(q)
  BY <1>3, <1>5, Framed, Zenon DEF OtherCalls
<1> QED  BY <1>1, <1>4, <1>6, Zenon DEF Frame

LEMMA SubmitRequests ==
  ASSUME Counting, IInv, NEW p \in Procs, Submit(p)
  PROVE  ReqInv' /\ RingInv'
<1> DEFINE b == c[p].b
<1>1. TypeOK /\ TypeOK' /\ CallInv /\ LockInv /\ ReqInv /\ RingInv
  BY SubmitEffect, Zenon DEF IInv
<1>2. c[p].pc = "rw" /\ b \in Bufs /\ p \notin Waiting /\ Locking(p)
  <2>1. c[p].pc = "rw" /\ b \in Bufs
    BY <1>1, SubmitEffect, Zenon
  <2> QED  BY <2>1, Zenon DEF Waiting, Locking
<1>3. CASE /\ Cardinality(free) < 3 /\ UNCHANGED <<buf, disk>>
           /\ CallIs(c'[p], "descsleep", c[p].no, b, c[p].write, c[p].h)
           /\ (\A q \in Procs : q # p => Stirred(q)) \/ OtherCalls(p)
  <2>1. c'[p].pc = "descsleep"
    BY <1>3, Zenon DEF CallIs
  <2>2. \A q \in Procs : q # p => c'[q] = c[q] \/ (c[q].pc = "descsleep" /\ c'[q].pc = "rw")
    BY <1>3, Zenon DEF Stirred, OtherCalls, CallIs
  <2>3. \A q \in Procs : c[q].pc \in {"disksleep", "woken"} \/ c'[q].pc \in {"disksleep", "woken"}
                           => c'[q] = c[q]
    <3>1. ASSUME NEW q \in Procs, c[q].pc \in {"disksleep", "woken"} \/ c'[q].pc \in {"disksleep", "woken"}
          PROVE  c'[q] = c[q]
      BY <1>2, <2>1, <2>2, <3>1
    <3> QED  BY <3>1, Zenon
  <2>4. Waiting' = Waiting /\ \A q \in Waiting : c'[q] = c[q]
    BY <2>3, Zenon DEF Waiting
  <2>5. ReqInv'
    BY <1>1, <1>3, <2>4, ReqKept, Zenon DEF disk
  <2>6. Waiting # {}
    <3>1. Cardinality(Waiting) # 0
      BY <1>1, <1>3, Finite, SizesAssumption DEF ReqInv
    <3> QED  BY <3>1, FinEmpty, ZenonT(60)
  <2>7. \A q \in Procs : c'[q].pc = "disksleep" => c'[q].h \in avail' \cup Range(used')
    BY <1>1, <1>3, <2>3, ZenonT(60) DEF RingInv, disk
  <2>8. \A h \in avail' \cup Range(used') : \E q \in Procs : c'[q].pc = "disksleep" /\ c'[q].h = h
    BY <1>1, <1>3, <2>3 DEF RingInv, disk
  <2>9. \A q \in Procs : c'[q].pc = "woken" => ~buf'[c'[q].b].disk
    BY <1>1, <1>3, <2>3, Zenon DEF RingInv, disk
  <2>10. /\ \A i \in 1..Len(used') : used'[i] \notin avail' /\ \A j \in 1..Len(used') : used'[i] = used'[j] => i = j
         /\ used' # <<>> => irq' \/ intr'
    BY <1>1, <1>3, Zenon DEF RingInv, disk
  <2> QED  BY <2>4, <2>5, <2>6, <2>7, <2>8, <2>9, <2>10, ZenonT(60) DEF RingInv
<1>4. ASSUME NEW h \in Descs,
             /\ Cardinality(free) >= 3 /\ h = Min(free)
             /\ free' = free \ Lowest3 /\ avail' = avail \cup {h} /\ UNCHANGED <<used, irq, intr>>
             /\ desc'[h].chain = Lowest3 /\ desc'[h].write = c[p].write /\ desc'[h].b = b
             /\ \A d \in Descs : d # h => desc'[d] = desc[d]
             /\ OtherBufs(b)
             /\ BufIs(buf'[b], buf[b].no, buf[b].ref, buf[b].valid, TRUE, buf[b].lock, buf[b].data)
             /\ OtherCalls(p) /\ CallIs(c'[p], "disksleep", c[p].no, b, c[p].write, h)
      PROVE  ReqInv' /\ RingInv'
  <2>1. Lowest3 \subseteq free /\ Cardinality(Lowest3) = 3 /\ h \in Lowest3 /\ h \in free
    BY <1>1, <1>4, AllocThree, Zenon
  <2>2. c'[p].pc = "disksleep" /\ c'[p].b = b /\ c'[p].write = c[p].write /\ c'[p].h = h
    BY <1>4, Zenon DEF CallIs
  <2>3. \A q \in Procs : q # p => c'[q] = c[q]
    BY <1>4, Zenon DEF OtherCalls
  <2>4. Waiting' = Waiting \cup {p} /\ \A q \in Waiting : q \in Procs /\ q # p /\ c'[q] = c[q]
    BY <1>2, <2>2, <2>3, Zenon DEF Waiting
  <2>5. ASSUME NEW q \in Waiting PROVE c[q].h \in Descs /\ c[q].h # h /\ desc'[c[q].h] = desc[c[q].h]
    <3>1. c[q].h \in Descs
      BY <1>1, Requester, Zenon
    <3>2. c[q].h \in desc[c[q].h].chain /\ desc[c[q].h].chain \cap free = {}
      BY <1>1, Zenon DEF ReqInv
    <3>3. c[q].h # h
      BY <2>1, <3>2, Zenon
    <3> QED  BY <1>4, <3>1, <3>3, Zenon
  <2>6. \A q \in Waiting' : /\ c'[q].h \in desc'[c'[q].h].chain
                            /\ desc'[c'[q].h].b = c'[q].b /\ desc'[c'[q].h].write = c'[q].write
                            /\ Cardinality(desc'[c'[q].h].chain) = 3
                            /\ desc'[c'[q].h].chain \cap free' = {}
    <3>1. ASSUME NEW q \in Waiting
          PROVE  /\ c'[q].h \in desc'[c'[q].h].chain
                 /\ desc'[c'[q].h].b = c'[q].b /\ desc'[c'[q].h].write = c'[q].write
                 /\ Cardinality(desc'[c'[q].h].chain) = 3
                 /\ desc'[c'[q].h].chain \cap free' = {}
      <4>1. c'[q] = c[q] /\ desc'[c[q].h] = desc[c[q].h]
        BY <2>4, <2>5, Zenon
      <4>2. /\ c[q].h \in desc[c[q].h].chain
            /\ desc[c[q].h].b = c[q].b /\ desc[c[q].h].write = c[q].write
            /\ Cardinality(desc[c[q].h].chain) = 3
            /\ desc[c[q].h].chain \cap free = {}
        BY <1>1, Zenon DEF ReqInv
      <4>3. desc[c[q].h].chain \cap free' = {}
        BY <1>4, <4>2, ZenonT(60)
      <4> QED  BY <4>1, <4>2, <4>3, Zenon
    <3>2. /\ c'[p].h \in desc'[c'[p].h].chain
          /\ desc'[c'[p].h].b = c'[p].b /\ desc'[c'[p].h].write = c'[p].write
          /\ Cardinality(desc'[c'[p].h].chain) = 3
          /\ desc'[c'[p].h].chain \cap free' = {}
      BY <1>4, <2>1, <2>2, SMTT(30)
    <3> QED  BY <2>4, <3>1, <3>2, ZenonT(60)
  <2>7. \A q, r \in Waiting' : q # r => desc'[c'[q].h].chain \cap desc'[c'[r].h].chain = {}
    <3>1. \A q \in Waiting : desc'[c'[q].h].chain \cap free = {} /\ desc'[c'[q].h].chain = desc[c[q].h].chain
      BY <1>1, <2>4, <2>5 DEF ReqInv
    <3>2. desc'[c'[p].h].chain \subseteq free
      BY <1>4, <2>1, <2>2, ZenonT(60)
    <3>3. \A q, r \in Waiting : q # r => desc'[c'[q].h].chain \cap desc'[c'[r].h].chain = {}
      BY <1>1, <3>1, SMTT(30) DEF ReqInv
    <3>4. \A q \in Waiting : /\ desc'[c'[q].h].chain \cap desc'[c'[p].h].chain = {}
                             /\ desc'[c'[p].h].chain \cap desc'[c'[q].h].chain = {}
      BY <3>1, <3>2
    <3> QED  BY <2>4, <3>3, <3>4, SMTT(30)
  <2>8. Cardinality(free') + 3 * Cardinality(Waiting') = NUM
    <3>1. Cardinality(Waiting') = Cardinality(Waiting) + 1
      BY <1>1, <1>2, <2>4, Finite, FinAdd, ZenonT(60)
    <3>2. Cardinality(free') = Cardinality(free) - Cardinality(free \cap Lowest3)
      <4>1. IsFiniteSet(free) /\ IsFiniteSet(Lowest3)
        BY <1>1, <2>1, Finite, FinSubset, Zenon
      <4> QED  BY <1>4, <4>1, FinDifference, Zenon
    <3>3. free \cap Lowest3 = Lowest3
      BY <2>1, Zenon
    <3>4. Cardinality(free) + 3 * Cardinality(Waiting) = NUM /\ Cardinality(Waiting) \in Nat /\ Cardinality(free) \in Nat
      BY <1>1, Finite, Zenon DEF ReqInv
    <3>5. Cardinality(free') = Cardinality(free) - 3
      BY <2>1, <3>2, <3>3, Zenon
    <3> QED  BY <3>1, <3>4, <3>5, SizesAssumption
  <2>9. ReqInv'
    BY <2>6, <2>7, <2>8, ZenonT(60) DEF ReqInv
  <2>10. \A q \in Procs : c'[q].pc = "disksleep" => c'[q].h \in avail' \cup Range(used')
    BY <1>1, <1>4, <2>2, <2>3 DEF RingInv
  <2>11. \A d \in avail' \cup Range(used') : \E q \in Procs : c'[q].pc = "disksleep" /\ c'[q].h = d
    <3>1. \A d \in avail \cup Range(used) : \E q \in Waiting : c[q].pc = "disksleep" /\ c[q].h = d
      BY <1>1, Zenon DEF RingInv, Waiting
    <3>2. \A d \in avail \cup Range(used) : \E q \in Procs : c'[q].pc = "disksleep" /\ c'[q].h = d
      BY <2>4, <3>1
    <3> QED  BY <1>4, <2>2, <3>2, Zenon
  <2>12. \A i \in 1..Len(used') : used'[i] \notin avail' /\ \A j \in 1..Len(used') : used'[i] = used'[j] => i = j
    <3>1. ASSUME NEW i \in 1..Len(used) PROVE used[i] # h
      <4>1. used[i] \in Range(used)
        BY <1>1, RingRange, Zenon DEF TypeOK
      <4>2. PICK q \in Procs : c[q].pc = "disksleep" /\ c[q].h = used[i]
        BY <1>1, <4>1, Zenon DEF RingInv
      <4>3. q \in Waiting
        BY <4>2, Zenon DEF Waiting
      <4> QED  BY <2>5, <4>2, <4>3, Zenon
    <3> QED  BY <1>1, <1>4, <3>1, Zenon DEF RingInv
  <2>13. \A q \in Procs : c'[q].pc = "woken" => ~buf'[c'[q].b].disk
    <3>1. ASSUME NEW q \in Procs, c'[q].pc = "woken" PROVE ~buf'[c'[q].b].disk
      <4>1. q # p /\ c'[q] = c[q] /\ Locking(q) /\ InCall(q)
        BY <2>2, <2>3, <3>1 DEF Locking, InCall
      <4>2. c[q].b # b /\ c[q].b \in Bufs /\ ~buf[c[q].b].disk
        BY <1>1, <1>2, <3>1, <4>1, OneLocker, ZenonT(60) DEF CallInv, RingInv
      <4> QED  BY <1>4, <4>1, <4>2, ZenonT(60) DEF OtherBufs
    <3> QED  BY <3>1, Zenon
  <2>14. \A q \in Procs : c'[q].pc = "descsleep" => Waiting' # {}
    BY <2>4, Zenon
  <2>15. used' # <<>> => irq' \/ intr'
    BY <1>1, <1>4, Zenon DEF RingInv
  <2> QED  BY <2>9, <2>10, <2>11, <2>12, <2>13, <2>14, <2>15, ZenonT(60) DEF RingInv
<1> QED
  <2>1. \/ /\ Cardinality(free) < 3 /\ UNCHANGED <<buf, disk>>
           /\ CallIs(c'[p], "descsleep", c[p].no, b, c[p].write, c[p].h)
           /\ (\A q \in Procs : q # p => Stirred(q)) \/ OtherCalls(p)
        \/ \E h \in Descs :
           /\ Cardinality(free) >= 3 /\ h = Min(free)
           /\ free' = free \ Lowest3 /\ avail' = avail \cup {h} /\ UNCHANGED <<used, irq, intr>>
           /\ desc'[h].chain = Lowest3 /\ desc'[h].write = c[p].write /\ desc'[h].b = b
           /\ \A d \in Descs : d # h => desc'[d] = desc[d]
           /\ OtherBufs(b)
           /\ BufIs(buf'[b], buf[b].no, buf[b].ref, buf[b].valid, TRUE, buf[b].lock, buf[b].data)
           /\ OtherCalls(p) /\ CallIs(c'[p], "disksleep", c[p].no, b, c[p].write, h)
    BY <1>1, SubmitEffect, Zenon
  <2> QED  BY <1>3, <1>4, <2>1, Zenon

LEMMA SubmitData ==
  ASSUME Counting, IInv, NEW p \in Procs, Submit(p)
  PROVE  DataInv'
<1> DEFINE b == c[p].b
<1>1. TypeOK /\ CallInv /\ DataInv /\ ReqInv
  BY Zenon DEF IInv
<1>2. c[p].pc = "rw" /\ b \in Bufs /\ UNCHANGED <<lru, store, pinned, panicked>>
  BY <1>1, SubmitEffect, Zenon
<1>3. CASE /\ UNCHANGED <<buf, disk>> /\ CallIs(c'[p], "descsleep", c[p].no, b, c[p].write, c[p].h)
           /\ (\A q \in Procs : q # p => Stirred(q)) \/ OtherCalls(p)
  <2>1. avail' = avail /\ buf' = buf
    BY <1>3, Zenon DEF disk
  <2>2. \A q \in Procs : q # p => SameCall(q)
    BY <1>3, <2>1, SameStays, StirredStays, ZenonT(60) DEF OtherCalls
  <2>3. SameCall(p)
    BY <1>2, <1>3, Zenon DEF CallIs, SameCall, Pending, Answered
  <2> QED  BY <1>1, <1>2, <2>1, <2>2, <2>3, StillData, Zenon
<1>4. ASSUME NEW h \in Descs, Cardinality(free) >= 3, h = Min(free), avail' = avail \cup {h}, OtherBufs(b),
             BufIs(buf'[b], buf[b].no, buf[b].ref, buf[b].valid, TRUE, buf[b].lock, buf[b].data),
             OtherCalls(p), CallIs(c'[p], "disksleep", c[p].no, b, c[p].write, h)
      PROVE  DataInv'
  <2>1. h \in free
    BY <1>1, <1>4, AllocThree, Zenon
  <2>2. ASSUME NEW q \in Procs, q # p PROVE SameCall(q)
    <3>1. c[q].pc = "disksleep" => c[q].h # h
      <4>1. c[q].pc = "disksleep" => q \in Waiting
        BY Zenon DEF Waiting
      <4>2. q \in Waiting => c[q].h \in desc[c[q].h].chain /\ desc[c[q].h].chain \cap free = {}
        BY <1>1, Zenon DEF ReqInv
      <4> QED  BY <2>1, <4>1, <4>2, Zenon
    <3> QED  BY <1>4, <2>2, <3>1, SameStays, ZenonT(60) DEF OtherCalls
  <2>3. SameCall(p)
    BY <1>2, <1>4, Zenon DEF CallIs, SameCall, Pending, Answered
  <2>4. \A x \in Bufs : buf'[x].no = buf[x].no /\ buf'[x].valid = buf[x].valid /\ buf'[x].data = buf[x].data
    BY <1>4, Zenon DEF OtherBufs, BufIs
  <2> QED  BY <1>1, <1>2, <2>2, <2>3, <2>4, StillData, ZenonT(60)
<1> QED  BY <1>1, <1>3, <1>4, SubmitEffect, ZenonT(60)

-----------------------------------------------------------------------------
(* virtio_disk_rw() has its answer. *)

LEMMA FinishEffect ==
  ASSUME TypeOK, CallInv, ReqInv, RingInv, NEW p \in Procs, Finish(p), NEW b, b = c[p].b, NEW h, h = c[p].h
  PROVE  /\ TypeOK' /\ c[p].pc = "woken" /\ b \in Bufs /\ h \in Descs /\ p \in Waiting
         /\ UNCHANGED <<lru, store, pinned, avail, used, irq, intr>> /\ panicked' = FALSE
         /\ free' = free \cup desc[h].chain
         /\ \A d \in Descs : d # h => desc'[d] = desc[d]
         /\ \A q \in Procs : q # p => Stirred(q)
         /\ CallIs(c'[p], IF c[p].write THEN "written" ELSE "hold", c[p].no, b, c[p].write, 0)
         /\ IF c[p].write THEN buf' = buf
            ELSE /\ OtherBufs(b)
                 /\ BufIs(buf'[b], buf[b].no, buf[b].ref, TRUE, buf[b].disk, buf[b].lock, buf[b].data)
<1> DEFINE x == IF c[p].write THEN "written" ELSE "hold"
           w == WakeDesc(c)
           e == [buf[b] EXCEPT !.valid = TRUE]
           r == [w[p] EXCEPT !.pc = x, !.h = 0]
<1>1. c[p].pc = "woken" /\ p \in Waiting /\ ~buf[b].disk /\ UNCHANGED <<lru, store, pinned>>
  BY Zenon DEF Finish, At, Waiting, RingInv
<1>2. /\ free' = free \cup desc[h].chain /\ desc' = [desc EXCEPT ![h] = NoReq]
      /\ panicked' = (desc[h].chain \cap free # {})
      /\ c' = [w EXCEPT ![p] = r]
      /\ buf' = IF c[p].write THEN buf ELSE [buf EXCEPT ![b] = e]
      /\ UNCHANGED <<avail, used, irq, intr>>
  BY <1>1, Zenon DEF Finish, FreeChain
<1>3. b \in Bufs /\ h \in Descs /\ desc[h].chain \in SUBSET Descs /\ desc[h].chain \cap free = {}
  BY <1>1, Requester, Zenon DEF ReqInv
<1>4. w \in [Procs -> CallType] /\ w[p] = c[p]
  BY <1>1, WakeDescType, Zenon
<1>5. CallIs(r, x, c[p].no, b, c[p].write, 0)
  <2>1. x \in Pcs
    BY Zenon DEF Pcs
  <2>2. c[p] \in CallType
    BY Zenon DEF TypeOK
  <2> HIDE DEF x, w
  <2> QED  BY <1>4, <2>1, <2>2, Apart, ZenonT(60) DEF CallType, CallIs
<1>6. c' \in [Procs -> CallType] /\ c'[p] = r /\ \A q \in Procs : q # p => c'[q] = w[q]
  <2> HIDE DEF w, r
  <2> QED  BY <1>2, <1>4, <1>5, ZenonT(60) DEF CallIs
<1>7. \A q \in Procs : q # p => Stirred(q)
  BY <1>6, WakeDescType, Zenon DEF Stirred
<1>8. desc' \in [Descs -> ReqType] /\ \A d \in Descs : d # h => desc'[d] = desc[d]
  <2>1. NoReq \in ReqType
    BY Zenon DEF NoReq, ReqType
  <2> QED  BY <1>2, <1>3, <2>1, ZenonT(60) DEF TypeOK
<1>9. BufIs(e, buf[b].no, buf[b].ref, TRUE, buf[b].disk, buf[b].lock, buf[b].data)
  <2>1. buf[b] \in BufType
    BY <1>3, Zenon DEF TypeOK
  <2> QED  BY <2>1, Zenon DEF BufType, BufIs
<1>10. CASE c[p].write
  <2>1. buf' = buf
    BY <1>2, <1>10, Zenon
  <2>2. TypeOK'
    BY <1>1, <1>2, <1>3, <1>6, <1>8, <2>1, ZenonT(60) DEF TypeOK
  <2> QED  BY <1>1, <1>2, <1>3, <1>5, <1>6, <1>7, <1>8, <1>10, <2>1, <2>2, ZenonT(60)
<1>11. CASE ~c[p].write
  <2>1. buf' \in [Bufs -> BufType] /\ buf'[b] = e /\ OtherBufs(b)
    BY <1>2, <1>3, <1>9, <1>11, PutBuf, ZenonT(60) DEF BufIs
  <2>2. TypeOK'
    BY <1>1, <1>2, <1>3, <1>6, <1>8, <2>1, ZenonT(60) DEF TypeOK
  <2> QED  BY <1>1, <1>2, <1>3, <1>5, <1>6, <1>7, <1>8, <1>9, <1>11, <2>1, <2>2, ZenonT(60)
<1> QED  BY <1>10, <1>11, Zenon

LEMMA FinishFrame ==
  ASSUME TypeOK, CallInv, ReqInv, RingInv, NEW p \in Procs, Finish(p)
  PROVE  Frame
<1> DEFINE b == c[p].b
<1>1. c[p].pc = "woken" /\ b \in Bufs /\ pinned' = pinned /\ \A q \in Procs : q # p => Stirred(q)
  BY FinishEffect, Zenon
<1>2. CallIs(c'[p], IF c[p].write THEN "written" ELSE "hold", c[p].no, b, c[p].write, 0)
  BY FinishEffect, Zenon
<1>3. \/ buf' = buf
      \/ OtherBufs(b) /\ BufIs(buf'[b], buf[b].no, buf[b].ref, TRUE, buf[b].disk, buf[b].lock, buf[b].data)
  BY FinishEffect, Zenon
<1>4. ASSUME NEW x \in Bufs PROVE BufFrame(x)
  <2>1. CASE buf'[x] = buf[x]
    BY <2>1, Framed, Zenon
  <2>2. CASE x = b /\ BufIs(buf'[b], buf[b].no, buf[b].ref, TRUE, buf[b].disk, buf[b].lock, buf[b].data)
    BY <2>2, ZenonT(60) DEF BufIs, BufFrame
  <2> QED  BY <1>3, <2>1, <2>2, Zenon DEF OtherBufs
<1>5. CallFrame(p)
  BY <1>1, <1>2 DEF CallIs, CallFrame, InCall, Locking
<1>6. \A q \in Procs : CallFrame(q)
  BY <1>1, <1>5, Framed, Zenon
<1> QED  BY <1>1, <1>4, <1>6, Zenon DEF Frame

LEMMA FinishRequests ==
  ASSUME Counting, IInv, NEW p \in Procs, Finish(p)
  PROVE  ReqInv' /\ RingInv'
<1> DEFINE b == c[p].b
           h == c[p].h
<1>1. TypeOK /\ CallInv /\ ReqInv /\ RingInv
  BY ZenonT(60) DEF IInv
<1>2. /\ c[p].pc = "woken" /\ b \in Bufs /\ h \in Descs /\ p \in Waiting
      /\ UNCHANGED <<avail, used, irq, intr>>
      /\ free' = free \cup desc[h].chain
      /\ \A d \in Descs : d # h => desc'[d] = desc[d]
      /\ \A q \in Procs : q # p => Stirred(q)
      /\ \E x \in {"written", "hold"} : CallIs(c'[p], x, c[p].no, b, c[p].write, 0)
  <2>1. UNCHANGED <<lru, store, pinned, avail, used, irq, intr>>
    BY <1>1, FinishEffect, Zenon
  <2>2. CallIs(c'[p], IF c[p].write THEN "written" ELSE "hold", c[p].no, b, c[p].write, 0)
    BY <1>1, FinishEffect, Zenon
  <2>3. \A d \in Descs : d # h => desc'[d] = desc[d]
    <3>1. c[p].pc = "woken" /\ ~buf[b].disk
      BY <1>1, Zenon DEF Finish, At, RingInv
    <3>2. desc' = [desc EXCEPT ![h] = NoReq]
      BY <3>1, Zenon DEF Finish
    <3> QED  BY <1>1, <3>2, Zenon DEF TypeOK
  <2>4. \A q \in Procs : q # p => Stirred(q)
    BY <1>1, FinishEffect, Zenon
  <2>5. /\ c[p].pc = "woken" /\ b \in Bufs /\ h \in Descs /\ p \in Waiting
        /\ free' = free \cup desc[h].chain
    BY <1>1, FinishEffect, Zenon
  <2> QED  BY <2>1, <2>2, <2>3, <2>4, <2>5
<1>3. \A x \in Bufs : buf'[x].disk = buf[x].disk
  <2>1. \/ buf' = buf
        \/ OtherBufs(b) /\ BufIs(buf'[b], buf[b].no, buf[b].ref, TRUE, buf[b].disk, buf[b].lock, buf[b].data)
    BY <1>1, FinishEffect, Zenon
  <2> QED  BY <2>1, Zenon DEF OtherBufs, BufIs
<1> HIDE DEF b, h
<1>4. c'[p].pc \notin {"descsleep", "disksleep", "woken"}
  BY <1>2, Zenon DEF CallIs
<1>5. \A q \in Procs : q # p => c'[q] = c[q] \/ (c[q].pc = "descsleep" /\ c'[q].pc = "rw")
  BY <1>2, Zenon DEF Stirred, CallIs
<1>6. \A q \in Procs : q # p => c'[q].pc # "descsleep"
  BY <1>2 DEF Stirred, CallIs
<1>7. \A q \in Procs : q # p /\ (c[q].pc \in {"disksleep", "woken"} \/ c'[q].pc \in {"disksleep", "woken"})
                         => c'[q] = c[q]
  BY <1>5
<1>8. Waiting' = Waiting \ {p} /\ \A q \in Waiting' : q \in Waiting /\ q # p /\ c'[q] = c[q]
  BY <1>4, <1>7, Zenon DEF Waiting
<1>9. ASSUME NEW q \in Waiting' PROVE c'[q].h = c[q].h /\ desc'[c[q].h] = desc[c[q].h]
  <2>1. c[q].h \in Descs /\ c[q].h # h
    BY <1>1, <1>2, <1>8, <1>9, Requester, HeadsApart, ZenonT(60) DEF h
  <2> QED  BY <1>2, <1>8, <1>9, <2>1, ZenonT(60)
<1>10. \A q \in Waiting' : /\ c'[q].h \in desc'[c'[q].h].chain
                           /\ desc'[c'[q].h].b = c'[q].b /\ desc'[c'[q].h].write = c'[q].write
                           /\ Cardinality(desc'[c'[q].h].chain) = 3
                           /\ desc'[c'[q].h].chain \cap free' = {}
  <2>1. ASSUME NEW q \in Waiting'
        PROVE  /\ c'[q].h \in desc'[c'[q].h].chain
               /\ desc'[c'[q].h].b = c'[q].b /\ desc'[c'[q].h].write = c'[q].write
               /\ Cardinality(desc'[c'[q].h].chain) = 3
               /\ desc'[c'[q].h].chain \cap free' = {}
    <3>1. q \in Waiting /\ q # p /\ c'[q] = c[q] /\ desc'[c[q].h] = desc[c[q].h]
      BY <1>8, <1>9, <2>1, Zenon
    <3>2. desc[c[q].h].chain \cap free = {} /\ desc[c[q].h].chain \cap desc[h].chain = {}
      BY <1>1, <1>2, <3>1, Zenon DEF ReqInv, h
    <3>3. desc[c[q].h].chain \cap free' = {}
      BY <1>2, <3>2, ZenonT(60)
    <3> QED  BY <1>1, <3>1, <3>3 DEF ReqInv
  <2> QED  BY <2>1, ZenonT(60)
<1>11. \A q, r \in Waiting' : q # r => desc'[c'[q].h].chain \cap desc'[c'[r].h].chain = {}
  BY <1>1, <1>8, <1>9, SMTT(30) DEF ReqInv
<1>12. Cardinality(free') + 3 * Cardinality(Waiting') = NUM
  <2>1. Cardinality(Waiting') = Cardinality(Waiting) - 1
    BY <1>1, <1>2, <1>8, Finite, FinRemove, ZenonT(60)
  <2>2. IsFiniteSet(desc[h].chain) /\ Cardinality(desc[h].chain) = 3 /\ free \cap desc[h].chain = {}
    <3>1. desc[h].chain \subseteq Descs /\ Cardinality(desc[h].chain) = 3 /\ free \cap desc[h].chain = {}
      BY <1>1, <1>2, Requester, ZenonT(60) DEF ReqInv, h
    <3>2. IsFiniteSet(0..NUM - 1)
      BY FinInterval, SizesAssumption
    <3> QED  BY <3>1, <3>2, FinSubset, ZenonT(60) DEF Descs
  <2>3. Cardinality(free') = Cardinality(free) + 3 - Cardinality({})
    <3>1. Cardinality(free \cup desc[h].chain)
            = Cardinality(free) + Cardinality(desc[h].chain) - Cardinality(free \cap desc[h].chain)
      BY <1>1, <2>2, Finite, FinUnion, ZenonT(60)
    <3> QED  BY <1>2, <2>2, <3>1, ZenonT(60)
  <2>4. Cardinality({}) = 0
    BY FinEmpty, Zenon
  <2>5. Cardinality(free) + 3 * Cardinality(Waiting) = NUM /\ Cardinality(Waiting) \in Nat /\ Cardinality(free) \in Nat
    BY <1>1, Finite, Zenon DEF ReqInv
  <2> QED  BY <2>1, <2>3, <2>4, <2>5, SizesAssumption, SMTT(30)
<1>13. ReqInv'
  BY <1>10, <1>11, <1>12, ZenonT(60) DEF ReqInv
<1>14. \A q \in Procs : c'[q].pc = "disksleep" => c'[q].h \in avail' \cup Range(used')
  BY <1>1, <1>2, <1>4, <1>7, ZenonT(60) DEF RingInv
<1>15. \A d \in avail' \cup Range(used') : \E q \in Procs : c'[q].pc = "disksleep" /\ c'[q].h = d
  <2>1. ASSUME NEW d \in avail \cup Range(used) PROVE \E q \in Procs : c'[q].pc = "disksleep" /\ c'[q].h = d
    <3>1. PICK q \in Procs : c[q].pc = "disksleep" /\ c[q].h = d
      BY <1>1, ZenonT(60) DEF RingInv
    <3>2. q # p /\ c'[q] = c[q]
      BY <1>2, <1>7, <3>1
    <3> QED  BY <3>1, <3>2, Zenon
  <2> QED  BY <1>2, <2>1, Zenon
<1>16. \A q \in Procs : c'[q].pc = "woken" => ~buf'[c'[q].b].disk
  <2>1. ASSUME NEW q \in Procs, c'[q].pc = "woken" PROVE ~buf'[c'[q].b].disk
    <3>1. q # p /\ c'[q] = c[q] /\ InCall(q)
      BY <1>4, <1>7, <2>1 DEF InCall
    <3>2. c[q].b \in Bufs /\ ~buf[c[q].b].disk
      BY <1>1, <2>1, <3>1, ZenonT(60) DEF CallInv, RingInv
    <3> QED  BY <1>3, <3>1, <3>2, ZenonT(60)
  <2> QED  BY <2>1, Zenon
<1>17. \A q \in Procs : c'[q].pc # "descsleep"
  BY <1>4, <1>6, Zenon
<1>18. /\ \A i \in 1..Len(used') : used'[i] \notin avail' /\ \A j \in 1..Len(used') : used'[i] = used'[j] => i = j
       /\ used' # <<>> => irq' \/ intr'
  BY <1>1, <1>2, ZenonT(60) DEF RingInv
<1> QED  BY <1>13, <1>14, <1>15, <1>16, <1>17, <1>18, ZenonT(60) DEF RingInv

LEMMA FinishData ==
  ASSUME IInv, NEW p \in Procs, Finish(p)
  PROVE  DataInv'
<1> DEFINE b == c[p].b
<1>1. TypeOK /\ CallInv /\ LookupInv /\ ReqInv /\ RingInv /\ DataInv /\ CallData(p)
  BY Zenon DEF IInv, DataInv
<1>2. c[p].pc = "woken" /\ b \in Bufs
  BY <1>1, FinishEffect, Zenon
<1>3. UNCHANGED <<lru, store, pinned, avail, used, irq, intr>>
  BY <1>1, FinishEffect, Zenon
<1>4. \A q \in Procs : q # p => Stirred(q)
  BY <1>1, FinishEffect, Zenon
<1>5. CallIs(c'[p], IF c[p].write THEN "written" ELSE "hold", c[p].no, b, c[p].write, 0)
  BY <1>1, FinishEffect, Zenon
<1>6. IF c[p].write THEN buf' = buf
      ELSE /\ OtherBufs(b)
           /\ BufIs(buf'[b], buf[b].no, buf[b].ref, TRUE, buf[b].disk, buf[b].lock, buf[b].data)
  BY <1>1, FinishEffect, Zenon
<1>7. Answered(p) /\ Locking(p) /\ ~Pending(p)
  BY <1>2 DEF Answered, Locking, Pending
<1>8. /\ buf[b].valid = c[p].write /\ (c[p].write => store[c[p].no]) /\ (~c[p].write => buf[b].data)
  BY <1>1, <1>7, Zenon DEF CallData
<1>9. OtherBufs(b) /\ buf'[b].no = buf[b].no /\ buf'[b].data = buf[b].data /\ buf'[b].valid
  BY <1>6, <1>8, Zenon DEF OtherBufs, BufIs
<1>10. \A q \in Procs : q # p => SameCall(q) /\ CallData(q)'
  BY <1>2, <1>3, <1>4, <1>7, <1>9, HolderData, ZenonT(60)
<1>11. \A x \in Bufs : buf'[x].no = buf[x].no /\ (buf[x].valid => buf'[x].valid)
  BY <1>9, Zenon DEF OtherBufs
<1>12. \A m \in Blocks : store'[m] \/ \E x \in Bufs : Latest(x, m)'
  BY <1>3, <1>7, <1>10, <1>11, HolderLatest, ZenonT(60)
<1>13. CallData(p)'
  <2>1. c'[p].b = b /\ c'[p].no = c[p].no /\ store' = store
    BY <1>3, <1>5, Zenon DEF CallIs
  <2>2. CASE c[p].write
    <3>1. c'[p].pc = "written"
      BY <1>5, <2>2, Zenon DEF CallIs
    <3> QED  BY <1>8, <1>9, <2>1, <2>2, <3>1, ZenonT(60) DEF CallData, Pending, Answered
  <2>3. CASE ~c[p].write
    <3>1. c'[p].pc = "hold"
      BY <1>5, <2>3, Zenon DEF CallIs
    <3> QED  BY <1>9, <2>1, <3>1, Zenon DEF CallData, Pending, Answered
  <2> QED  BY <2>2, <2>3, Zenon
<1>14. \A x \in Bufs : buf'[x].valid => buf'[x].data
  <2>1. buf'[b].data
    BY <1>1, <1>2, <1>8, <1>9, ZenonT(60) DEF DataInv
  <2> QED  BY <1>1, <1>9, <2>1, ZenonT(60) DEF DataInv, OtherBufs
<1> QED  BY <1>10, <1>12, <1>13, <1>14, Zenon DEF DataInv

-----------------------------------------------------------------------------
(* The steps of virtio_disk.c and of the disk. *)

LEMMA DiskStep ==
  ASSUME Counting, IInv, (\E p \in Procs : Submit(p) \/ Finish(p)) \/ IntrAnswer \/ DiskAnswer
  PROVE  IInv'
<1>1. TypeOK /\ CallInv /\ LookupInv /\ LockInv /\ ReqInv /\ RingInv /\ PanicsOnlyFull
  BY Zenon DEF IInv
<1>2. TypeOK' /\ Frame /\ (panicked' = panicked \/ panicked' = FALSE)
  <2>1. ASSUME NEW p \in Procs, Submit(p) PROVE TypeOK' /\ Frame /\ panicked' = panicked
    BY <1>1, <2>1, SubmitEffect, SubmitFrame, ZenonT(60)
  <2>2. ASSUME NEW p \in Procs, Finish(p) PROVE TypeOK' /\ Frame /\ panicked' = FALSE
    BY <1>1, <2>2, FinishEffect, FinishFrame, Zenon
  <2>3. CASE IntrAnswer
    BY <1>1, <2>3, AnswerEffect, AnswerFrame, ZenonT(60)
  <2>4. CASE DiskAnswer
    BY <1>1, <2>4, DiskEffect, DiskFrame, Zenon
  <2> QED  BY <2>1, <2>2, <2>3, <2>4, ZenonT(60)
<1>3. CallInv' /\ LookupInv' /\ LockInv' /\ InUse' = InUse
  BY <1>1, <1>2, FrameKeeps, Zenon
<1>4. PanicsOnlyFull'
  BY <1>1, <1>2, <1>3, Zenon DEF PanicsOnlyFull
<1>5. ReqInv' /\ RingInv' /\ DataInv'
  BY SubmitRequests, FinishRequests, AnswerRequests, DiskRequests,
     SubmitData, FinishData, AnswerData, DiskData, ZenonT(60)
<1> QED  BY <1>2, <1>3, <1>4, <1>5, ZenonT(60) DEF IInv

-----------------------------------------------------------------------------
(* The initial state, and what the invariant says. *)

LEMMA InitInv ==
  ASSUME Counting, Init
  PROVE  IInv
<1>1. ASSUME NEW b \in Bufs PROVE BufIs(buf[b], None, 0, FALSE, FALSE, None, FALSE)
  <2> DEFINE e == [no |-> None, ref |-> 0, valid |-> FALSE, disk |-> FALSE, lock |-> None, data |-> FALSE]
  <2>1. buf[b] = e
    BY Zenon DEF Init, Binit
  <2>2. BufIs(e, None, 0, FALSE, FALSE, None, FALSE)
    BY DEF BufIs, BufType
  <2> QED  BY <2>1, <2>2, Zenon
<1>2. ASSUME NEW p \in Procs PROVE CallIs(c[p], "idle", None, None, FALSE, 0)
  BY IdleCall, Zenon DEF Init
<1>3. /\ free = Descs /\ desc = [d \in Descs |-> NoReq] /\ avail = {} /\ used = <<>>
      /\ irq = FALSE /\ intr = FALSE /\ pinned = {} /\ panicked = FALSE
      /\ store = [n \in Blocks |-> TRUE]
  BY Zenon DEF Init, VirtioDiskInit
<1>4. \A p \in Procs : c[p].pc = "idle" /\ c[p].b = None /\ ~InCall(p)
  BY <1>2, Zenon DEF CallIs, InCall
<1>5. Waiting = {}
  BY <1>4 DEF Waiting
<1>6. TypeOK
  <2>1. buf \in [Bufs -> BufType] /\ c \in [Procs -> CallType]
    BY <1>1, <1>2, Zenon DEF Init, Binit, BufIs, CallIs
  <2>2. lru \in [Bufs -> Bufs] /\ \A b \in Bufs : \E k \in Bufs : lru[k] = b
    <3>1. lru = [k \in Bufs |-> NBUF + 1 - k]
      BY Zenon DEF Init, Binit
    <3>2. \A k \in Bufs : NBUF + 1 - k \in Bufs /\ NBUF + 1 - (NBUF + 1 - k) = k
      BY SizesAssumption DEF Bufs
    <3> QED  BY <3>1, <3>2, Zenon
  <2>3. desc \in [Descs -> ReqType]
    <3>1. NoReq \in ReqType
      BY Zenon DEF NoReq, ReqType
    <3> QED  BY <1>3, <3>1, Zenon
  <2>4. used \in Seq(Descs)
    BY <1>3
  <2> QED  BY <1>3, <2>1, <2>2, <2>3, <2>4, ZenonT(60) DEF TypeOK
<1>7. CallInv /\ LockInv
  BY <1>4 DEF CallInv, LockInv, Locking
<1>8. LookupInv
  <2>1. ASSUME NEW b \in Bufs PROVE buf[b].no = None /\ buf[b].ref = Cardinality(Users(b)) + Pins(b)
    <3>1. None \notin Bufs
      BY SizesAssumption DEF Bufs, None
    <3>2. Users(b) = {}
      BY <1>4, <3>1, Zenon DEF Users
    <3>3. Pins(b) = 0 /\ Cardinality(Users(b)) = 0
      BY <1>3, <3>2, FinEmpty, ZenonT(60) DEF Pins
    <3>4. buf[b].no = None /\ buf[b].ref = 0
      BY <1>1, Zenon DEF BufIs
    <3> QED  BY <3>3, <3>4
  <2> QED  BY <1>3, <1>4, <2>1, ZenonT(60) DEF LookupInv
<1>9. DataInv
  <2>1. \A b \in Bufs : buf[b].valid = FALSE
    BY <1>1, Zenon DEF BufIs
  <2>2. \A n \in Blocks : store[n]
    BY <1>3, ZenonT(60)
  <2>3. \A p \in Procs : CallData(p)
    BY <1>4 DEF CallData, Pending, Answered
  <2> QED  BY <2>1, <2>2, <2>3, ZenonT(60) DEF DataInv
<1>10. ReqInv
  <2>1. Cardinality(free) = NUM
    BY <1>3, SizesAssumption, FinInterval DEF Descs
  <2>2. Cardinality(Waiting) = 0
    BY <1>5, FinEmpty, ZenonT(60)
  <2>3. Cardinality(free) + 3 * Cardinality(Waiting) = NUM
    BY <2>1, <2>2, SizesAssumption, SMTT(30)
  <2> QED  BY <1>5, <2>3, ZenonT(60) DEF ReqInv
<1>11. RingInv
  <2>1. used \in Seq(Descs) /\ \A i \in 1..Len(used) : FALSE
    BY <1>3
  <2>2. Range(used) = {}
    BY <2>1, RingRange, Zenon
  <2> QED  BY <1>3, <1>4, <2>1, <2>2, SMTT(30) DEF RingInv
<1>12. PanicsOnlyFull
  BY <1>3, Zenon DEF PanicsOnlyFull
<1> QED  BY <1>6, <1>7, <1>8, <1>9, <1>10, <1>11, <1>12, ZenonT(60) DEF IInv

(* What the invariant says of the cache. *)
LEMMA InvCached ==
  ASSUME Counting, IInv
  PROVE  CacheSound
<1>1. TypeOK /\ LookupInv /\ DataInv /\ PanicsOnlyFull
  BY Zenon DEF IInv
<1>2. ASSUME NEW n \in Blocks PROVE Cardinality(Cached(n)) <= 1
  <2>1. CASE Cached(n) = {}
    BY <2>1, FinEmpty
  <2>2. ASSUME NEW x \in Cached(n) PROVE Cardinality(Cached(n)) <= 1
    <3>1. n # None
      BY SizesAssumption, Zenon
    <3>2. Cached(n) = {x}
      <4>1. \A a, b \in Bufs : buf[a].no = buf[b].no /\ buf[a].no # None => a = b
        BY <1>1, Zenon DEF LookupInv
      <4> QED  BY <2>2, <3>1, <4>1, ZenonT(60) DEF Cached
    <3>3. Cardinality({x}) = 1
      BY FinSingleton, ZenonT(60)
    <3> QED  BY <3>2, <3>3
  <2> QED  BY <2>1, <2>2, Zenon
<1>3. OneBuffer
  BY <1>1, <1>2 DEF LookupInv, OneBuffer, InCall, Pins
<1>4. ASSUME NEW p \in Procs, c[p].pc \in {"hold", "written", "changed"}
      PROVE  buf[c[p].b].valid /\ buf[c[p].b].data
  <2>1. c[p].b \in Bufs
    BY <1>4, Busy, Zenon DEF IInv, CallInv
  <2> QED  BY <1>1, <1>4, <2>1, ZenonT(60) DEF DataInv, CallData
<1>5. \A n \in pinned : Cached(n) # {}
  BY <1>1, Zenon DEF LookupInv, Cached
<1> QED  BY <1>1, <1>3, <1>4, <1>5, ZenonT(60) DEF CacheSound, ReadsLatest

(* What it says of who sleeps. *)
LEMMA InvWaker ==
  ASSUME IInv
  PROVE  SleepersHaveWaker
<1>1. RingInv /\ used \in Seq(Descs)
  BY Zenon DEF IInv, TypeOK
<1>2. ASSUME NEW h \in Range(used) PROVE used # <<>>
  <2>1. PICK i \in 1..Len(used) : used[i] = h
    BY <1>1, <1>2, RingRange, ZenonT(60)
  <2> QED  BY <1>1, <2>1
<1> QED  BY <1>1, <1>2, ZenonT(60) DEF RingInv, SleepersHaveWaker

-----------------------------------------------------------------------------
LOCAL INSTANCE FiniteSetTheorems

LEMMA Least ==
  ASSUME NEW S, S \subseteq Nat, S # {}
  PROVE  Min(S) \in S /\ \A x \in S : Min(S) <= x
<1>1. \E x \in S : \A y \in S : ~(<<y, x>> \in OpToRel(<, Nat))
  BY NatLessThanWellFounded, WFMin, ZenonT(60)
<1>2. PICK x \in S : \A y \in S : ~(<<y, x>> \in OpToRel(<, Nat))
  BY <1>1, ZenonT(60)
<1>3. ASSUME NEW y \in S PROVE x <= y
  <2>1. <<y, x>> \in Nat \X Nat /\ <<y, x>>[1] = y /\ <<y, x>>[2] = x
    OBVIOUS
  <2>2. ~(<<y, x>>[1] < <<y, x>>[2])
    BY <1>2, <2>1, ZenonT(60) DEF OpToRel
  <2> QED  BY <2>1, <2>2, SMTT(30)
<1> QED  BY <1>3, ZenonT(60) DEF Min

LEMMA FiniteListed == \A S : IsFiniteSet(S) <=> Listed(S)
BY DEF IsFiniteSet, Listed

LEMMA CardinalitySize == \A S : Cardinality(S) = Size(S)
BY DEF Cardinality, Size

LEMMA CountingHolds == Counting
<1>1. SizeOfSets
  <2>1. \A S : IsFiniteSet(S) => Cardinality(S) \in Nat /\ (Cardinality(S) = 0 <=> S = {})
    BY FS_CardinalityType, FS_EmptySet, ZenonT(60)
  <2>2. \A S : Listed(S) => Size(S) \in Nat /\ (Size(S) = 0 <=> S = {})
    BY <2>1, FiniteListed, CardinalitySize, ZenonT(60)
  <2>3. Listed({}) /\ Size({}) = 0 /\ \A x : Listed({x}) /\ Size({x}) = 1
    BY FS_EmptySet, FS_Singleton, FiniteListed, CardinalitySize, ZenonT(60)
  <2>4. ASSUME NEW m \in Int, NEW n \in Int
        PROVE  Listed(m..n) /\ Size(m..n) = IF m > n THEN 0 ELSE n - m + 1
    <3>1. IsFiniteSet(m..n) /\ Cardinality(m..n) = IF m > n THEN 0 ELSE n - m + 1
      BY FS_Interval, ZenonT(60)
    <3> QED  BY <3>1, FiniteListed, CardinalitySize, ZenonT(60)
  <2>5. \A S : Listed(S) => \A T \in SUBSET S : Listed(T)
    BY FS_Subset, FiniteListed, ZenonT(60)
  <2> QED  BY <2>2, <2>3, <2>4, <2>5, ZenonT(60) DEF SizeOfSets
<1>2. OneMoreOrLess
  <2>1. ASSUME NEW S, NEW x, Listed(S)
        PROVE  /\ Listed(S \cup {x}) /\ Listed(S \ {x})
               /\ Size(S \cup {x}) = IF x \in S THEN Size(S) ELSE Size(S) + 1
               /\ Size(S \ {x}) = IF x \in S THEN Size(S) - 1 ELSE Size(S)
    <3>1. IsFiniteSet(S)
      BY <2>1, FiniteListed, ZenonT(60)
    <3>2. /\ IsFiniteSet(S \cup {x})
          /\ Cardinality(S \cup {x}) = IF x \in S THEN Cardinality(S) ELSE Cardinality(S) + 1
      BY <3>1, FS_AddElement, ZenonT(60)
    <3>3. /\ IsFiniteSet(S \ {x})
          /\ Cardinality(S \ {x}) = IF x \in S THEN Cardinality(S) - 1 ELSE Cardinality(S)
      BY <3>1, FS_RemoveElement, ZenonT(60)
    <3> QED  BY <3>2, <3>3, FiniteListed, CardinalitySize, ZenonT(60)
  <2> QED  BY <2>1, ZenonT(60) DEF OneMoreOrLess
<1>3. SizeOfDifference
  <2>1. ASSUME NEW S, NEW T, Listed(S) PROVE Size(S \ T) = Size(S) - Size(S \cap T)
    <3>1. Cardinality(S \ T) = Cardinality(S) - Cardinality(S \cap T)
      BY <2>1, FiniteListed, FS_Difference, ZenonT(60)
    <3> QED  BY <3>1, CardinalitySize, ZenonT(60)
  <2> QED  BY <2>1, ZenonT(60) DEF SizeOfDifference
<1>4. SizeOfUnion
  <2>1. ASSUME NEW S, NEW T, Listed(S), Listed(T)
        PROVE  Size(S \cup T) = Size(S) + Size(T) - Size(S \cap T)
    <3>1. Cardinality(S \cup T) = Cardinality(S) + Cardinality(T) - Cardinality(S \cap T)
      BY <2>1, FiniteListed, FS_Union, ZenonT(60)
    <3> QED  BY <3>1, CardinalitySize, ZenonT(60)
  <2> QED  BY <2>1, ZenonT(60) DEF SizeOfUnion
<1>5. SameSize
  <2>1. ASSUME NEW S, NEW T, NEW f, Listed(S), f \in [S -> T],
               \A x, y \in S : f[x] = f[y] => x = y,
               \A y \in T : \E x \in S : f[x] = y
        PROVE  Size(T) = Size(S)
    <3>1. f \in Injection(S, T)
      BY <2>1, ZenonT(60) DEF Injection, IsInjective
    <3>2. f \in Surjection(S, T)
      BY <2>1, ZenonT(60) DEF Surjection
    <3>3. ExistsBijection(S, T)
      BY <3>1, <3>2, ZenonT(60) DEF ExistsBijection, Bijection
    <3>4. Cardinality(T) = Cardinality(S)
      BY <2>1, <3>3, FiniteListed, FS_Bijection, ZenonT(60)
    <3> QED  BY <3>4, CardinalitySize, ZenonT(60)
  <2> QED  BY <2>1, ZenonT(60) DEF SameSize
<1>6. LeastOfNats
  BY Least, ZenonT(60) DEF LeastOfNats
<1> QED  BY <1>1, <1>2, <1>3, <1>4, <1>5, <1>6, ZenonT(60) DEF Counting

LEMMA Invariant == Spec => []IInv
<1>1. ASSUME IInv, [Next]_vars PROVE IInv'
  BY <1>1, CountingHolds, BioStep, DiskStep, QuietStep, ZenonT(60) DEF Next, ProcStep
<1>2. Init => IInv
  BY CountingHolds, InitInv
<1> QED  BY <1>1, <1>2, PTL DEF Spec

(* A block has one buffer at most, a buffer that is looked up stays the       *)
(* block's, whoever holds it sees what was last stored in the block, and      *)
(* bget() panics only when every buffer is in use: for any number of          *)
(* processes, blocks, buffers and descriptors.                                *)
THEOREM BlocksCached == Spec => []CacheSound
<1>1. IInv => CacheSound
  BY CountingHolds, InvCached, SMTT(30)
<1> QED  BY Invariant, <1>1, PTL

(* A request keeps its three descriptors until its process has seen the       *)
(* answer, and virtio_disk.c loses none, whatever order the disk answers in.  *)
THEOREM DescriptorsKept == Spec => []DescriptorsOwned
<1>1. IInv => DescriptorsOwned
  BY ZenonT(60) DEF IInv, ReqInv, DescriptorsOwned
<1> QED  BY Invariant, <1>1, PTL

(* No wakeup is lost in virtio_disk_rw(): who sleeps has a request with the   *)
(* disk, or an answer that an interrupt is about to deliver; who waits for    *)
(* descriptors does so while a request has some.                              *)
THEOREM SleepersWoken == Spec => []SleepersHaveWaker
<1>1. IInv => SleepersHaveWaker
  BY InvWaker
<1> QED  BY Invariant, <1>1, PTL
=============================================================================
