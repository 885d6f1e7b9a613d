---------------------------- MODULE ConsoleProofs ----------------------------
(* What Console promises, for every number of processes and every size of the *)
(* buffers: nothing is overrun, nobody sleeps without somebody to wake them,  *)
(* and the circular buffer behaves as a line editor.                          *)
EXTENDS Console, Sequences, TLAPS

(* The types of what TypeOK leaves open. *)
Calls == [pc : {"idle", "read", "readsleep", "uartwrite", "uartsleep", "spin", "put"},
          n : Nat, some : BOOLEAN, killed : BOOLEAN]
CallsOK ==
  /\ c \in [Procs -> Calls]
  /\ h \in {"idle", "tx", "rx", "spin", "put"}
  /\ conslock \in Procs \cup {None, Handler} /\ prlock \in Procs \cup {None, Handler}

(* While a writer sleeps, or tx_busy is set, an interrupt will come, or the   *)
(* handler is about to look.                                                  *)
TxInv == busy \/ (\E p \in Procs : At(p, "uartsleep")) => tx > 0 \/ thre \/ h = "tx"

SleepInv == CallsOK /\ busy \in BOOLEAN /\ thre \in BOOLEAN /\ tx \in Nat /\ ReadersWoken /\ TxInv

(* Remainders, by a positive integer: there is a quotient, ... *)
LEMMA Quotient ==
  ASSUME NEW a \in Int, NEW d \in Nat \ {0}
  PROVE  a % d \in 0..d-1 /\ \E q \in Int : a = q * d + (a % d)
<1>1. a % d \in 0..d-1 /\ a \div d \in Int /\ a = (a \div d) * d + (a % d)
  OBVIOUS
<1> QED  BY <1>1, Zenon

(* ... which a difference of less than d leaves none for, ... *)
LEMMA NoMultiple ==
  ASSUME NEW d \in Nat \ {0}, NEW z \in Int, NEW k \in Int, k = z * d, -d < k, k < d
  PROVE  k = 0
<1>1. z >= 1 => z * d >= d
  <2>1. z * d = d + (z - 1) * d
    OBVIOUS
  <2>2. z >= 1 => (z - 1) * d >= 0
    OBVIOUS
  <2> QED  BY <2>1, <2>2
<1>2. z <= -1 => z * d <= -d
  <2>1. z * d = -d + (z + 1) * d
    OBVIOUS
  <2>2. z <= -1 => (z + 1) * d <= 0
    OBVIOUS
  <2> QED  BY <2>1, <2>2
<1>3. z = 0
  BY <1>1, <1>2
<1> QED  BY <1>3

(* ... so that it is the only one, ... *)
LEMMA OneRemainder ==
  ASSUME NEW a \in Int, NEW d \in Nat \ {0}, NEW q \in Int, NEW m \in 0..d-1, a = q * d + m
  PROVE  a % d = m
<1> DEFINE s == a % d
<1>1. PICK p \in Int : a = p * d + s /\ s \in 0..d-1
  BY Quotient, Zenon
<1> HIDE DEF s
<1>2. m - s = (p - q) * d
  <2>1. (p - q) * d = p * d - q * d /\ p * d \in Int /\ q * d \in Int
    OBVIOUS
  <2> QED  BY <1>1, <2>1
<1>3. m - s \in Int /\ -d < m - s /\ m - s < d /\ p - q \in Int
  BY <1>1
<1>4. m - s = 0
  BY <1>2, <1>3, NoMultiple, Zenon
<1>5. s = m
  BY <1>1, <1>4
<1> QED  BY <1>5, Zenon DEF s

(* ... numbers that differ by a multiple of d have the same, ... *)
LEMMA SameRemainder ==
  ASSUME NEW d \in Nat \ {0}, NEW x \in Int, NEW y \in Int, NEW n \in Int, x = n * d + y
  PROVE  x % d = y % d
<1>1. PICK s \in Int : y = s * d + (y % d) /\ y % d \in 0..d-1
  BY Quotient, Zenon
<1> DEFINE A == n * d
           B == s * d
           C == y % d
           z == n + s
<1>2. z * d = A + B /\ A \in Int /\ B \in Int /\ C \in Int /\ C \in 0..d-1 /\ z \in Int
  BY <1>1
<1>3. x = A + y /\ y = B + C
  BY <1>1, Zenon
<1> HIDE DEF A, B, C, z
<1>4. x = z * d + C
  <2>1. x = (A + B) + C
    BY <1>2, <1>3
  <2> QED  BY <1>2, <2>1, Zenon
<1>5. x % d = C
  <2>1. \A i \in Int, j \in 0..d-1 : x = i * d + j => x % d = j
    BY OneRemainder, Zenon
  <2> QED  BY <1>2, <1>4, <2>1, Zenon
<1> QED  BY <1>5, Zenon DEF C

(* ... and numbers closer than d have different ones. *)
LEMMA OtherRemainder ==
  ASSUME NEW d \in Nat \ {0}, NEW x \in Int, NEW k \in 1..d-1
  PROVE  (x + k) % d # x % d
<1> SUFFICES ASSUME (x + k) % d = x % d PROVE FALSE
  BY Zenon
<1>1. x + k \in Int /\ k \in Int /\ -d < k /\ k < d /\ k # 0
  OBVIOUS
<1>2. PICK q \in Int : x = q * d + (x % d) /\ x % d \in 0..d-1
  BY Quotient, Zenon
<1>3. PICK m \in Int : x + k = m * d + ((x + k) % d)
  BY <1>1, Quotient, Zenon
<1> DEFINE s == x % d
<1>4. s \in Int /\ x = q * d + s /\ x + k = m * d + s
  BY <1>1, <1>2, <1>3
<1> HIDE DEF s
<1>5. k = (m - q) * d
  <2>1. (m - q) * d = m * d - q * d /\ m * d \in Int /\ q * d \in Int
    BY <1>1
  <2> QED  BY <1>1, <1>4, <2>1
<1>6. m - q \in Int
  OBVIOUS
<1> QED  BY <1>1, <1>5, <1>6, NoMultiple, Zenon

(* A function on 1..n is a sequence. *)
LEMMA AsSequence ==
  ASSUME NEW n \in Nat, NEW T, NEW f \in [1..n -> T]
  PROVE  f \in Seq(T) /\ Len(f) = n
  OBVIOUS

(* When a sequence is another with an element appended, ... *)
LEMMA Appended ==
  ASSUME NEW T, NEW s \in Seq(T), NEW x \in T, NEW u \in Seq(T), Len(u) = Len(s) + 1,
         \A k \in 1..Len(s) : u[k] = s[k], u[Len(s) + 1] = x
  PROVE  u = Append(s, x)
  OBVIOUS

(* ... when it is another's tail, ... *)
LEMMA IsTail ==
  ASSUME NEW T, NEW s \in Seq(T), NEW u \in Seq(T), Len(s) = Len(u) + 1,
         \A k \in 1..Len(u) : u[k] = s[k + 1]
  PROVE  s # <<>> /\ Tail(s) = u
  OBVIOUS

(* ... when it is another without its last element, ... *)
LEMMA IsFront ==
  ASSUME NEW T, NEW s \in Seq(T), NEW u \in Seq(T), Len(s) = Len(u) + 1,
         \A k \in 1..Len(u) : u[k] = s[k]
  PROVE  s # <<>> /\ SubSeq(s, 1, Len(s) - 1) = u
  OBVIOUS

(* ... when it joins two others, ... *)
LEMMA Joined ==
  ASSUME NEW T, NEW s \in Seq(T), NEW t \in Seq(T), NEW u \in Seq(T), Len(u) = Len(s) + Len(t),
         \A k \in 1..Len(s) : u[k] = s[k], \A k \in 1..Len(t) : u[Len(s) + k] = t[k]
  PROVE  u = s \o t
  BY SMTT(30)

(* ... and when it is another. *)
LEMMA SameSequence ==
  ASSUME NEW T, NEW s \in Seq(T), NEW u \in Seq(T), Len(u) = Len(s),
         \A k \in 1..Len(s) : u[k] = s[k]
  PROVE  u = s
  OBVIOUS

(* Editing a line puts no newline into it, unless one is typed. *)
LEMMA NoNewline ==
  ASSUME NEW T, NEW s \in Seq(T), \A k \in 1..Len(s) : s[k] # "nl", NEW u,
         \/ u = s \/ u = <<>>
         \/ s # <<>> /\ u = SubSeq(s, 1, Len(s) - 1)
         \/ \E x \in T \ {"nl"} : u = Append(s, x)
  PROVE  \A k \in 1..Len(u) : u[k] # "nl"
  BY SMTT(30)

-----------------------------------------------------------------------------
USE ConsoleAssumption

(* A process outside any call has a well-typed record. *)
LEMMA IdleCall == Idle \in Calls /\ Idle.pc = "idle"
BY Zenon DEF Idle, Calls

(* So has one that enters consoleread() or uartwrite(). *)
LEMMA StartCall ==
  ASSUME NEW x \in {"read", "uartwrite"}, NEW n \in Nat
  PROVE  /\ [Idle EXCEPT !.pc = x, !.n = n] \in Calls
         /\ [Idle EXCEPT !.pc = x, !.n = n].pc = x
BY Zenon DEF Idle, Calls

(* So has one that moves to another place of its call. *)
LEMMA PcCall ==
  ASSUME NEW d \in Calls,
         NEW x \in {"idle", "read", "readsleep", "uartwrite", "uartsleep", "spin", "put"}
  PROVE  /\ [d EXCEPT !.pc = x] \in Calls
         /\ [d EXCEPT !.pc = x].pc = x
BY Zenon DEF Calls

(* So has one that goes on to its call's next byte. *)
LEMMA NextCall ==
  ASSUME NEW d \in Calls, d.n > 1
  PROVE  /\ [d EXCEPT !.n = @ - 1, !.some = TRUE] \in Calls
         /\ [d EXCEPT !.n = @ - 1, !.some = TRUE].pc = d.pc
         /\ [d EXCEPT !.n = @ - 1, !.pc = "uartsleep"] \in Calls
         /\ [d EXCEPT !.n = @ - 1, !.pc = "uartsleep"].pc = "uartsleep"
<1>1. d.n - 1 \in Nat
  BY DEF Calls
<1>2. [d EXCEPT !.n = @ - 1] \in Calls /\ [d EXCEPT !.n = @ - 1].pc = d.pc
  BY <1>1, Zenon DEF Calls
<1>3. \A f \in Calls : /\ [f EXCEPT !.some = TRUE] \in Calls
                       /\ [f EXCEPT !.some = TRUE].pc = f.pc
  BY Zenon DEF Calls
<1>4. [d EXCEPT !.n = @ - 1, !.some = TRUE] = [[d EXCEPT !.n = @ - 1] EXCEPT !.some = TRUE]
  BY Zenon
<1>5. [d EXCEPT !.n = @ - 1, !.pc = "uartsleep"] = [[d EXCEPT !.n = @ - 1] EXCEPT !.pc = "uartsleep"]
  BY Zenon
<1> QED
  BY <1>2, <1>3, <1>4, <1>5, PcCall, Zenon

(* A byte more for the device leaves it one to send. *)
LEMMA PutLeavesOne ==
  ASSUME tx \in Nat, thre \in BOOLEAN, UNCHANGED <<tx, thre>> \/ PutTHR
  PROVE  tx' \in Nat /\ thre' \in BOOLEAN /\ (tx > 0 \/ thre => tx' > 0 \/ thre')
<1>1. CASE UNCHANGED <<tx, thre>>
  BY <1>1, Zenon
<1>2. CASE PutTHR
  <2>1. tx' \in Nat /\ tx' > 0
    BY <1>2 DEF PutTHR
  <2>2. thre' \in BOOLEAN
    BY <1>2, Zenon DEF PutTHR
  <2> QED
    BY <2>1, <2>2, Zenon
<1> QED
  BY <1>1, <1>2, Zenon

(* A step of one process changes its own record only. *)
LEMMA OneMoves ==
  ASSUME CallsOK, NEW p \in Procs, NEW d \in Calls, c' = [c EXCEPT ![p] = d]
  PROVE  c' \in [Procs -> Calls] /\ c'[p] = d /\ \A q \in Procs \ {p} : c'[q] = c[q]
BY Zenon DEF CallsOK

(* The same for a step that only moves the process within its call. *)
LEMMA PcMoves ==
  ASSUME CallsOK, NEW p \in Procs,
         NEW x \in {"idle", "read", "readsleep", "uartwrite", "uartsleep", "spin", "put"},
         c' = [c EXCEPT ![p].pc = x]
  PROVE  c' \in [Procs -> Calls] /\ c'[p].pc = x /\ \A q \in Procs \ {p} : c'[q] = c[q]
<1>1. c' = [c EXCEPT ![p] = [c[p] EXCEPT !.pc = x]]
  BY Zenon
<1>2. c[p] \in Calls
  BY Zenon DEF CallsOK
<1> DEFINE d == [c[p] EXCEPT !.pc = x]
<1>3. d \in Calls /\ d.pc = x
  BY <1>2, PcCall, Zenon
<1> HIDE DEF d
<1>4. c' = [c EXCEPT ![p] = d]
  BY <1>1, Zenon DEF d
<1> QED
  BY <1>3, <1>4, OneMoves, Zenon

(* At boot nobody sleeps and the device is quiet. *)
LEMMA InitSleep == Init => SleepInv
<1> SUFFICES ASSUME Init PROVE SleepInv
  BY Zenon
<1>1. CallsOK
  BY IdleCall, Zenon DEF Init, CallsOK, None, Handler
<1>2. \A p \in Procs : c[p].pc = "idle"
  BY IdleCall, Zenon DEF Init
<1> QED
  BY <1>1, <1>2, Zenon DEF Init, SleepInv, ReadersWoken, TxInv, At

(* consoleread() and consolewrite() begin awake. *)
LEMMA StartMoves ==
  ASSUME CallsOK, NEW p \in Procs, Read(p) \/ Write(p)
  PROVE  /\ c' \in [Procs -> Calls] /\ \A q \in Procs \ {p} : c'[q] = c[q]
         /\ c'[p].pc \in {"read", "uartwrite"}
<1>1. PICK x \in {"read", "uartwrite"}, n \in 1..MaxBytes :
        c' = [c EXCEPT ![p] = [Idle EXCEPT !.pc = x, !.n = n]]
  BY Zenon DEF Read, Write
<1> DEFINE d == [Idle EXCEPT !.pc = x, !.n = n]
<1>a. n \in Nat
  OBVIOUS
<1>2. d \in Calls /\ d.pc = x
  BY <1>a, StartCall, Zenon
<1> HIDE DEF d
<1>3. c' = [c EXCEPT ![p] = d]
  BY <1>1, Zenon DEF d
<1> QED
  BY <1>2, <1>3, OneMoves, Zenon

(* A call that begins keeps SleepInv. *)
LEMMA StartKeeps == ASSUME SleepInv, NEW p \in Procs, Read(p) \/ Write(p) PROVE SleepInv'
<1>1. /\ c' \in [Procs -> Calls] /\ \A q \in Procs \ {p} : c'[q] = c[q]
      /\ c'[p].pc \in {"read", "uartwrite"}
  BY StartMoves, Zenon DEF SleepInv
<1>2. UNCHANGED <<cons, conslock, prlock, busy, tx, thre, rx, h>>
  BY Zenon DEF Read, Write
<1> QED
  BY <1>1, <1>2, ZenonT(60) DEF SleepInv, CallsOK, ReadersWoken, TxInv, At, cons

(* kkill() keeps SleepInv: it only wakes. *)
LEMMA KillKeeps == ASSUME SleepInv, NEW p \in Procs, Kill(p) PROVE SleepInv'
<1>1. PICK x \in {"read", "uartwrite"} :
        c' \in [Procs -> Calls] /\ c'[p].pc = x /\ \A q \in Procs \ {p} : c'[q] = c[q]
  <2>1. CASE At(p, "readsleep") /\ c' = [c EXCEPT ![p].pc = "read", ![p].killed = TRUE]
    <3> DEFINE f == [c[p] EXCEPT !.pc = "read"]
               d == [f EXCEPT !.killed = TRUE]
    <3>1. f \in Calls /\ f.pc = "read"
      BY PcCall, Zenon DEF SleepInv, CallsOK
    <3> HIDE DEF f
    <3>2. d \in Calls /\ d.pc = "read"
      BY <3>1, Zenon DEF Calls
    <3>3. c' = [c EXCEPT ![p] = d]
      BY <2>1, Zenon DEF f
    <3> HIDE DEF d
    <3> QED
      BY <3>2, <3>3, OneMoves, Zenon DEF SleepInv
  <2>2. CASE At(p, "uartsleep") /\ c' = [c EXCEPT ![p].pc = "uartwrite"]
    BY <2>2, PcMoves, Zenon DEF SleepInv
  <2> QED
    BY <2>1, <2>2, Zenon DEF Kill
<1>2. UNCHANGED <<cons, conslock, prlock, busy, tx, thre, rx, h>>
  BY Zenon DEF Kill
<1> QED
  BY <1>1, <1>2, ZenonT(60) DEF SleepInv, CallsOK, ReadersWoken, TxInv, At, cons

(* consoleread() keeps SleepInv: it sleeps only when r = w, under cons.lock. *)
LEMMA ReadCharKeeps == ASSUME SleepInv, NEW p \in Procs, ReadChar(p) PROVE SleepInv'
<1>1. /\ c' \in [Procs -> Calls] /\ \A q \in Procs \ {p} : c'[q] = c[q]
      /\ c'[p].pc = "idle" \/ c'[p].pc = "read" \/ (c'[p].pc = "readsleep" /\ r = w)
  <2>1. CASE c' = [c EXCEPT ![p] = Idle]
    BY <2>1, IdleCall, OneMoves, Zenon DEF SleepInv
  <2>2. CASE r = w /\ c' = [c EXCEPT ![p].pc = "readsleep"]
    BY <2>2, PcMoves, Zenon DEF SleepInv
  <2>3. CASE c[p].n > 1 /\ c[p].pc = "read" /\ c' = [c EXCEPT ![p].n = @ - 1, ![p].some = TRUE]
    <3> DEFINE d == [c[p] EXCEPT !.n = @ - 1, !.some = TRUE]
    <3>1. d \in Calls /\ d.pc = "read"
      BY <2>3, NextCall, Zenon DEF SleepInv, CallsOK
    <3>2. c' = [c EXCEPT ![p] = d]
      BY <2>3, Zenon
    <3> HIDE DEF d
    <3> QED
      BY <3>1, <3>2, OneMoves, Zenon DEF SleepInv
  <2> QED
    BY <2>1, <2>2, <2>3, Zenon DEF ReadChar, At
<1>2. UNCHANGED <<w, prlock, busy, tx, thre, h>> /\ conslock' \in {None, p}
  BY Zenon DEF ReadChar
<1>3. r' = r \/ r # w
  BY Zenon DEF ReadChar
<1> QED
  BY <1>1, <1>2, <1>3, ZenonT(60) DEF SleepInv, CallsOK, ReadersWoken, TxInv, At

(* uartwrite() keeps SleepInv: it sleeps with tx_busy set, or after it wrote. *)
LEMMA UartwriteKeeps == ASSUME SleepInv, NEW p \in Procs, Uartwrite(p) PROVE SleepInv'
<1>1. UNCHANGED <<r, w, conslock, prlock, h>>
  BY Zenon DEF Uartwrite, cons
<1>2. CASE busy
  <2>1. c' = [c EXCEPT ![p].pc = "uartsleep"] /\ UNCHANGED <<busy, tx, thre>>
    BY <1>2, Zenon DEF Uartwrite
  <2>2. c' \in [Procs -> Calls] /\ c'[p].pc = "uartsleep" /\ \A q \in Procs \ {p} : c'[q] = c[q]
    BY <2>1, PcMoves, Zenon DEF SleepInv
  <2> QED
    BY <1>1, <1>2, <2>1, <2>2, Zenon DEF SleepInv, CallsOK, ReadersWoken, TxInv, At
<1>3. CASE ~busy
  <2>a. tx' = tx + 1
    BY <1>3, Zenon DEF Uartwrite, PutTHR
  <2>b. thre' \in BOOLEAN /\ busy' \in BOOLEAN
    BY <1>3, Zenon DEF Uartwrite, PutTHR
  <2>1. tx' \in Nat /\ tx' > 0
    BY <2>a DEF SleepInv
  <2>2. /\ c' \in [Procs -> Calls] /\ c'[p].pc \in {"idle", "uartsleep"}
        /\ \A q \in Procs \ {p} : c'[q] = c[q]
    <3> DEFINE d == [c[p] EXCEPT !.n = @ - 1, !.pc = "uartsleep"]
    <3>1. c[p].n > 1 => d \in Calls /\ d.pc = "uartsleep"
      BY NextCall, Zenon DEF SleepInv, CallsOK
    <3>2. c' = [c EXCEPT ![p] = IF c[p].n > 1 THEN d ELSE Idle]
      BY <1>3, Zenon DEF Uartwrite
    <3> HIDE DEF d
    <3>3. PICK f \in Calls : c' = [c EXCEPT ![p] = f] /\ f.pc \in {"idle", "uartsleep"}
      BY <3>1, <3>2, IdleCall, Zenon
    <3> QED
      BY <3>3, OneMoves, Zenon DEF SleepInv
  <2> QED
    BY <1>1, <2>b, <2>1, <2>2, Zenon DEF SleepInv, CallsOK, ReadersWoken, TxInv, At
<1> QED
  BY <1>2, <1>3, Zenon

(* A kernel message keeps SleepInv: it takes back an interrupt only when it   *)
(* gives the device a byte, whose end interrupts again.                       *)
LEMMA PrintfKeeps == ASSUME SleepInv, NEW p \in Procs, Printf(p) PROVE SleepInv'
<1>1. /\ c' \in [Procs -> Calls] /\ c'[p].pc \in {"idle", "spin", "put"}
      /\ \A q \in Procs \ {p} : c'[q] = c[q]
  <2>1. CASE c' = [c EXCEPT ![p].pc = "spin"]
    BY <2>1, PcMoves, Zenon DEF SleepInv
  <2>2. CASE c' = [c EXCEPT ![p].pc = "put"]
    BY <2>2, PcMoves, Zenon DEF SleepInv
  <2>3. CASE c' = [c EXCEPT ![p] = Idle]
    BY <2>3, IdleCall, OneMoves, Zenon DEF SleepInv
  <2> QED
    BY <2>1, <2>2, <2>3, Zenon DEF Printf
<1>2. UNCHANGED <<r, w, conslock, busy, h>> /\ prlock' \in {prlock, p, None}
  BY Zenon DEF Printf, cons
<1>a. UNCHANGED <<tx, thre>> \/ PutTHR
  BY Zenon DEF Printf
<1>3. tx' \in Nat /\ thre' \in BOOLEAN /\ (tx > 0 \/ thre => tx' > 0 \/ thre')
  BY <1>a, PutLeavesOne, Zenon DEF SleepInv
<1> QED
  BY <1>1, <1>2, <1>3 DEF SleepInv, CallsOK, ReadersWoken, TxInv, At

(* uartintr() keeps SleepInv: it clears tx_busy and wakes every writer. *)
LEMMA IntrTxKeeps == ASSUME SleepInv, IntrTx PROVE SleepInv'
<1>1. UNCHANGED <<r, w, conslock, prlock, tx, thre>> /\ h' = "rx"
  BY Zenon DEF IntrTx, cons
<1>2. CASE tx = 0
  <2>1. busy' = FALSE /\ c' = Wake("uartsleep", "uartwrite")
    BY <1>2, Zenon DEF IntrTx, TxIdle, WokenWriters
  <2>2. \A q \in Procs : /\ c'[q] \in Calls /\ c'[q].pc # "uartsleep"
                         /\ c'[q].pc = "readsleep" => c[q].pc = "readsleep"
    BY <2>1, PcCall, Zenon DEF Wake, SleepInv, CallsOK
  <2>3. c' \in [Procs -> Calls]
    BY <2>1, <2>2, Zenon DEF Wake
  <2> QED
    BY <1>1, <2>1, <2>2, <2>3, Zenon DEF SleepInv, CallsOK, ReadersWoken, TxInv, At
<1>3. CASE tx # 0
  <2>1. UNCHANGED <<busy, c>>
    BY <1>3, Zenon DEF IntrTx, TxIdle
  <2> QED
    BY <1>1, <1>3, <2>1 DEF SleepInv, CallsOK, ReadersWoken, TxInv, At
<1> QED
  BY <1>2, <1>3, Zenon

(* consoleintr() keeps SleepInv: it wakes every reader when it moves w. *)
LEMMA IntrCharKeeps == ASSUME SleepInv, IntrChar PROVE SleepInv'
BY DEF SleepInv, CallsOK, Calls, ReadersWoken, TxInv, At, IntrChar, WokenReaders, Wake, None, Handler

(* The device and the rest of the handler keep SleepInv. *)
LEMMA DeviceKeeps ==
  ASSUME SleepInv, IntrClaim \/ IntrEcho \/ IntrEnd \/ Send \/ Type PROVE SleepInv'
<1>1. UNCHANGED <<r, w, busy, c>>
  BY Zenon DEF IntrClaim, IntrEcho, IntrEnd, Send, Type, cons
<1>2. CASE IntrClaim
  <2>1. thre' \in BOOLEAN
    BY <1>2, Zenon DEF IntrClaim
  <2> QED
    BY <1>1, <1>2, <2>1, Zenon DEF IntrClaim, SleepInv, CallsOK, ReadersWoken, TxInv, At
<1>3. CASE IntrEcho
  <2>1. /\ h' \in {"spin", "put", "rx"} /\ h # "tx"
        /\ UNCHANGED <<tx, thre>> \/ PutTHR
        /\ conslock' \in {conslock, None} /\ prlock' \in {prlock, None}
    BY <1>3, Zenon DEF IntrEcho
  <2>2. tx' \in Nat /\ thre' \in BOOLEAN /\ (tx > 0 \/ thre => tx' > 0 \/ thre')
    BY <2>1, PutLeavesOne, Zenon DEF SleepInv
  <2> QED
    BY <1>1, <2>1, <2>2, Zenon DEF SleepInv, CallsOK, ReadersWoken, TxInv, At
<1>4. CASE IntrEnd
  BY <1>1, <1>4 DEF IntrEnd, SleepInv, CallsOK, ReadersWoken, TxInv, At
<1>5. CASE Send
  <2>1. /\ tx > 0 /\ tx' = tx - 1 /\ thre' \in BOOLEAN /\ (thre' <=> thre \/ tx = 1)
        /\ UNCHANGED <<conslock, prlock, h>>
    BY <1>5, Zenon DEF Send
  <2> QED
    BY <1>1, <2>1 DEF SleepInv, CallsOK, ReadersWoken, TxInv, At
<1>6. CASE Type
  BY <1>1, <1>6 DEF Type, SleepInv, CallsOK, ReadersWoken, TxInv, At
<1> QED
  BY <1>2, <1>3, <1>4, <1>5, <1>6, Zenon

(* Every step keeps SleepInv. *)
LEMMA SleepStep == ASSUME SleepInv, [Next]_vars PROVE SleepInv'
<1>1. ASSUME NEW p \in Procs, Read(p) \/ Write(p) PROVE SleepInv'
  BY <1>1, StartKeeps, Zenon
<1>2. ASSUME NEW p \in Procs, ReadChar(p) PROVE SleepInv'
  BY <1>2, ReadCharKeeps, Zenon
<1>3. ASSUME NEW p \in Procs, Kill(p) PROVE SleepInv'
  BY <1>3, KillKeeps, Zenon
<1>4. ASSUME NEW p \in Procs, Uartwrite(p) PROVE SleepInv'
  BY <1>4, UartwriteKeeps, Zenon
<1>5. ASSUME NEW p \in Procs, Printf(p) PROVE SleepInv'
  BY <1>5, PrintfKeeps, Zenon
<1>6. CASE IntrTx
  BY <1>6, IntrTxKeeps, Zenon
<1>7. CASE IntrChar
  BY <1>7, IntrCharKeeps, Zenon
<1>8. CASE IntrClaim \/ IntrEcho \/ IntrEnd \/ Send \/ Type
  BY <1>8, DeviceKeeps, Zenon
<1>9. CASE UNCHANGED vars
  BY <1>9, ZenonT(60) DEF vars, cons, SleepInv, CallsOK, ReadersWoken, TxInv, At
<1> QED
  BY <1>1, <1>2, <1>3, <1>4, <1>5, <1>6, <1>7, <1>8, <1>9, Zenon DEF Next

(* Nobody sleeps for ever on the console, however many processes there are. *)
THEOREM SleepersWake == Spec => []SleepersWoken
<1>1. Init => SleepInv
  BY InitSleep, Zenon
<1>2. SleepInv /\ [Next]_vars => SleepInv'
  BY SleepStep, Zenon
<1>3. SleepInv => SleepersWoken
  BY Zenon DEF SleepInv, SleepersWoken, WritersHaveWaker, TxInv
<1> QED
  BY <1>1, <1>2, <1>3, PTL DEF Spec

-----------------------------------------------------------------------------
(* Only the holder of pr.lock prints. *)
PutInv == \A p \in Procs : c[p].pc \in {"spin", "put"} => prlock = p

(* Bytes that will be written without another look at the device: the         *)
(* handler's, a kernel message's, and a writer's when tx_busy is clear.       *)
Credit == (IF h = "put" THEN 1 ELSE 0) + (IF \E p \in Procs : At(p, "put") THEN 1 ELSE 0)
          + (IF busy THEN 0 ELSE 1)
FifoInv == PutInv /\ tx + Credit <= 3

(* At boot only a writer could write without looking. *)
LEMMA InitFifo == ASSUME Init PROVE FifoInv
BY DEF Init, FifoInv, PutInv, Credit, At, Idle

(* consoleread(), kkill() and the start of a call write nothing. *)
LEMMA CallsFifo ==
  ASSUME SleepInv, SleepInv', FifoInv, NEW p \in Procs, Read(p) \/ Write(p) \/ Kill(p) \/ ReadChar(p)
  PROVE  FifoInv'
<1>1. /\ UNCHANGED <<prlock, busy, tx, h>> /\ \A q \in Procs \ {p} : c'[q] = c[q]
      /\ c[p].pc \notin {"spin", "put"} /\ c'[p].pc \notin {"spin", "put"}
  <2>1. CASE ReadChar(p)
    <3>1. UNCHANGED <<prlock, busy, tx, h>> /\ At(p, "read")
      BY <2>1, Zenon DEF ReadChar
    <3>2. CASE c' = [c EXCEPT ![p] = Idle]
      BY <3>1, <3>2, IdleCall, OneMoves, Zenon DEF SleepInv, At
    <3>3. CASE c' = [c EXCEPT ![p].pc = "readsleep"]
      BY <3>1, <3>3, PcMoves, Zenon DEF SleepInv, At
    <3>4. CASE c' = [c EXCEPT ![p].n = @ - 1, ![p].some = TRUE]
      BY <3>1, <3>4, ZenonT(60) DEF SleepInv, CallsOK, Calls, At
    <3> QED
      BY <2>1, <3>1, <3>2, <3>3, <3>4, Zenon DEF ReadChar
  <2>2. CASE Read(p) \/ Write(p)
    BY <2>2, StartMoves, Zenon DEF SleepInv, Read, Write, At
  <2>3. CASE Kill(p)
    <3>1. \A q \in Procs \ {p} : c'[q] = c[q]
      BY <2>3, Zenon DEF Kill, SleepInv, CallsOK
    <3>2. c'[p].pc \in {"read", "uartwrite"}
      BY <2>3 DEF Kill, SleepInv, CallsOK, Calls
    <3> QED
      BY <2>3, <3>1, <3>2, Zenon DEF Kill, At
  <2> QED
    BY <2>1, <2>2, <2>3, Zenon
<1> QED
  BY <1>1, Zenon DEF FifoInv, PutInv, Credit, At

(* uartwrite() spends the byte that a clear tx_busy stands for. *)
LEMMA UartwriteFifo ==
  ASSUME SleepInv, FifoInv, NEW p \in Procs, Uartwrite(p) PROVE FifoInv'
<1>1. UNCHANGED <<prlock, h>> /\ c[p].pc \notin {"spin", "put"}
  BY Zenon DEF Uartwrite, At
<1>2. /\ \A q \in Procs \ {p} : c'[q] = c[q]
      /\ c'[p].pc \notin {"spin", "put"}
  <2>1. CASE busy
    <3>1. c' = [c EXCEPT ![p].pc = "uartsleep"]
      BY <2>1, Zenon DEF Uartwrite
    <3> QED
      BY <3>1, PcMoves, Zenon DEF SleepInv
  <2>2. CASE ~busy
    <3> DEFINE d == [c[p] EXCEPT !.n = @ - 1, !.pc = "uartsleep"]
    <3>1. c[p].n > 1 => d \in Calls /\ d.pc = "uartsleep"
      BY NextCall, Zenon DEF SleepInv, CallsOK
    <3>2. c' = [c EXCEPT ![p] = IF c[p].n > 1 THEN d ELSE Idle]
      BY <2>2, Zenon DEF Uartwrite
    <3> HIDE DEF d
    <3>3. PICK f \in Calls : c' = [c EXCEPT ![p] = f] /\ f.pc \in {"idle", "uartsleep"}
      BY <3>1, <3>2, IdleCall, Zenon
    <3> QED
      BY <3>3, OneMoves, Zenon DEF SleepInv
  <2> QED
    BY <2>1, <2>2, Zenon
<1>3. Credit \in Nat /\ tx \in Nat
  BY DEF Credit, SleepInv
<1>4. tx' + Credit' = tx + Credit
  <2>1. CASE busy
    <3>1. UNCHANGED <<busy, tx>>
      BY <2>1, Zenon DEF Uartwrite
    <3> QED
      BY <1>1, <1>2, <3>1, Zenon DEF Credit, At
  <2>2. CASE ~busy
    <3>1. busy' /\ tx' = tx + 1
      BY <2>2, Zenon DEF Uartwrite, PutTHR
    <3> QED
      BY <1>1, <1>2, <1>3, <2>2, <3>1 DEF Credit, At
  <2> QED
    BY <2>1, <2>2, Zenon
<1> QED
  BY <1>1, <1>2, <1>4, Zenon DEF FifoInv, PutInv

(* A kernel message looks, when the device is empty, before it writes. *)
LEMMA PrintfFifo ==
  ASSUME SleepInv, FifoInv, NEW p \in Procs, Printf(p) PROVE FifoInv'
<1>0. UNCHANGED <<busy, h>> /\ tx \in Nat
  BY Zenon DEF Printf, SleepInv
<1>1. CASE At(p, "idle") /\ prlock = None /\ prlock' = p /\ c' = [c EXCEPT ![p].pc = "spin"] /\ tx' = tx
  <2>1. c'[p].pc = "spin" /\ \A q \in Procs \ {p} : c'[q] = c[q]
    BY <1>1, PcMoves, Zenon DEF SleepInv
  <2> QED
    BY <1>0, <1>1, <2>1, Zenon DEF FifoInv, PutInv, Credit, At
<1>2. CASE At(p, "spin") /\ tx = 0 /\ prlock' = prlock /\ c' = [c EXCEPT ![p].pc = "put"] /\ tx' = tx
  <2>1. c'[p].pc = "put" /\ \A q \in Procs \ {p} : c'[q] = c[q]
    BY <1>2, PcMoves, Zenon DEF SleepInv
  <2> QED
    BY <1>0, <1>2, <2>1 DEF FifoInv, PutInv, Credit, At
<1>3. CASE At(p, "put") /\ tx' = tx + 1 /\ prlock' = None /\ c' = [c EXCEPT ![p] = Idle]
  <2>1. c'[p].pc = "idle" /\ \A q \in Procs \ {p} : c'[q] = c[q]
    BY <1>3, IdleCall, OneMoves, Zenon DEF SleepInv
  <2> QED
    BY <1>0, <1>3, <2>1 DEF FifoInv, PutInv, Credit, At
<1> QED
  BY <1>1, <1>2, <1>3, Zenon DEF Printf, PutTHR, TxIdle

(* The handler looks before it writes, and clears tx_busy only when the device *)
(* is empty.                                                                  *)
LEMMA HandlerFifo ==
  ASSUME SleepInv, FifoInv,
         IntrClaim \/ IntrTx \/ IntrChar \/ IntrEcho \/ IntrEnd \/ Send \/ Type
  PROVE  FifoInv'
<1>0. tx \in Nat /\ c \in [Procs -> Calls]
  BY Zenon DEF SleepInv, CallsOK
<1>1. CASE IntrTx
  <2>1. UNCHANGED <<prlock, tx>> /\ h # "put" /\ h' # "put"
    BY <1>1, Zenon DEF IntrTx
  <2>2. \A p \in Procs : c'[p].pc \in {"spin", "put"} => c'[p].pc = c[p].pc
    <3>1. CASE c' = c
      BY <3>1, Zenon
    <3>2. CASE c' = Wake("uartsleep", "uartwrite")
      BY <1>0, <3>2, PcCall, Zenon DEF Wake
    <3> QED
      BY <1>1, <3>1, <3>2, Zenon DEF IntrTx, WokenWriters
  <2>3. UNCHANGED busy \/ tx = 0
    BY <1>1, Zenon DEF IntrTx, TxIdle
  <2> QED
    BY <1>0, <2>1, <2>2, <2>3 DEF FifoInv, PutInv, Credit, At
<1>2. CASE IntrChar
  <2>1. UNCHANGED <<busy, tx>> /\ h # "put" /\ h' # "put" /\ (prlock' = prlock \/ prlock = None)
    BY <1>2, Zenon DEF IntrChar
  <2>2. \A p \in Procs : c'[p].pc \in {"spin", "put"} => c'[p].pc = c[p].pc
    <3>1. CASE c' = c
      BY <3>1, Zenon
    <3>2. CASE c' = Wake("readsleep", "read")
      BY <1>0, <3>2, PcCall, Zenon DEF Wake
    <3> QED
      BY <1>2, <3>1, <3>2, Zenon DEF IntrChar, WokenReaders
  <2> QED
    BY <1>0, <2>1, <2>2 DEF FifoInv, PutInv, Credit, At
<1>3. CASE IntrEcho
  BY <1>0, <1>3 DEF IntrEcho, PutTHR, TxIdle, FifoInv, PutInv, Credit, At
<1>4. CASE IntrClaim \/ IntrEnd \/ Type
  BY <1>0, <1>4 DEF IntrClaim, IntrEnd, Type, FifoInv, PutInv, Credit, At
<1>5. CASE Send
  BY <1>0, <1>5 DEF Send, FifoInv, PutInv, Credit, At
<1> QED
  BY <1>1, <1>2, <1>3, <1>4, <1>5, Zenon

-----------------------------------------------------------------------------
(* Distances on the ring of the indices, where they do not and where they do  *)
(* wrap.                                                                      *)
LEMMA AheadIs ==
  ASSUME NEW i \in 0..WRAP - 1, NEW j \in 0..WRAP - 1
  PROVE  Ahead(i, j) = IF i >= j THEN i - j ELSE i - j + WRAP
BY DEF Ahead

(* The next index. *)
LEMMA IncIs ==
  ASSUME NEW i \in 0..WRAP - 1
  PROVE  Inc(i) = IF i + 1 = WRAP THEN 0 ELSE i + 1
BY DEF Inc

(* An index k places back. *)
LEMMA BackIs ==
  ASSUME NEW i \in 0..WRAP - 1, NEW k \in 0..WRAP - 1
  PROVE  (i - k) % WRAP = IF i >= k THEN i - k ELSE i - k + WRAP
OBVIOUS

(* Every index has its slot in the buffer. *)
LEMMA SlotIs ==
  ASSUME NEW i \in 0..WRAP - 1
  PROVE  i % INPUT_BUF_SIZE \in 0..INPUT_BUF_SIZE - 1
OBVIOUS

(* The three indices keep their order when r or e moves.                      *)
Ordered(a, b, f) == Ahead(b, a) <= Ahead(f, a) /\ Ahead(f, a) <= INPUT_BUF_SIZE

(* Their order, in plain arithmetic. *)
LEMMA OrderedIs ==
  ASSUME NEW a \in 0..WRAP - 1, NEW b \in 0..WRAP - 1, NEW f \in 0..WRAP - 1
  PROVE  LET ahead(x) == IF x >= a THEN x - a ELSE x - a + WRAP
         IN Ordered(a, b, f) <=> ahead(b) <= ahead(f) /\ ahead(f) <= INPUT_BUF_SIZE
<1>1. Ahead(b, a) = IF b >= a THEN b - a ELSE b - a + WRAP
  BY AheadIs, Zenon
<1>2. Ahead(f, a) = IF f >= a THEN f - a ELSE f - a + WRAP
  BY AheadIs, Zenon
<1> QED
  BY <1>1, <1>2, Zenon DEF Ordered

(* Reading, when there is something to read, keeps the order. *)
LEMMA ReadOrdered ==
  ASSUME NEW a \in 0..WRAP - 1, NEW b \in 0..WRAP - 1, NEW f \in 0..WRAP - 1, Ordered(a, b, f), a # b
  PROVE  Inc(a) \in 0..WRAP - 1 /\ Ordered(Inc(a), b, f)
<1> DEFINE i == Inc(a)
<1>1. i = IF a + 1 = WRAP THEN 0 ELSE a + 1
  BY IncIs, Zenon
<1> HIDE DEF i
<1>2. i \in 0..WRAP - 1
  BY <1>1
<1>3. Ordered(i, b, f)
  BY <1>1, <1>2, OrderedIs
<1> QED
  BY <1>2, <1>3, Zenon DEF i

(* Taking back at most what can be edited keeps the order. *)
LEMMA BackOrdered ==
  ASSUME NEW a \in 0..WRAP - 1, NEW b \in 0..WRAP - 1, NEW f \in 0..WRAP - 1, Ordered(a, b, f),
         NEW k \in 0..INPUT_BUF_SIZE, k <= Ahead(f, b)
  PROVE  (f - k) % WRAP \in 0..WRAP - 1 /\ Ordered(a, b, (f - k) % WRAP)
<1> DEFINE i == (f - k) % WRAP
<1>1. i = IF f >= k THEN f - k ELSE f - k + WRAP
  BY BackIs
<1> HIDE DEF i
<1>2. i \in 0..WRAP - 1
  BY <1>1
<1>3. Ahead(f, b) = IF f >= b THEN f - b ELSE f - b + WRAP
  BY AheadIs, ZenonT(60)
<1>4. Ordered(a, b, i)
  BY <1>1, <1>2, <1>3, OrderedIs
<1> QED
  BY <1>2, <1>4, Zenon DEF i

(* Typing, when there is room, keeps the order, also when w moves to the end. *)
LEMMA TypeOrdered ==
  ASSUME NEW a \in 0..WRAP - 1, NEW b \in 0..WRAP - 1, NEW f \in 0..WRAP - 1, Ordered(a, b, f),
         Ahead(f, a) < INPUT_BUF_SIZE
  PROVE  /\ Inc(f) \in 0..WRAP - 1
         /\ Ordered(a, b, Inc(f)) /\ Ordered(a, Inc(f), Inc(f))
<1> DEFINE i == Inc(f)
<1>1. i = IF f + 1 = WRAP THEN 0 ELSE f + 1
  BY IncIs, Zenon
<1> HIDE DEF i
<1>2. i \in 0..WRAP - 1
  BY <1>1
<1>3. Ahead(f, a) = IF f >= a THEN f - a ELSE f - a + WRAP
  BY AheadIs, Zenon
<1>4. Ordered(a, b, i) /\ Ordered(a, i, i)
  BY <1>1, <1>2, <1>3, OrderedIs
<1> QED
  BY <1>2, <1>4, Zenon DEF i

(* What is left to edit is part of what is kept. *)
LEMMA EditableFits ==
  ASSUME NEW a \in 0..WRAP - 1, NEW b \in 0..WRAP - 1, NEW f \in 0..WRAP - 1, Ordered(a, b, f)
  PROVE  Ahead(f, b) \in 0..INPUT_BUF_SIZE /\ (f # b => Ahead(f, b) >= 1)
<1>1. Ahead(f, b) = IF f >= b THEN f - b ELSE f - b + WRAP
  BY AheadIs, Zenon
<1> QED
  BY <1>1, OrderedIs

RingType == /\ buf \in [0..INPUT_BUF_SIZE - 1 -> Keys]
            /\ r \in 0..WRAP - 1 /\ w \in 0..WRAP - 1 /\ e \in 0..WRAP - 1
RingInv == RingType /\ Ordered(r, w, e) /\ rx \in 0..RXFIFO

(* Every step keeps the circular buffer in order, across the wrap of the indices. *)
LEMMA RingStep ==
  ASSUME RingInv, [Next]_vars PROVE RingInv'
<1>0. INPUT_BUF_SIZE \in Nat /\ WRAP \in Nat /\ INPUT_BUF_SIZE < WRAP
  BY Zenon
<1>1. ASSUME NEW p \in Procs, ReadChar(p) PROVE RingInv'
  <2>1. UNCHANGED <<buf, w, e, rx>>
    BY <1>1, Zenon DEF ReadChar
  <2>2. r' = r \/ (r # w /\ r' = Inc(r))
    BY <1>1, Zenon DEF ReadChar
  <2>3. r' \in 0..WRAP - 1 /\ Ordered(r', w, e)
    BY <2>2, ReadOrdered DEF RingInv, RingType
  <2> QED
    BY <2>1, <2>3, Zenon DEF RingInv, RingType, Ordered, Ahead
<1>2. CASE IntrChar
  <2>0. UNCHANGED r /\ rx' \in 0..RXFIFO
    BY <1>2 DEF IntrChar, RingInv
  <2>1. CASE UNCHANGED <<buf, w, e>>
    BY <2>0, <2>1, Zenon DEF RingInv, RingType, Ordered, Ahead
  <2>2. ASSUME NEW k \in 0..INPUT_BUF_SIZE, UNCHANGED <<buf, w>>, Killed(k), e' = (e - k) % WRAP
        PROVE  RingInv'
    <3>1. k <= Ahead(e, w) /\ e' = (e - k) % WRAP
      BY <2>2, EditableFits, Zenon DEF Killed, RingInv, RingType
    <3>2. e' \in 0..WRAP - 1 /\ Ordered(r, w, e')
      BY <3>1, BackOrdered, Zenon DEF RingInv, RingType
    <3> QED
      BY <2>0, <2>2, <3>2, Zenon DEF RingInv, RingType, Ordered, Ahead
  <2>3. CASE UNCHANGED <<buf, w>> /\ e # w /\ e' = Dec(e)
    <3>1. 1 \in 0..INPUT_BUF_SIZE /\ 1 <= Ahead(e, w) /\ e' = (e - 1) % WRAP
      BY <2>3, EditableFits DEF RingInv, RingType, Dec
    <3>2. e' \in 0..WRAP - 1 /\ Ordered(r, w, e')
      BY <3>1, BackOrdered, ZenonT(60) DEF RingInv, RingType
    <3> QED
      BY <2>0, <2>3, <3>2, Zenon DEF RingInv, RingType, Ordered, Ahead
  <2>4. ASSUME NEW ch \in Keys, Room, buf' = Stored(ch), e' = Inc(e), w' \in {Inc(e), w} PROVE RingInv'
    <3>1. buf' \in [0..INPUT_BUF_SIZE - 1 -> Keys]
      BY <2>4, SlotIs, Zenon DEF Stored, RingInv, RingType
    <3>2. e' \in 0..WRAP - 1 /\ Ordered(r, w, e') /\ Ordered(r, e', e')
      BY <2>4, TypeOrdered, Zenon DEF Room, RingInv, RingType
    <3> QED
      BY <2>0, <2>4, <3>1, <3>2, Zenon DEF RingInv, RingType, Ordered, Ahead
  <2> QED
    BY <1>2, <2>1, <2>2, <2>3, <2>4, Zenon DEF IntrChar
<1>3. CASE Type
  BY <1>3 DEF Type, cons, RingInv, RingType, Ordered, Ahead
<1>4. CASE UNCHANGED <<cons, rx>>
  BY <1>4, Zenon DEF cons, RingInv, RingType, Ordered, Ahead
<1>5. ASSUME NEW p \in Procs, Read(p) \/ Kill(p) \/ Write(p) \/ Uartwrite(p) \/ Printf(p)
      PROVE  UNCHANGED <<cons, rx>>
  BY <1>5, Zenon DEF Read, Kill, Write, Uartwrite, Printf
<1>6. IntrClaim \/ IntrTx \/ IntrEcho \/ IntrEnd \/ Send \/ UNCHANGED vars => UNCHANGED <<cons, rx>>
  BY Zenon DEF IntrClaim, IntrTx, IntrEcho, IntrEnd, Send, vars
<1> QED
  BY <1>1, <1>2, <1>3, <1>4, <1>5, <1>6, Zenon DEF Next

(* The buffer is empty at first. *)
LEMMA InitRing == Init => RingInv
<1>1. Ordered(0, 0, 0)
  BY OrderedIs
<1> QED
  BY <1>1 DEF Init, RingInv, RingType, Ordered, Keys

(* Neither the circular buffer nor the device's FIFO is overrun, for every size *)
(* of the buffer and every number of processes.                               *)
THEOREM NothingLost == Spec => []NothingOverrun
<1> DEFINE OInv == SleepInv /\ FifoInv /\ RingInv
<1>1. Init => OInv
  BY InitSleep, InitFifo, InitRing, Zenon
<1>2. OInv /\ [Next]_vars => OInv'
  <2> SUFFICES ASSUME OInv, [Next]_vars PROVE OInv'
    BY Zenon
  <2>1. RingInv'
    BY RingStep, Zenon
  <2>2. SleepInv'
    BY SleepStep, Zenon
  <2>3. FifoInv'
    <3>1. ASSUME NEW p \in Procs, Read(p) \/ Write(p) \/ Kill(p) \/ ReadChar(p) PROVE FifoInv'
      BY <2>2, <3>1, CallsFifo, Zenon
    <3>2. ASSUME NEW p \in Procs, Uartwrite(p) PROVE FifoInv'
      BY <3>2, UartwriteFifo, Zenon
    <3>3. ASSUME NEW p \in Procs, Printf(p) PROVE FifoInv'
      BY <3>3, PrintfFifo, Zenon
    <3>4. CASE IntrClaim \/ IntrTx \/ IntrChar \/ IntrEcho \/ IntrEnd \/ Send \/ Type
      BY <3>4, HandlerFifo, Zenon
    <3>5. CASE UNCHANGED vars
      BY <3>5, Zenon DEF vars, FifoInv, PutInv, Credit, At
    <3> QED
      BY <3>1, <3>2, <3>3, <3>4, <3>5, Zenon DEF Next
  <2> QED
    BY <2>1, <2>2, <2>3, Zenon
<1>3. OInv => NothingOverrun
  <2> SUFFICES ASSUME OInv PROVE NothingOverrun
    BY Zenon
  <2>1. FifoFits
    BY DEF FifoInv, Credit, FifoFits, SleepInv
  <2>2. RingOrdered
    BY Zenon DEF RingInv, Ordered, RingOrdered
  <2>3. TypeOK
    BY Zenon DEF RingInv, RingType, SleepInv, TypeOK
  <2> QED
    BY <2>1, <2>2, <2>3, Zenon DEF NothingOverrun
<1> HIDE DEF OInv
<1> QED
  BY <1>1, <1>2, <1>3, PTL DEF Spec
-----------------------------------------------------------------------------
(* What arithmetic needs to know of the constants. *)
LEMMA Sizes == INPUT_BUF_SIZE \in Nat \ {0} /\ WRAP \in Nat \ {0} /\ INPUT_BUF_SIZE < WRAP
OBVIOUS

HIDE ConsoleAssumption

(* The circular buffer as the line editor.  The n characters from index i on, *)
(* in a buffer b.                                                             *)
View(b, i, n) == [k \in 1..n |-> b[(i + k - 1) % INPUT_BUF_SIZE]]
Buffers == [0..INPUT_BUF_SIZE - 1 -> Keys]
Store(b, s, ch) == [b EXCEPT ![s] = ch]

(* They are a sequence of n characters. *)
LEMMA ViewIs ==
  ASSUME NEW b \in Buffers, NEW i \in Int, NEW n \in Nat
  PROVE  /\ View(b, i, n) \in Seq(Keys) /\ Len(View(b, i, n)) = n
         /\ \A k \in 1..n : /\ (i + k - 1) % INPUT_BUF_SIZE \in 0..INPUT_BUF_SIZE - 1
                            /\ View(b, i, n)[k] = b[(i + k - 1) % INPUT_BUF_SIZE]
<1>1. \A k \in 1..n : i + k - 1 \in Int
  OBVIOUS
<1>2. \A k \in 1..n : (i + k - 1) % INPUT_BUF_SIZE \in 0..INPUT_BUF_SIZE - 1
  BY <1>1, Sizes, Quotient, Zenon
<1>3. View(b, i, n) \in [1..n -> Keys]
  BY <1>2, Zenon DEF View, Buffers
<1>4. View(b, i, n) \in Seq(Keys) /\ Len(View(b, i, n)) = n
  BY <1>3, AsSequence, Zenon
<1> QED
  BY <1>2, <1>4, Zenon DEF View

(* The indices wrap at a multiple of the buffer's size. *)
LEMMA Turns == \E n \in Int : WRAP = n * INPUT_BUF_SIZE
<1>1. INPUT_BUF_SIZE \in Nat \ {0} /\ WRAP \in Int /\ WRAP % INPUT_BUF_SIZE = 0
  BY ConsoleAssumption
<1>2. PICK n \in Int : WRAP = n * INPUT_BUF_SIZE + (WRAP % INPUT_BUF_SIZE)
  BY <1>1, Quotient, Zenon
<1>3. WRAP = n * INPUT_BUF_SIZE
  BY <1>1, <1>2
<1> QED
  BY <1>3, Zenon

(* An index has the slot of the place that it is ahead, also across the wrap. *)
LEMMA Places ==
  ASSUME NEW i \in 0..WRAP - 1, NEW j \in 0..WRAP - 1, NEW x \in Int
  PROVE  (i + Ahead(j, i) + x) % INPUT_BUF_SIZE = (j + x) % INPUT_BUF_SIZE
<1>1. Ahead(j, i) = IF j >= i THEN j - i ELSE j - i + WRAP
  BY AheadIs, Zenon
<1>2. CASE j >= i
  <2>1. i + Ahead(j, i) + x = j + x
    BY <1>1, <1>2
  <2> QED
    BY <2>1, Zenon
<1>3. CASE ~(j >= i)
  <2> DEFINE X == i + Ahead(j, i) + x
             Y == j + x
  <2>1. X = WRAP + Y /\ X \in Int /\ Y \in Int
    BY <1>1, <1>3, Sizes
  <2> HIDE DEF X, Y
  <2>2. PICK n \in Int : WRAP = n * INPUT_BUF_SIZE
    BY Turns, Zenon
  <2>3. X % INPUT_BUF_SIZE = Y % INPUT_BUF_SIZE
    <3>1. X = n * INPUT_BUF_SIZE + Y
      BY <2>1, <2>2, Zenon
    <3> QED
      BY <2>1, <3>1, Sizes, SameRemainder, Zenon
  <2> QED
    BY <2>3, Zenon DEF X, Y
<1> QED
  BY <1>2, <1>3, Zenon

(* So has the index before it is wrapped. *)
LEMMA Unwrapped ==
  ASSUME NEW x \in Int
  PROVE  (x % WRAP) % INPUT_BUF_SIZE = x % INPUT_BUF_SIZE
<1>1. PICK q \in Int : x = q * WRAP + (x % WRAP) /\ x % WRAP \in 0..WRAP - 1
  BY Sizes, Quotient, Zenon
<1>2. PICK n \in Int : WRAP = n * INPUT_BUF_SIZE
  BY Turns, Zenon
<1> DEFINE y == x % WRAP
<1>3. x = q * (n * INPUT_BUF_SIZE) + y
  BY <1>1, <1>2, Zenon
<1>4. q * (n * INPUT_BUF_SIZE) = (q * n) * INPUT_BUF_SIZE /\ q * n \in Int
  BY Sizes
<1>5. y \in Int
  BY <1>1, Sizes
<1> HIDE DEF y
<1>6. x % INPUT_BUF_SIZE = y % INPUT_BUF_SIZE
  <2>1. x = (q * n) * INPUT_BUF_SIZE + y
    BY <1>3, <1>4, Zenon
  <2> QED
    BY <1>4, <1>5, <2>1, Sizes, SameRemainder, Zenon
<1> QED
  BY <1>6, Zenon DEF y

(* Slot s comes after the n characters from index i on, within the buffer's size. *)
Beyond(s, i, n) == \E m \in Nat : n <= m /\ m < INPUT_BUF_SIZE /\ s = (i + m) % INPUT_BUF_SIZE

(* A character stored after a view leaves it. *)
LEMMA StoredBeyond ==
  ASSUME NEW b \in Buffers, NEW i \in Int, NEW n \in Nat, NEW ch \in Keys, NEW s, Beyond(s, i, n)
  PROVE  /\ Store(b, s, ch) \in Buffers
         /\ View(Store(b, s, ch), i, n) = View(b, i, n)
<1>0. PICK m \in Nat : n <= m /\ m < INPUT_BUF_SIZE /\ s = (i + m) % INPUT_BUF_SIZE
  BY Zenon DEF Beyond
<1> DEFINE b2 == Store(b, s, ch)
<1>1. b2 \in Buffers /\ \A x \in 0..INPUT_BUF_SIZE - 1 : x # s => b2[x] = b[x]
  BY Zenon DEF Buffers, Store
<1> HIDE DEF b2
<1>2. ASSUME NEW k \in 1..n PROVE View(b2, i, n)[k] = View(b, i, n)[k]
  <2> DEFINE x == i + k - 1
             y == m - k + 1
  <2>1. x \in Int /\ y \in 1..INPUT_BUF_SIZE - 1 /\ x + y = i + m /\ INPUT_BUF_SIZE \in Nat \ {0}
    BY <1>0, <1>2, Sizes
  <2>2. (x + y) % INPUT_BUF_SIZE # x % INPUT_BUF_SIZE
    BY <2>1, OtherRemainder, Zenon
  <2>3. (i + k - 1) % INPUT_BUF_SIZE # s
    BY <1>0, <2>1, <2>2, Zenon
  <2>4. /\ (i + k - 1) % INPUT_BUF_SIZE \in 0..INPUT_BUF_SIZE - 1
        /\ View(b, i, n)[k] = b[(i + k - 1) % INPUT_BUF_SIZE]
        /\ View(b2, i, n)[k] = b2[(i + k - 1) % INPUT_BUF_SIZE]
    BY <1>1, <1>2, ViewIs, Zenon
  <2> QED
    BY <1>1, <2>3, <2>4, Zenon
<1>3. /\ View(b, i, n) \in Seq(Keys) /\ Len(View(b, i, n)) = n
      /\ View(b2, i, n) \in Seq(Keys) /\ Len(View(b2, i, n)) = n
  BY <1>1, ViewIs, Zenon
<1>4. View(b2, i, n) = View(b, i, n)
  BY <1>2, <1>3, SameSequence, Zenon
<1> QED
  BY <1>1, <1>4, Zenon DEF b2

(* A character stored right after a view is appended to it. *)
LEMMA StoredNext ==
  ASSUME NEW b \in Buffers, NEW i \in Int, NEW n \in Nat, n < INPUT_BUF_SIZE,
         NEW ch \in Keys, NEW s, s = (i + n) % INPUT_BUF_SIZE
  PROVE  View(Store(b, s, ch), i, n + 1) = Append(View(b, i, n), ch)
<1> DEFINE b2 == Store(b, s, ch)
<1>0. n <= n /\ n + 1 \in Nat /\ n + 1 \in 1..n + 1 /\ i + (n + 1) - 1 = i + n
  OBVIOUS
<1>1. b2 \in Buffers /\ View(b2, i, n) = View(b, i, n)
  <2>1. Beyond(s, i, n)
    BY <1>0, Zenon DEF Beyond
  <2> QED
    BY <2>1, StoredBeyond, ZenonT(60)
<1>a. s \in 0..INPUT_BUF_SIZE - 1 => b2[s] = ch
  BY Zenon DEF Buffers, Store
<1> HIDE DEF b2
<1>2. /\ View(b, i, n) \in Seq(Keys) /\ Len(View(b, i, n)) = n
      /\ View(b2, i, n + 1) \in Seq(Keys) /\ Len(View(b2, i, n + 1)) = n + 1
  BY <1>0, <1>1, ViewIs, Zenon
<1>3. ASSUME NEW k \in 1..n PROVE View(b2, i, n + 1)[k] = View(b, i, n)[k]
  <2>1. k \in 1..n + 1
    OBVIOUS
  <2>2. View(b2, i, n + 1)[k] = b2[(i + k - 1) % INPUT_BUF_SIZE]
    BY <1>0, <1>1, <2>1, ViewIs, Zenon
  <2>3. View(b2, i, n)[k] = b2[(i + k - 1) % INPUT_BUF_SIZE]
    BY <1>1, ViewIs, Zenon
  <2> QED
    BY <1>1, <2>2, <2>3, Zenon
<1>4. View(b2, i, n + 1)[n + 1] = ch
  <2>1. /\ (i + (n + 1) - 1) % INPUT_BUF_SIZE \in 0..INPUT_BUF_SIZE - 1
        /\ View(b2, i, n + 1)[n + 1] = b2[(i + (n + 1) - 1) % INPUT_BUF_SIZE]
    BY <1>0, <1>1, ViewIs, Zenon
  <2> QED
    BY <1>0, <1>a, <2>1, Zenon
<1> QED
  BY <1>2, <1>3, <1>4, Appended, Zenon DEF b2

(* Two views next to each other make one. *)
LEMMA ViewsJoin ==
  ASSUME NEW b \in Buffers, NEW i \in 0..WRAP - 1, NEW j \in 0..WRAP - 1, NEW n \in Nat,
         Ahead(j, i) \in Nat
  PROVE  View(b, i, Ahead(j, i) + n) = View(b, i, Ahead(j, i)) \o View(b, j, n)
<1> DEFINE a == Ahead(j, i)
           s == View(b, i, a)
           t == View(b, j, n)
           u == View(b, i, a + n)
<1>0. a \in Nat /\ a + n \in Nat /\ i \in Int /\ j \in Int
  OBVIOUS
<1>1. s \in Seq(Keys) /\ Len(s) = a /\ t \in Seq(Keys) /\ Len(t) = n
  BY <1>0, ViewIs, Zenon
<1>2. u \in Seq(Keys) /\ Len(u) = a + n
  BY <1>0, ViewIs, Zenon
<1>3. ASSUME NEW k \in 1..a PROVE u[k] = s[k]
  <2>1. k \in 1..a + n
    BY <1>0
  <2>2. u[k] = b[(i + k - 1) % INPUT_BUF_SIZE]
    BY <1>0, <2>1, ViewIs, Zenon
  <2>3. s[k] = b[(i + k - 1) % INPUT_BUF_SIZE]
    BY <1>0, ViewIs, Zenon
  <2> QED
    BY <2>2, <2>3, Zenon
<1>4. ASSUME NEW k \in 1..n PROVE u[a + k] = t[k]
  <2>1. a + k \in 1..a + n /\ i + (a + k) - 1 = i + a + (k - 1) /\ k - 1 \in Int /\ j + (k - 1) = j + k - 1
    BY <1>0
  <2>2. u[a + k] = b[(i + (a + k) - 1) % INPUT_BUF_SIZE]
    BY <1>0, <2>1, ViewIs, Zenon
  <2>3. t[k] = b[(j + k - 1) % INPUT_BUF_SIZE]
    BY <1>0, ViewIs, Zenon
  <2>4. (i + a + (k - 1)) % INPUT_BUF_SIZE = (j + (k - 1)) % INPUT_BUF_SIZE
    BY <2>1, Places, Zenon
  <2> QED
    BY <2>1, <2>2, <2>3, <2>4, Zenon
<1> HIDE DEF s, t, u, a
<1>5. u = s \o t
  BY <1>1, <1>2, <1>3, <1>4, Joined, ZenonT(60)
<1> QED
  BY <1>5, Zenon DEF s, t, u, a

(* How the three distances add up. *)
LEMMA Distances ==
  ASSUME NEW i \in 0..WRAP - 1, NEW j \in 0..WRAP - 1, NEW f \in 0..WRAP - 1, Ordered(i, j, f)
  PROVE  /\ Ahead(j, i) \in Nat /\ Ahead(f, j) \in Nat
         /\ Ahead(f, i) = Ahead(j, i) + Ahead(f, j) /\ Ahead(f, i) <= INPUT_BUF_SIZE
         /\ (Ahead(f, j) = 0 <=> f = j) /\ (Ahead(j, i) = 0 <=> j = i)
<1>1. /\ Ahead(j, i) = IF j >= i THEN j - i ELSE j - i + WRAP
      /\ Ahead(f, i) = IF f >= i THEN f - i ELSE f - i + WRAP
      /\ Ahead(f, j) = IF f >= j THEN f - j ELSE f - j + WRAP
  BY AheadIs, Zenon
<1>2. Ahead(j, i) <= Ahead(f, i) /\ Ahead(f, i) <= INPUT_BUF_SIZE
  BY Zenon DEF Ordered
<1> QED
  BY <1>1, <1>2, Sizes

(* Typing moves e one place further. *)
LEMMA OneMore ==
  ASSUME NEW i \in 0..WRAP - 1, NEW f \in 0..WRAP - 1, Ahead(f, i) < INPUT_BUF_SIZE
  PROVE  Inc(f) \in 0..WRAP - 1 /\ Ahead(Inc(f), i) = Ahead(f, i) + 1
<1> DEFINE g == Inc(f)
<1>1. g = IF f + 1 = WRAP THEN 0 ELSE f + 1
  BY IncIs, Zenon
<1> HIDE DEF g
<1>2. g \in 0..WRAP - 1
  BY <1>1, Sizes
<1>3. Ahead(g, i) = IF g >= i THEN g - i ELSE g - i + WRAP
  BY <1>2, AheadIs, Zenon
<1>4. Ahead(f, i) = IF f >= i THEN f - i ELSE f - i + WRAP
  BY AheadIs, Zenon
<1>5. Ahead(g, i) = Ahead(f, i) + 1
  BY <1>1, <1>2, <1>3, <1>4, Sizes
<1> QED
  BY <1>2, <1>5, Zenon DEF g

(* Reading moves r one place further. *)
LEMMA OneLess ==
  ASSUME NEW i \in 0..WRAP - 1, NEW j \in 0..WRAP - 1, i # j
  PROVE  /\ Inc(i) \in 0..WRAP - 1 /\ Ahead(j, i) = Ahead(j, Inc(i)) + 1 /\ Ahead(j, Inc(i)) \in Nat
         /\ Ahead(Inc(i), i) = 1
<1> DEFINE g == Inc(i)
<1>1. g = IF i + 1 = WRAP THEN 0 ELSE i + 1
  BY IncIs, Zenon
<1> HIDE DEF g
<1>2. g \in 0..WRAP - 1
  BY <1>1, Sizes
<1>3. /\ Ahead(j, g) = IF j >= g THEN j - g ELSE j - g + WRAP
      /\ Ahead(g, i) = IF g >= i THEN g - i ELSE g - i + WRAP
      /\ Ahead(j, i) = IF j >= i THEN j - i ELSE j - i + WRAP
  BY <1>2, AheadIs, Zenon
<1>5. Ahead(j, i) = Ahead(j, g) + 1 /\ Ahead(j, g) \in Nat /\ Ahead(g, i) = 1
  BY <1>1, <1>2, <1>3, Sizes
<1> QED
  BY <1>2, <1>5, Zenon DEF g

(* Editing takes e back. *)
LEMMA TakenBack ==
  ASSUME NEW j \in 0..WRAP - 1, NEW f \in 0..WRAP - 1, NEW k \in 0..INPUT_BUF_SIZE, k <= Ahead(f, j)
  PROVE  Ahead((f - k) % WRAP, j) = Ahead(f, j) - k
<1> DEFINE g == (f - k) % WRAP
<1>1. g = IF f >= k THEN f - k ELSE f - k + WRAP
  BY BackIs, Sizes
<1> HIDE DEF g
<1>2. g \in 0..WRAP - 1
  BY <1>1, Sizes
<1>3. /\ Ahead(g, j) = IF g >= j THEN g - j ELSE g - j + WRAP
      /\ Ahead(f, j) = IF f >= j THEN f - j ELSE f - j + WRAP
  BY <1>2, AheadIs, Zenon
<1>4. Ahead(g, j) = Ahead(f, j) - k
  BY <1>1, <1>2, <1>3, Sizes
<1> QED
  BY <1>4, Zenon DEF g

(* What the readers have, and what can be edited, as views of the buffer. *)
LEMMA Views ==
  RingType => /\ Between(w, e) = View(buf, w, Ahead(e, w))
              /\ Between(r, w) = View(buf, r, Ahead(w, r))
<1> SUFFICES ASSUME RingType
             PROVE  /\ Between(w, e) = View(buf, w, Ahead(e, w))
                    /\ Between(r, w) = View(buf, r, Ahead(w, r))
  BY Zenon
<1>1. ASSUME NEW i \in 0..WRAP - 1, NEW j \in 0..WRAP - 1
      PROVE  Between(i, j) = View(buf, i, Ahead(j, i))
  <2>0. Ahead(j, i) \in Int /\ i \in Int
    BY AheadIs, Sizes
  <2>1. \A k \in 1..Ahead(j, i) : i + k - 1 \in Int
    BY <2>0
  <2>2. \A k \in 1..Ahead(j, i) : ((i + k - 1) % WRAP) % INPUT_BUF_SIZE = (i + k - 1) % INPUT_BUF_SIZE
    BY <2>1, Unwrapped, Zenon
  <2> QED
    BY <2>2, Zenon DEF Between, View
<1> QED
  BY <1>1, Zenon DEF RingType

(* What can be edited has no newline: so C('U') takes all of it back. *)
LineInv == \A k \in 1..Len(Between(w, e)) : Between(w, e)[k] # "nl"

(* The types of the two sequences. *)
LEMMA Lines ==
  ASSUME RingInv
  PROVE  /\ Between(w, e) \in Seq(Keys) /\ Len(Between(w, e)) = Ahead(e, w)
         /\ Between(r, w) \in Seq(Keys) /\ Len(Between(r, w)) = Ahead(w, r)
<1>1. /\ buf \in Buffers /\ w \in Int /\ r \in Int /\ Ahead(e, w) \in Nat /\ Ahead(w, r) \in Nat
  BY Distances DEF RingInv, RingType, Buffers
<1>2. View(buf, w, Ahead(e, w)) \in Seq(Keys) /\ Len(View(buf, w, Ahead(e, w))) = Ahead(e, w)
  BY <1>1, ViewIs, Zenon
<1>3. View(buf, r, Ahead(w, r)) \in Seq(Keys) /\ Len(View(buf, r, Ahead(w, r))) = Ahead(w, r)
  BY <1>1, ViewIs, Zenon
<1> QED
  BY <1>1, <1>2, <1>3, Views, Zenon DEF RingInv

(* A typed character is appended to the line, which it may complete. *)
LEMMA TypedStep ==
  ASSUME RingInv, RingInv', NEW ch \in {"char", "nl", "eof"}, Room, buf' = Stored(ch), e' = Inc(e),
         w' = IF Whole(ch, Inc(e)) THEN Inc(e) ELSE w, r' = r
  PROVE  Editor!Typed(ch)
<1> DEFINE a == Ahead(w, r)
           n == Ahead(e, w)
           line == Between(w, e)
           ready == Between(r, w)
<1>0. /\ buf \in Buffers /\ r \in 0..WRAP - 1 /\ w \in 0..WRAP - 1 /\ e \in 0..WRAP - 1 /\ Ordered(r, w, e)
      /\ buf' \in Buffers /\ ch \in Keys
  BY Zenon DEF RingInv, RingType, Buffers, Keys
<1>1. a \in Nat /\ n \in Nat /\ Ahead(e, r) = a + n /\ a + n < INPUT_BUF_SIZE
  BY <1>0, Distances, Zenon DEF Room
<1>2. n < INPUT_BUF_SIZE /\ a <= a + n /\ a + n \in Nat /\ r \in Int /\ w \in Int /\ n + 1 \in Nat
  BY <1>0, <1>1, Sizes
<1>3. Ahead(Inc(e), r) = a + n + 1 /\ Ahead(Inc(e), w) = n + 1 /\ Inc(e) \in 0..WRAP - 1
  BY <1>0, <1>1, <1>2, OneMore, ZenonT(60)
<1>4. line = View(buf, w, n) /\ ready = View(buf, r, a)
  BY Views, Zenon DEF RingInv
<1>5. e % INPUT_BUF_SIZE = (w + n) % INPUT_BUF_SIZE /\ e % INPUT_BUF_SIZE = (r + (a + n)) % INPUT_BUF_SIZE
  <2>1. 0 \in Int /\ w + n + 0 = w + n /\ e + 0 = e /\ r + (a + n) + 0 = r + (a + n)
    BY <1>0, <1>1
  <2> QED
    <3>1. (w + Ahead(e, w) + 0) % INPUT_BUF_SIZE = (e + 0) % INPUT_BUF_SIZE
      BY <1>0, <2>1, Places, Zenon
    <3>2. (r + Ahead(e, r) + 0) % INPUT_BUF_SIZE = (e + 0) % INPUT_BUF_SIZE
      BY <1>0, <2>1, Places, Zenon
    <3> QED
      BY <1>1, <2>1, <3>1, <3>2, Zenon
<1> DEFINE s == e % INPUT_BUF_SIZE
           m == a + n
<1>a. buf' = Store(buf, s, ch) /\ m \in Nat /\ a <= m /\ m < INPUT_BUF_SIZE
  BY <1>1, <1>2, Zenon DEF Stored, Store
<1>b. s = (w + n) % INPUT_BUF_SIZE /\ s = (r + m) % INPUT_BUF_SIZE
  BY <1>5, Zenon
<1> HIDE DEF a, n, s, m
<1>6. View(buf', w, n + 1) = Append(line, ch)
  <2>1. View(Store(buf, s, ch), w, n + 1) = Append(View(buf, w, n), ch)
    <3>1. \A x : x = (w + n) % INPUT_BUF_SIZE =>
            View(Store(buf, x, ch), w, n + 1) = Append(View(buf, w, n), ch)
      BY <1>0, <1>1, <1>2, StoredNext, ZenonT(60)
    <3> QED
      BY <1>b, <3>1, Zenon
  <2> QED
    BY <1>4, <1>a, <2>1, Zenon
<1>7. View(buf', r, a) = ready
  <2>1. View(Store(buf, s, ch), r, a) = View(buf, r, a)
    <3>1. Beyond(s, r, a)
      BY <1>a, <1>b, Zenon DEF Beyond
    <3> QED
      <4>1. buf \in Buffers /\ r \in Int /\ a \in Nat /\ ch \in Keys
        BY <1>0, <1>1, <1>2, Zenon
      <4> QED
        BY <3>1, <4>1, StoredBeyond, ZenonT(60)
  <2> QED
    BY <1>4, <1>a, <2>1, Zenon
<1> USE DEF a, n
<1>8. Between(w, e)' = View(buf', w', Ahead(e', w')) /\ Between(r, w)' = View(buf', r, Ahead(w', r))
  <2>1. RingType'
    BY Zenon DEF RingInv
  <2>2. (/\ Between(w, e) = View(buf, w, Ahead(e, w))
         /\ Between(r, w) = View(buf, r, Ahead(w, r)))'
    BY <2>1, Views, PTL
  <2> QED
    BY <2>2, Zenon
<1>9. Len(line) = n /\ Len(ready) = a /\ line \in Seq(Keys)
  BY Lines, Zenon
<1>10. Len(Append(line, ch)) = n + 1
  BY <1>0, <1>9
<1>11. Whole(ch, Inc(e)) <=> ch \in {"nl", "eof"} \/ Len(ready) + Len(Append(line, ch)) = INPUT_BUF_SIZE
  <2>1. a + n + 1 = a + (n + 1)
    BY <1>1
  <2> QED
    BY <1>3, <1>9, <1>10, <2>1, Zenon DEF Whole
<1>12. CASE Whole(ch, Inc(e))
  <2>1. w' = Inc(e) /\ Ahead(e', w') = 0
    BY <1>3, <1>12, AheadIs
  <2>2. Between(w, e)' = <<>>
    BY <1>8, <2>1 DEF View
  <2>3. Ahead(w', r) = a + (n + 1)
    BY <1>1, <1>3, <2>1
  <2>4. View(buf', r, a + (n + 1)) = View(buf', r, a) \o View(buf', w, n + 1)
    <3>1. buf' \in Buffers /\ r \in 0..WRAP - 1 /\ w \in 0..WRAP - 1 /\ n + 1 \in Nat /\ a \in Nat
      BY <1>0, <1>1, <1>2, Zenon
    <3> QED
      BY <3>1, ViewsJoin, ZenonT(60)
  <2>5. Between(r, w)' = ready \o Append(line, ch)
    BY <1>6, <1>7, <1>8, <2>3, <2>4, Zenon
  <2> QED
    BY <1>1, <1>9, <1>11, <1>12, <2>2, <2>5, Zenon DEF Editor!Typed
<1>13. CASE ~Whole(ch, Inc(e))
  <2>1. w' = w /\ Ahead(e', w') = n + 1
    BY <1>3, <1>13, Zenon
  <2>2. Between(w, e)' = Append(line, ch)
    BY <1>6, <1>8, <2>1, Zenon
  <2>3. Between(r, w)' = ready
    BY <1>7, <1>8, <2>1, Zenon
  <2> QED
    BY <1>1, <1>9, <1>11, <1>13, <2>2, <2>3, Zenon DEF Editor!Typed
<1> QED
  BY <1>12, <1>13, Zenon

(* A key that takes back k characters leaves the readers' and the others. *)
LEMMA BackStep ==
  ASSUME RingInv, RingInv', UNCHANGED <<buf, w, r>>, NEW k \in 0..INPUT_BUF_SIZE, k <= Ahead(e, w),
         e' = (e - k) % WRAP
  PROVE  /\ Between(r, w)' = Between(r, w)
         /\ Between(w, e)' = View(buf, w, Ahead(e, w) - k)
<1>1. RingType' /\ RingType
  BY Zenon DEF RingInv
<1>2. (/\ Between(w, e) = View(buf, w, Ahead(e, w))
       /\ Between(r, w) = View(buf, r, Ahead(w, r)))'
  BY <1>1, Views, PTL
<1>3. Ahead(e', w) = Ahead(e, w) - k
  BY <1>1, TakenBack, Zenon DEF RingType
<1> QED
  BY <1>1, <1>2, <1>3, Views, Zenon

(* C('H') takes back the last character. *)
LEMMA EraseStep ==
  ASSUME RingInv, RingInv', UNCHANGED <<buf, w, r>>, e # w, e' = Dec(e)
  PROVE  Editor!Erase
<1> DEFINE n == Ahead(e, w)
           line == Between(w, e)
<1>0. buf \in Buffers /\ w \in Int /\ n \in Nat /\ n # 0 /\ r \in 0..WRAP - 1
  BY Distances DEF RingInv, RingType, Buffers
<1>1. n - 1 \in Nat /\ n = (n - 1) + 1 /\ 1 \in 0..INPUT_BUF_SIZE /\ 1 <= Ahead(e, w)
  BY <1>0, Sizes
<1>2. Between(r, w)' = Between(r, w) /\ Between(w, e)' = View(buf, w, n - 1)
  BY <1>1, BackStep, Zenon DEF Dec
<1>3. line = View(buf, w, n) /\ line \in Seq(Keys) /\ Len(line) = n
  BY Views, Lines, Zenon DEF RingInv
<1>4. View(buf, w, n - 1) \in Seq(Keys) /\ Len(View(buf, w, n - 1)) = n - 1
  BY <1>0, <1>1, ViewIs, Zenon
<1>5. ASSUME NEW k \in 1..n - 1 PROVE View(buf, w, n - 1)[k] = line[k]
  <2>1. k \in 1..n
    BY <1>0
  <2>2. View(buf, w, n)[k] = buf[(w + k - 1) % INPUT_BUF_SIZE]
    BY <1>0, <2>1, ViewIs, Zenon
  <2>3. View(buf, w, n - 1)[k] = buf[(w + k - 1) % INPUT_BUF_SIZE]
    BY <1>0, <1>1, ViewIs, Zenon
  <2> QED
    BY <1>3, <2>2, <2>3, Zenon
<1>6. line # <<>> /\ SubSeq(line, 1, Len(line) - 1) = View(buf, w, n - 1)
  BY <1>1, <1>3, <1>4, <1>5, IsFront, ZenonT(60)
<1> QED
  BY <1>2, <1>6, Zenon DEF Editor!Erase

(* C('U') takes back the whole line: no newline stops it. *)
LEMMA KillStep ==
  ASSUME RingInv, RingInv', LineInv, UNCHANGED <<buf, w, r>>, NEW k \in 0..INPUT_BUF_SIZE, Killed(k),
         e' = (e - k) % WRAP
  PROVE  Editor!Kill
<1> DEFINE n == Ahead(e, w)
           line == Between(w, e)
<1>0. buf \in Buffers /\ w \in 0..WRAP - 1 /\ w \in Int /\ e \in 0..WRAP - 1 /\ n \in Nat
  BY Distances DEF RingInv, RingType, Buffers
<1>1. line = View(buf, w, n) /\ Len(line) = n
  BY Views, Lines, Zenon DEF RingInv
<1>2. ASSUME NEW j \in 1..n PROVE buf[((e - j) % WRAP) % INPUT_BUF_SIZE] # "nl"
  <2>1. /\ n - j + 1 \in 1..n /\ w + (n - j + 1) - 1 = w + n + (-j) /\ -j \in Int
        /\ e - j = e + (-j) /\ e - j \in Int
    BY <1>0
  <2>2. line[n - j + 1] = buf[(w + (n - j + 1) - 1) % INPUT_BUF_SIZE]
    <3>1. \A i \in 1..n : View(buf, w, n)[i] = buf[(w + i - 1) % INPUT_BUF_SIZE]
      BY <1>0, ViewIs, Zenon
    <3> QED
      BY <1>1, <2>1, <3>1, Zenon
  <2>3. line[n - j + 1] # "nl"
    BY <1>1, <2>1, Zenon DEF LineInv
  <2>4. (w + n + (-j)) % INPUT_BUF_SIZE = (e + (-j)) % INPUT_BUF_SIZE
    BY <1>0, <2>1, Places, Zenon
  <2>5. ((e - j) % WRAP) % INPUT_BUF_SIZE = (e - j) % INPUT_BUF_SIZE
    BY <2>1, Unwrapped, Zenon
  <2> QED
    BY <2>1, <2>2, <2>3, <2>4, <2>5, Zenon
<1>3. n >= k
  BY Zenon DEF Killed
<1>4. ~(n >= k + 1)
  <2> SUFFICES ASSUME n >= k + 1 PROVE FALSE
    BY Zenon
  <2>1. \A j \in 1..k + 1 : j \in 1..n
    BY <1>0
  <2>2. \A j \in 1..k + 1 : buf[((e - j) % WRAP) % INPUT_BUF_SIZE] # "nl"
    BY <1>2, <2>1, Zenon
  <2> QED
    BY <2>2, Zenon DEF Killed
<1>5. k <= Ahead(e, w) /\ Ahead(e, w) - k = 0
  BY <1>0, <1>3, <1>4
<1>6. Between(r, w)' = Between(r, w) /\ Between(w, e)' = View(buf, w, 0)
  BY <1>5, BackStep, Zenon
<1>7. View(buf, w, 0) = <<>>
  BY DEF View
<1> QED
  BY <1>6, <1>7, Zenon DEF Editor!Kill

(* consoleread() takes the first of the readers' characters. *)
LEMMA TakeStep ==
  ASSUME RingInv, RingInv', UNCHANGED <<buf, w, e>>, r # w, r' = Inc(r)
  PROVE  Editor!Take
<1> DEFINE n == Ahead(w, r)
           m == Ahead(w, Inc(r))
           ready == Between(r, w)
<1>0. buf \in Buffers /\ w \in 0..WRAP - 1 /\ r \in 0..WRAP - 1 /\ r \in Int
  BY DEF RingInv, RingType, Buffers
<1>1. Inc(r) \in 0..WRAP - 1 /\ n = m + 1 /\ m \in Nat /\ Ahead(Inc(r), r) = 1
  BY <1>0, OneLess, Zenon
<1>2. n \in Nat /\ Inc(r) \in Int
  BY <1>1
<1>3. Between(w, e)' = Between(w, e) /\ Between(r, w)' = View(buf, Inc(r), m)
  <2>1. RingType' /\ RingType
    BY Zenon DEF RingInv
  <2>2. (/\ Between(w, e) = View(buf, w, Ahead(e, w))
         /\ Between(r, w) = View(buf, r, Ahead(w, r)))'
    BY <2>1, Views, PTL
  <2> QED
    BY <2>1, <2>2, Views, Zenon
<1>4. ready = View(buf, r, n) /\ ready \in Seq(Keys) /\ Len(ready) = n
  BY Views, Lines, Zenon DEF RingInv
<1>5. View(buf, Inc(r), m) \in Seq(Keys) /\ Len(View(buf, Inc(r), m)) = m
  BY <1>0, <1>1, <1>2, ViewIs, ZenonT(60)
<1>6. ASSUME NEW k \in 1..m PROVE View(buf, Inc(r), m)[k] = ready[k + 1]
  <2>1. k + 1 \in 1..n /\ r + (k + 1) - 1 = r + 1 + (k - 1) /\ k - 1 \in Int
        /\ Inc(r) + k - 1 = Inc(r) + (k - 1)
    BY <1>0, <1>1, <1>2
  <2>2. View(buf, r, n)[k + 1] = buf[(r + (k + 1) - 1) % INPUT_BUF_SIZE]
    BY <1>0, <1>2, <2>1, ViewIs, Zenon
  <2>3. View(buf, Inc(r), m)[k] = buf[(Inc(r) + k - 1) % INPUT_BUF_SIZE]
    BY <1>0, <1>1, <1>2, ViewIs, Zenon
  <2>4. (r + 1 + (k - 1)) % INPUT_BUF_SIZE = (Inc(r) + (k - 1)) % INPUT_BUF_SIZE
    <3>1. (r + Ahead(Inc(r), r) + (k - 1)) % INPUT_BUF_SIZE = (Inc(r) + (k - 1)) % INPUT_BUF_SIZE
      BY <1>0, <1>1, <2>1, Places, Zenon
    <3> QED
      BY <1>1, <3>1, Zenon
  <2> QED
    BY <1>4, <2>1, <2>2, <2>3, <2>4, Zenon
<1>7. ready # <<>> /\ Tail(ready) = View(buf, Inc(r), m)
  BY <1>1, <1>4, <1>5, <1>6, IsTail, Zenon
<1> QED
  BY <1>3, <1>7, Zenon DEF Editor!Take

(* Every step is a step of the line editor, or none that it shows. *)
LEMMA EditorStep ==
  ASSUME RingInv, RingInv', LineInv, [Next]_vars
  PROVE  [Editor!Next]_(Editor!vars) /\ LineInv'
<1> DEFINE line == Between(w, e)
           ready == Between(r, w)
<1>0. line \in Seq(Keys) /\ \A k \in 1..Len(line) : line[k] # "nl"
  BY Lines, Zenon DEF LineInv
<1>a. ASSUME UNCHANGED cons PROVE UNCHANGED <<line, ready>>
  BY <1>a, Zenon DEF cons, Between, Ahead
<1>b. ASSUME UNCHANGED <<line, ready>> PROVE [Editor!Next]_(Editor!vars) /\ LineInv'
  BY <1>b, Zenon DEF Editor!vars, LineInv
<1>c. ASSUME \/ line' = line \/ line' = <<>>
             \/ line # <<>> /\ line' = SubSeq(line, 1, Len(line) - 1)
             \/ \E x \in Keys \ {"nl"} : line' = Append(line, x)
      PROVE  LineInv'
  <2>1. \A k \in 1..Len(line') : line'[k] # "nl"
    BY <1>0, <1>c, NoNewline, Zenon
  <2> QED
    BY <2>1, Zenon DEF LineInv
<1>1. ASSUME NEW p \in Procs, ReadChar(p) PROVE [Editor!Next]_(Editor!vars) /\ LineInv'
  <2>1. UNCHANGED <<buf, w, e>> /\ (r' = r \/ (r # w /\ r' = Inc(r)))
    BY <1>1, Zenon DEF ReadChar
  <2>2. CASE r' = r
    BY <2>1, <2>2, <1>a, <1>b, Zenon DEF cons
  <2>3. CASE r # w /\ r' = Inc(r)
    <3>1. Editor!Take
      BY <2>1, <2>3, TakeStep, Zenon
    <3>2. LineInv'
      BY <3>1, <1>c, Zenon DEF Editor!Take
    <3> QED
      BY <3>1, <3>2, Zenon DEF Editor!Next
  <2> QED
    BY <2>1, <2>2, <2>3, Zenon
<1>2. CASE IntrChar
  <2>0. r' = r
    BY <1>2, Zenon DEF IntrChar
  <2>1. CASE UNCHANGED <<buf, w, e>>
    BY <2>0, <2>1, <1>a, <1>b, Zenon DEF cons
  <2>2. ASSUME NEW k \in 0..INPUT_BUF_SIZE, UNCHANGED <<buf, w>>, Killed(k), e' = (e - k) % WRAP
        PROVE  [Editor!Next]_(Editor!vars) /\ LineInv'
    <3>1. Editor!Kill
      BY <2>0, <2>2, KillStep, Zenon
    <3>2. LineInv'
      BY <3>1, <1>c, Zenon DEF Editor!Kill
    <3> QED
      BY <3>1, <3>2, Zenon DEF Editor!Next
  <2>3. CASE UNCHANGED <<buf, w>> /\ e # w /\ e' = Dec(e)
    <3>1. Editor!Erase
      BY <2>0, <2>3, EraseStep, Zenon
    <3>2. LineInv'
      BY <3>1, <1>c, Zenon DEF Editor!Erase
    <3> QED
      BY <3>1, <3>2, Zenon DEF Editor!Next
  <2>4. ASSUME NEW ch \in {"char", "nl", "eof"}, Room, buf' = Stored(ch), e' = Inc(e),
               w' = IF Whole(ch, Inc(e)) THEN Inc(e) ELSE w
        PROVE  [Editor!Next]_(Editor!vars) /\ LineInv'
    <3>1. Editor!Typed(ch)
      BY <2>0, <2>4, TypedStep, Zenon
    <3>2. line' = <<>> \/ (ch # "nl" /\ line' = Append(line, ch))
      BY <3>1, Zenon DEF Editor!Typed
    <3>3. LineInv'
      BY <3>2, <1>c, Zenon DEF Keys
    <3> QED
      BY <3>1, <3>3, Zenon DEF Editor!Next
  <2> QED
    BY <1>2, <2>1, <2>2, <2>3, <2>4, Zenon DEF IntrChar
<1>3. ASSUME NEW p \in Procs, Read(p) \/ Kill(p) \/ Write(p) \/ Uartwrite(p) \/ Printf(p)
      PROVE  UNCHANGED cons
  BY <1>3, Zenon DEF Read, Kill, Write, Uartwrite, Printf
<1>4. IntrClaim \/ IntrTx \/ IntrEcho \/ IntrEnd \/ Send \/ Type \/ UNCHANGED vars => UNCHANGED cons
  BY Zenon DEF IntrClaim, IntrTx, IntrEcho, IntrEnd, Send, Type, vars
<1> QED
  BY <1>1, <1>2, <1>3, <1>4, <1>a, <1>b, Zenon DEF Next

(* The buffer of console.c, its three wrapping indices and the interrupt that *)
(* edits it under the readers behave as a line editor: only what is not yet   *)
(* handed over can be taken back, C('U') takes back the whole line, and the   *)
(* readers get the characters in the order typed, none twice and none lost,   *)
(* for every size of the buffer.                                              *)
THEOREM ConsoleEditsLines == Spec => EditsLines
<1> DEFINE EInv == RingInv /\ LineInv
<1>1. Init => EInv /\ Editor!Init
  <2> SUFFICES ASSUME Init PROVE EInv /\ Editor!Init
    BY Zenon
  <2>1. RingInv
    BY InitRing, Zenon
  <2>2. Ahead(e, w) = 0 /\ Ahead(w, r) = 0
    BY AheadIs, Sizes DEF Init
  <2>3. Between(w, e) = <<>> /\ Between(r, w) = <<>>
    BY <2>2 DEF Between
  <2> QED
    BY <2>1, <2>3 DEF LineInv, Editor!Init
<1>2. EInv /\ [Next]_vars => EInv' /\ [Editor!Next]_(Editor!vars)
  <2> SUFFICES ASSUME EInv, [Next]_vars PROVE EInv' /\ [Editor!Next]_(Editor!vars)
    BY Zenon
  <2>1. RingInv'
    BY RingStep, Zenon
  <2> QED
    BY <2>1, EditorStep, Zenon
<1> HIDE DEF EInv
<1> QED
  BY <1>1, <1>2, PTL DEF Spec, EditsLines, Editor!Spec
====
