------------------------------- MODULE Console -------------------------------
(* The console: console.c over the UART driver of uart.c, with the device and *)
(* its interrupt.  Processes read lines, write, and print kernel messages;    *)
(* the interrupt handler runs on another hart, or between two of their steps. *)
(*                                                                            *)
(* A span under one spinlock is a step, but for the spins of uartputc_sync(), *)
(* during which cons.lock or pr.lock stays held.  Of output only the number   *)
(* of bytes in the device is kept.                                            *)
EXTENDS Integers

CONSTANTS Procs,
          INPUT_BUF_SIZE,
          WRAP,      \* where the indices wrap: 2^32 in the code
          RXFIFO,    \* input that the device keeps at most
          TXFIFO,    \* output that the device can hold
          MaxBytes   \* the most a process reads or writes in a call


Keys == {"char", "nl", "eof", "kill", "erase", "dump"}
None == "none"
Handler == "handler"

ASSUME ConsoleAssumption ==
  /\ None \notin Procs /\ Handler \notin Procs
  /\ INPUT_BUF_SIZE \in Nat \ {0} /\ WRAP \in Nat
  /\ WRAP % INPUT_BUF_SIZE = 0 /\ WRAP > INPUT_BUF_SIZE
  /\ RXFIFO \in Nat /\ TXFIFO \in Nat /\ TXFIFO >= 3 /\ MaxBytes \in Nat

VARIABLES
  buf, r, w, e,  \* struct cons
  conslock,      \* its holder
  prlock,        \* printf()'s lock
  busy,          \* tx_busy
  tx,            \* bytes in the device's output FIFO
  thre,          \* the device's "transmitter empty" interrupt
  rx,            \* characters in its input FIFO
  h,             \* where the interrupt handler is
  c              \* per process: where it is, bytes to go, whether it has read some

cons == <<buf, r, w, e>>
vars == <<cons, conslock, prlock, busy, tx, thre, rx, h, c>>

Idle == [pc |-> "idle", n |-> 0, some |-> FALSE, killed |-> FALSE]

Init ==
  /\ buf = [i \in 0..INPUT_BUF_SIZE - 1 |-> "char"] /\ r = 0 /\ w = 0 /\ e = 0
  /\ conslock = None /\ prlock = None /\ busy = FALSE
  /\ tx = 0 /\ thre = FALSE /\ rx = 0
  /\ h = "idle"
  /\ c = [p \in Procs |-> Idle]

At(p, label) == c[p].pc = label

(* The next and the previous index, and how far one is ahead of another. *)
Inc(i) == (i + 1) % WRAP

Dec(i) == (i - 1) % WRAP
Ahead(i, j) == (i - j) % WRAP

(* All that sleep on a channel become runnable. *)
Wake(from, to) == [p \in Procs |-> IF c[p].pc = from THEN [c[p] EXCEPT !.pc = to] ELSE c[p]]

-----------------------------------------------------------------------------
(* consoleread() starts. *)
Read(p) ==
  /\ At(p, "idle")
  /\ \E n \in 1..MaxBytes : c' = [c EXCEPT ![p] = [Idle EXCEPT !.pc = "read", !.n = n]]
  /\ UNCHANGED <<cons, conslock, prlock, busy, tx, thre, rx, h>>

(* An iteration of consoleread(); it keeps cons.lock until it returns or      *)
(* sleeps.  The copy to user memory may fail.                                 *)
ReadChar(p) ==
  LET ch == buf[r % INPUT_BUF_SIZE]
      return == c' = [c EXCEPT ![p] = Idle] /\ conslock' = None
  IN /\ At(p, "read") /\ conslock \in {None, p}
     /\ IF r = w
        THEN /\ r' = r
             /\ IF c[p].killed THEN return
                ELSE c' = [c EXCEPT ![p].pc = "readsleep"] /\ conslock' = None
        ELSE IF ch = "eof"
        THEN r' = (IF c[p].some THEN r ELSE Inc(r)) /\ return
        ELSE /\ r' = Inc(r)
             /\ \/ return
                \/ /\ ch # "nl" /\ c[p].n > 1
                   /\ c' = [c EXCEPT ![p].n = @ - 1, ![p].some = TRUE] /\ conslock' = p
     /\ UNCHANGED <<buf, w, e, prlock, busy, tx, thre, rx, h>>

(* kkill() makes a sleeping process runnable; a writer does not look at it. *)
Kill(p) ==
  /\ \/ At(p, "readsleep") /\ c' = [c EXCEPT ![p].pc = "read", ![p].killed = TRUE]
     \/ At(p, "uartsleep") /\ c' = [c EXCEPT ![p].pc = "uartwrite"]
  /\ UNCHANGED <<cons, conslock, prlock, busy, tx, thre, rx, h>>

-----------------------------------------------------------------------------
(* A byte is written to THR, which takes back the device's interrupt. *)
PutTHR == tx' = tx + 1 /\ thre' = FALSE

(* A batch of consolewrite(), which holds nothing from one batch to the next. *)
Write(p) ==
  /\ At(p, "idle")
  /\ \E n \in 1..MaxBytes : c' = [c EXCEPT ![p] = [Idle EXCEPT !.pc = "uartwrite", !.n = n]]
  /\ UNCHANGED <<cons, conslock, prlock, busy, tx, thre, rx, h>>

(* uartwrite(), from a sleep to the next one, or to its end. *)
Uartwrite(p) ==
  /\ At(p, "uartwrite")
  /\ IF busy
     THEN /\ c' = [c EXCEPT ![p].pc = "uartsleep"]
          /\ UNCHANGED <<busy, tx, thre>>
     ELSE /\ PutTHR /\ busy' = TRUE
          /\ c' = [c EXCEPT ![p] = IF c[p].n > 1 THEN [c[p] EXCEPT !.n = @ - 1, !.pc = "uartsleep"]
                                    ELSE Idle]
  /\ UNCHANGED <<cons, conslock, prlock, rx, h>>

(* Mutant: uartputc_sync() does not wait. *)
TxIdleAlways == TRUE

(* LSR_TX_IDLE *)
TxIdle == tx = 0

(* printf(): a byte with uartputc_sync(), first the spin, then the write. *)
Printf(p) ==
  /\ \/ /\ At(p, "idle") /\ prlock = None
        /\ prlock' = p /\ c' = [c EXCEPT ![p].pc = "spin"]
        /\ UNCHANGED <<tx, thre>>
     \/ /\ At(p, "spin") /\ TxIdle
        /\ c' = [c EXCEPT ![p].pc = "put"]
        /\ UNCHANGED <<tx, thre, prlock>>
     \/ /\ At(p, "put") /\ PutTHR
        /\ prlock' = None /\ c' = [c EXCEPT ![p] = Idle]
  /\ UNCHANGED <<cons, conslock, busy, rx, h>>

-----------------------------------------------------------------------------
(* The device interrupts, devintr() claims it from the PLIC, and uartintr()   *)
(* reads ISR, which takes back a "transmitter empty", unless input, which has *)
(* precedence, is what it reports.                                            *)
IntrClaim ==
  /\ h = "idle" /\ (thre \/ rx > 0)
  /\ h' = "tx"
  /\ thre' = (thre /\ rx > 0)
  /\ UNCHANGED <<cons, conslock, prlock, busy, tx, rx, c>>

(* Mutant: the writers are not woken. *)
WokenWritersNot == c

WokenWriters == Wake("uartsleep", "uartwrite")

(* uartintr(), under tx_lock. *)
IntrTx ==
  /\ h = "tx"
  /\ h' = "rx"
  /\ IF TxIdle THEN busy' = FALSE /\ c' = WokenWriters ELSE UNCHANGED <<busy, c>>
  /\ UNCHANGED <<cons, conslock, prlock, tx, thre, rx>>

Room == Ahead(e, r) < INPUT_BUF_SIZE

(* What has been typed is handed to the readers. *)
Whole(ch, end) == ch \in {"nl", "eof"} \/ Ahead(end, r) = INPUT_BUF_SIZE

WokenReaders(ch) == Wake("readsleep", "read")

(* Mutant: the index is incremented before it is used. *)
StoredAfter(ch) == [buf EXCEPT ![Inc(e) % INPUT_BUF_SIZE] = ch]

Stored(ch) == [buf EXCEPT ![e % INPUT_BUF_SIZE] = ch]

(* The loop for C('U') takes back k characters: to w, or to a newline. *)
Killed(k) ==
  LET back(m) == Ahead(e, w) >= m /\ \A j \in 1..m : buf[((e - j) % WRAP) % INPUT_BUF_SIZE] # "nl"
  IN back(k) /\ ~back(k + 1)

(* uartgetc() and consoleintr(), up to the echo: the handler holds cons.lock. *)
IntrChar ==
  /\ h = "rx" /\ rx > 0 /\ conslock = None
  /\ rx' = rx - 1
  /\ \E ch \in Keys :
       LET echo(yes) == /\ h' = IF yes THEN "spin" ELSE "rx"
                        /\ conslock' = IF yes THEN Handler ELSE None
           whole == Whole(ch, Inc(e))
       IN \/ /\ ch = "dump" /\ prlock = None
             /\ echo(TRUE) /\ prlock' = Handler
             /\ UNCHANGED <<buf, w, e, c>>
          \/ /\ ch = "kill"
             /\ \E k \in 0..INPUT_BUF_SIZE : Killed(k) /\ echo(k # 0) /\ e' = (e - k) % WRAP
             /\ UNCHANGED <<buf, w, c, prlock>>
          \/ /\ ch = "erase"
             /\ echo(e # w) /\ e' = IF e = w THEN e ELSE Dec(e)
             /\ UNCHANGED <<buf, w, c, prlock>>
          \/ /\ ch \in {"char", "nl", "eof"} /\ ~Room
             /\ echo(FALSE)
             /\ UNCHANGED <<buf, w, e, c, prlock>>
          \/ /\ ch \in {"char", "nl", "eof"} /\ Room
             /\ echo(TRUE)
             /\ buf' = Stored(ch) /\ e' = Inc(e)
             /\ w' = IF whole THEN Inc(e) ELSE w
             /\ c' = IF whole THEN WokenReaders(ch) ELSE c
             /\ UNCHANGED prlock
  /\ UNCHANGED <<r, busy, tx, thre>>

(* A byte of the echo, or of procdump()'s output, with uartputc_sync(): spin  *)
(* and write.  There are one or more.                                         *)
IntrEcho ==
  /\ \/ /\ h = "spin" /\ TxIdle
        /\ h' = "put"
        /\ UNCHANGED <<conslock, prlock, tx, thre>>
     \/ /\ h = "put" /\ PutTHR
        /\ \/ h' = "spin" /\ UNCHANGED <<conslock, prlock>>
           \/ /\ h' = "rx" /\ conslock' = None
              /\ prlock' = IF prlock = Handler THEN None ELSE prlock
  /\ UNCHANGED <<cons, busy, rx, c>>

(* No more input: the handler returns, and plic_complete() lets the device    *)
(* interrupt again.                                                           *)
IntrEnd ==
  /\ h = "rx" /\ rx = 0
  /\ h' = "idle"
  /\ UNCHANGED <<cons, conslock, prlock, busy, tx, thre, rx, c>>

-----------------------------------------------------------------------------
(* The device sends a byte, and interrupts when it has none left. *)
Send ==
  /\ tx > 0
  /\ tx' = tx - 1 /\ thre' = (thre \/ tx = 1)
  /\ UNCHANGED <<cons, conslock, prlock, busy, rx, h, c>>

(* Somebody types; which key shows when the handler reads it. *)
Type ==
  /\ rx < RXFIFO /\ rx' = rx + 1
  /\ UNCHANGED <<cons, conslock, prlock, busy, tx, thre, h, c>>

Next ==
  \/ \E p \in Procs : \/ Read(p) \/ ReadChar(p) \/ Kill(p)
                      \/ Write(p) \/ Uartwrite(p) \/ Printf(p)
  \/ IntrClaim \/ IntrTx \/ IntrChar \/ IntrEcho \/ IntrEnd
  \/ Send \/ Type

Spec == Init /\ [][Next]_vars
-----------------------------------------------------------------------------
TypeOK ==
  /\ buf \in [0..INPUT_BUF_SIZE - 1 -> Keys] /\ {r, w, e} \subseteq 0..WRAP - 1
  /\ busy \in BOOLEAN /\ thre \in BOOLEAN /\ tx \in Nat /\ rx \in 0..RXFIFO

(* The circular buffer: also where the indices wrap, r is not ahead of w nor  *)
(* w of e, and what is kept fits in the buffer.                               *)
RingOrdered == Ahead(w, r) <= Ahead(e, r) /\ Ahead(e, r) <= INPUT_BUF_SIZE

(* Nobody sleeps in consoleread() while there is something to read. *)
ReadersWoken == (\E p \in Procs : At(p, "readsleep")) => r = w

(* Whoever sleeps in uartwrite() will be woken: the device has bytes to send, *)
(* has interrupted, or the handler is about to look - though kernel messages  *)
(* and echoes write to the same register behind tx_busy's back.               *)
WritersHaveWaker ==
  (\E p \in Procs : At(p, "uartsleep")) => tx > 0 \/ thre \/ h = "tx"

(* Writers wait for tx_busy, kernel messages and echoes for LSR_TX_IDLE, and  *)
(* neither knows of the other: still there are never more than TXFIFO bytes   *)
(* in the device, which would lose them.                                      *)
FifoFits == tx <= TXFIFO

(* Nobody sleeps for ever on the console: ReadersWoken in consoleread() and   *)
(* WritersHaveWaker in uartwrite().                                           *)
SleepersWoken == ReadersWoken /\ WritersHaveWaker

(* Neither the circular buffer nor the device's FIFO is overrun: RingOrdered  *)
(* and FifoFits.                                                              *)
NothingOverrun == TypeOK /\ RingOrdered /\ FifoFits

(* The circular buffer behaves as the line editor: what is between w and e    *)
(* can be edited, what is between r and w is read in the order typed.         *)
Between(i, j) == [k \in 1..Ahead(j, i) |-> buf[((i + k - 1) % WRAP) % INPUT_BUF_SIZE]]
Editor == INSTANCE LineEditor WITH Size <- INPUT_BUF_SIZE, line <- Between(w, e), ready <- Between(r, w)
EditsLines == Editor!Spec
=============================================================================
