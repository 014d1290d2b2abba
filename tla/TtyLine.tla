-------------------------------- MODULE TtyLine --------------------------------
(***************************************************************************)
(* The terminal driver's tables and what its routines do to them           *)
(* (kernel/tty.c, kernel/rs232.c, console() of kernel/stvdu.c): the line   *)
(* discipline, the output of a serial line at interrupt level, and the     *)
(* requests of FS.  A routine is an operator from the tables t to the      *)
(* tables after it; a message that it sends stands in t.say, and what it   *)
(* does after the send in t.todo, for the send may block.                  *)
(***************************************************************************)
EXTENDS Integers, Sequences, FiniteSets, SequencesExt, FiniteSetsExt

CONSTANTS NR_PROCS,
          Consoles, Serials,    \* lines
          TTY_IN_BYTES,         \* input queue of a line
          RS_BUF_SIZE, SPARE,   \* output buffer of a serial line, kept for echoes
          THRESHOLD             \* characters before the driver is interrupted

ASSUME LinesAssumption == Consoles \cap Serials = {}
ASSUME SizesAssumption == /\ {NR_PROCS, TTY_IN_BYTES, RS_BUF_SIZE, THRESHOLD} \subseteq Nat \ {0}
                          /\ SPARE \in 0 .. RS_BUF_SIZE

Procs == 1 .. NR_PROCS
Lines == Consoles \cup Serials
Keys  == {"a", "nl", "eof", "erase", "kill", "intr", "xoff"}

Reply(type, p, status) == [type |-> type, p |-> p, status |-> status]
Nothing == Reply("none", 0, "none")

(* A line when tty_init() and init_rs232() are done.  sending: the UART    *)
(* has a character of the line, and will interrupt when it is out.         *)
IdleLine == [mode |-> "cooked", queue |-> <<>>, lfct |-> 0, stopped |-> FALSE,
             inproc |-> 0, inleft |-> 0, inbad |-> FALSE,
             outproc |-> 0, outleft |-> 0, outbad |-> FALSE, cum |-> 0,
             waiting |-> "NOT_WAITING",
             rs_busy |-> FALSE, rs_left |-> 0, rs_next |-> 0, sending |-> FALSE]

IdleTty == [line |-> [l \in Lines |-> IdleLine], driver |-> <<>>, copy |-> <<>>,
            flush |-> FALSE, int |-> FALSE, output_done |-> 0,
            physio |-> [p \in Procs \cup {0} |-> FALSE],
            say |-> Nothing, todo |-> <<>>]

Say(t, type, p, status) == [t EXCEPT !.say = Reply(type, p, status)]

-----------------------------------------------------------------------------
(* The serial line *)

rs_feed(t, l) == IF t.line[l].rs_left = 0 THEN t
                 ELSE [t EXCEPT !.line[l].rs_left = @ - 1, !.line[l].rs_next = @ + 1,
                                !.line[l].sending = TRUE]

StartIfIdle(t, l) == IF t.line[l].rs_busy THEN t
                     ELSE rs_feed([t EXCEPT !.line[l].rs_busy = TRUE], l)

serial_out(t, l) ==
  LET ln   == t.line[l]
      room == Max({0, RS_BUF_SIZE - SPARE - (ln.rs_next + ln.rs_left)})
      n    == Min({ln.outleft, room})
  IN  IF ln.stopped THEN t
      ELSE StartIfIdle([t EXCEPT !.line[l].outleft = @ - n, !.line[l].cum = @ + n,
                                 !.line[l].rs_left = @ + n], l)

rs_out_char(t, l) == IF t.line[l].rs_next + t.line[l].rs_left = RS_BUF_SIZE THEN t
                     ELSE StartIfIdle([t EXCEPT !.line[l].rs_left = @ + 1], l)

(* A write is out *)
CompleteSilently(t, l) == [t EXCEPT !.line[l].waiting = "COMPLETED",      \* mutant
                                    !.output_done = @ + 1]

Complete(t, l) == [t EXCEPT !.line[l].waiting = "COMPLETED",
                            !.output_done = @ + 1, !.int = TRUE]

(* The UART has sent its character *)
rs_write_int(t, l) ==
  LET ln == t.line[l]
      u  == [t EXCEPT !.line[l].sending = FALSE]
      v  == [u EXCEPT !.line[l].rs_busy = FALSE, !.line[l].rs_next = 0]
  IN  CASE ln.rs_left > 0 -> rs_feed(u, l)
        [] ln.rs_left = 0 /\ ln.outleft > 0 -> serial_out(v, l)
        [] OTHER -> IF ln.waiting = "WAITING" THEN Complete(v, l) ELSE v

rs_sig(t, l) == [t EXCEPT !.line[l].rs_left = 0, !.line[l].rs_busy = FALSE,
                          !.line[l].rs_next = 0]

rs_flush(t) == [t EXCEPT !.flush = FALSE,
                         !.int = @ \/ t.driver # <<>> \/ t.output_done > 0]

(* A character comes in, on a serial line or from the keyboard *)
rs_read_int(t, l, k) ==
  LET u == [t EXCEPT !.driver = Append(@, [line |-> l, key |-> k])]
  IN  IF Len(u.driver) < THRESHOLD THEN [u EXCEPT !.flush = TRUE] ELSE rs_flush(u)

-----------------------------------------------------------------------------
(* The end of a write *)

EndOutput(t, l) == [t EXCEPT !.line[l].outleft = 0, !.physio[t.line[l].outproc] = FALSE]

finish(t, l) ==
  LET p == t.line[l].outproc
      u == EndOutput(t, l)
  IN  IF t.line[l].waiting = "NOT_WAITING" THEN u
      ELSE [Say(u, IF l \in Consoles THEN "TASK_REPLY" ELSE "REVIVE", p, "DONE")
            EXCEPT !.todo = Append(@, <<"finished", l>>)]

(* tty_devstart: console() draws at once all that it may *)
devstart(t, l) ==
  LET ln == t.line[l]
      u  == [t EXCEPT !.line[l].outleft = 0, !.line[l].cum = @ + ln.outleft]
  IN  CASE l \in Serials -> serial_out(t, l)
        [] l \in Consoles /\ ln.stopped /\ ln.outleft > 0 -> t
        [] OTHER -> finish(u, l)

Completed(t) == {l \in Serials : t.line[l].waiting = "COMPLETED"}

tty_o_done(t) ==
  LET l == Min(Completed(t))
  IN  [Say(t, "REVIVE", t.line[l].outproc, "DONE") EXCEPT !.todo = <<<<"odone", l>>>>]

-----------------------------------------------------------------------------
(* Input *)

Ends(q) == {i \in DOMAIN q : q[i] \in {"nl", "eof"}}

echo(t, l) == IF l \in Serials THEN rs_out_char(t, l) ELSE t

FlushQueue(t, l) == [t EXCEPT !.line[l].queue = <<>>]                      \* mutant

FlushInput(t, l) == [t EXCEPT !.line[l].queue = <<>>, !.line[l].lfct = 0]

(* Characters that a reader gets: in cooked mode one line at most.  A      *)
(* buffer of the driver is never smaller than the queue.                   *)
Given(ln) ==
  LET n    == Min({ln.inleft, Len(ln.queue)})
      ends == {i \in Ends(ln.queue) : i <= n}
  IN  IF ln.mode = "cooked" /\ ends # {} THEN Min(ends) ELSE n

Ready(ln) == ln.queue # <<>> /\ (ln.mode = "cooked" => ln.lfct # 0)

rd_chars(t, l) ==
  LET ln    == t.line[l]
      n     == Given(ln)
      lines == {i \in 1 .. n : ln.queue[i] \in IF ln.mode = "cooked" THEN {"nl", "eof"} ELSE {"nl"}}
  IN  CASE ~ Ready(ln) -> [tty |-> t, status |-> "SUSPEND"]
        [] Ready(ln) /\ ln.inbad -> [tty |-> t, status |-> "DONE"]
        [] OTHER -> [tty |-> [t EXCEPT !.line[l].queue = SubSeq(@, n + 1, Len(@)),
                                       !.line[l].lfct = @ - Cardinality(lines),
                                       !.line[l].inleft = 0],
                     status |-> "DONE"]

(* sigchar(): what follows finish(); the signal itself is MM's business *)
Signalled(t, l) == IF l \in Serials THEN rs_sig(FlushInput(t, l), l) ELSE FlushInput(t, l)

sigchar(t, l) ==
  LET u == finish([t EXCEPT !.line[l].stopped = FALSE], l)
  IN  IF u.say = Nothing THEN Signalled(u, l)
      ELSE [u EXCEPT !.todo = Append(@, <<"signalled", l>>)]

(* kill: chuck() until it meets the end of a line *)
Kept(q) == SubSeq(q, 1, Max({0} \cup {i \in DOMAIN q : q[i] = "nl"}))

chuck(q) == IF q = <<>> \/ Last(q) = "nl" THEN q ELSE Front(q)

Store(t, l, k) ==
  echo([t EXCEPT !.line[l].queue = Append(@, k),
                 !.line[l].lfct = IF k = "nl" THEN @ + 1 ELSE @], l)

(* In cooked mode the end-of-file character counts as a line before it is  *)
(* known to be stored                                                      *)
Counted(t, l, k) == IF t.line[l].mode = "cooked" /\ k = "eof"
                    THEN [t EXCEPT !.line[l].lfct = @ + 1] ELSE t

in_char(t, l, k) ==
  LET ln == t.line[l]
      u  == Counted(t, l, k)
  IN  CASE Len(ln.queue) >= TTY_IN_BYTES -> t
        [] OTHER ->
           CASE ln.mode = "cooked" /\ k = "erase" ->
                  IF chuck(ln.queue) = ln.queue THEN t
                  ELSE echo([t EXCEPT !.line[l].queue = chuck(@)], l)
             [] ln.mode = "cooked" /\ k = "kill" ->
                  echo([t EXCEPT !.line[l].queue = Kept(@)], l)
             [] k = "intr" -> sigchar(t, l)
             [] k = "xoff" -> [t EXCEPT !.line[l].stopped = TRUE]
             [] OTHER -> IF ln.stopped
                         THEN devstart([u EXCEPT !.line[l].stopped = FALSE], l)
                         ELSE Store(u, l, k)

(* charint(): after each character, the reader that hangs is tried again *)

Wants(ln) == ln.inleft > 0 /\ (ln.lfct > 0 \/ (ln.mode # "cooked" /\ ln.queue # <<>>))

TryReader(t, l) ==
  LET r == rd_chars(t, l)
  IN  IF Wants(t.line[l])
      THEN Say(r.tty, "REVIVE", t.line[l].inproc, r.status)
      ELSE t

NextChar(t) ==
  LET c == Head(t.copy)
      u == in_char([t EXCEPT !.copy = Tail(@)], c.line, c.key)
  IN  IF u.say = Nothing THEN TryReader(u, c.line)
      ELSE [u EXCEPT !.todo = Append(@, <<"try", c.line>>)]

(* The driver is told of an interrupt *)
do_int(t) ==
  LET u == [t EXCEPT !.int = FALSE]
  IN  IF t.output_done > 0 /\ Completed(t) # {} THEN tty_o_done(u)
      ELSE [u EXCEPT !.copy = t.driver, !.driver = <<>>]

-----------------------------------------------------------------------------
(* Requests of FS: m.p, the process; m.line; m.n, a count *)

GiveOrHang(t, m) ==
  LET u == [t EXCEPT !.line[m.line].inproc = m.p, !.line[m.line].inleft = m.n,
                     !.line[m.line].inbad = m.bad]
      r == rd_chars(u, m.line)
  IN  Say(r.tty, "TASK_REPLY", m.p, r.status)

do_readForHanger(t, m) ==                                                  \* mutant
  IF t.line[m.line].inleft > 0 THEN Say(t, "TASK_REPLY", t.line[m.line].inproc, "DONE")
  ELSE GiveOrHang(t, m)

do_read(t, m) == IF t.line[m.line].inleft > 0 THEN Say(t, "TASK_REPLY", m.p, "DONE")
                 ELSE GiveOrHang(t, m)

(* Until the address of the user's buffer is computed, an interrupt can    *)
(* already find outleft > 0                                                *)
do_write(t, m) ==
  IF t.line[m.line].outleft > 0 THEN Say(t, "TASK_REPLY", m.p, "DONE")
  ELSE [t EXCEPT !.line[m.line].outproc = m.p, !.line[m.line].outleft = m.n,
                 !.line[m.line].outbad = m.bad, !.line[m.line].waiting = "WAITING",
                 !.todo = <<<<"start", m.line>>>>]

(* A buffer outside the process's memory has no address, and nothing left *)

Addressed(t, l) == [t EXCEPT !.line[l].cum = 0, !.physio[t.line[l].outproc] = TRUE,
                             !.line[l].outleft = IF t.line[l].outbad THEN 0 ELSE @]

StartWrite(t, l) ==
  LET ln == t.line[l]
      v  == devstart(Addressed(t, l), l)
  IN  IF l \in Serials THEN Say(v, "TASK_REPLY", ln.outproc, "SUSPEND") ELSE v

(* Of the requests to change or read parameters, those that matter here *)
do_ioctl(t, m) ==
  Say(CASE m.request = "TIOCFLUSH" -> [t EXCEPT !.driver = <<>>]
        [] m.request # "TIOCFLUSH" -> [t EXCEPT !.line[m.line].mode = m.request],
      "TASK_REPLY", m.p, "DONE")

CancelReadOnly(t, l) == [FlushInput(t, l) EXCEPT !.line[l].stopped = FALSE]  \* mutant

CancelRead(t, l) ==
  [FlushInput(t, l) EXCEPT !.line[l].inleft = 0, !.line[l].stopped = FALSE]

CancelWrite(t, l) == [t EXCEPT !.line[l].outleft = 0, !.line[l].waiting = "NOT_WAITING"]

HangsBoth(ln) == ln.inleft > 0 /\ ln.outleft > 0                          \* mutant

Hangs(ln) == ln.inleft > 0 \/ ln.outleft > 0

(* Nobody hangs: no reply *)
do_cancel(t, m) ==
  IF ~ Hangs(t.line[m.line]) THEN t
  ELSE Say(IF m.request = "READ" THEN CancelRead(t, m.line) ELSE CancelWrite(t, m.line),
           "TASK_REPLY", m.p, "DONE")

Handle(t, m) == CASE m.op = "READ"   -> do_read(t, m)
                  [] m.op = "WRITE"  -> do_write(t, m)
                  [] m.op = "IOCTL"  -> do_ioctl(t, m)
                  [] m.op = "CANCEL" -> do_cancel(t, m)

(* What is left to do of a routine when its message has been sent *)
Resume(t) ==
  LET l == Head(t.todo)[2]
      u == [t EXCEPT !.todo = Tail(@)]
      p == t.line[l].outproc
  IN  CASE Head(t.todo)[1] = "finished"  -> [u EXCEPT !.line[l].waiting = "NOT_WAITING"]
        [] Head(t.todo)[1] = "signalled" -> Signalled(u, l)
        [] Head(t.todo)[1] = "try"       -> TryReader(u, l)
        [] Head(t.todo)[1] = "start"     -> StartWrite(u, l)
        [] Head(t.todo)[1] = "odone"     -> [u EXCEPT !.line[l].waiting = "NOT_WAITING",
                                                      !.output_done = @ - 1,
                                                      !.physio[p] = FALSE]
=============================================================================
