---------------------------------- MODULE Tty ----------------------------------
(***************************************************************************)
(* The file system, the terminal driver and the hardware at work for       *)
(* programs that read, write and configure terminals while keys are typed  *)
(* and MM interrupts calls.  FS serves one call at a time and waits for    *)
(* the driver's answer; the driver never waits for FS but to deliver a     *)
(* message.  The driver runs before FS whenever both can, except that on   *)
(* the M68000 FS goes on when its receive makes the driver ready.          *)
(***************************************************************************)
EXTENDS TtyLine

CONSTANTS Mixes,        \* what programs and the typist do: the sets of instances
          BufMax,       \* bound: characters that wait for the driver
          DoneMax       \* bound: how far output_done may drift (see README)

ASSUME BoundsAssumption == BufMax \in Nat /\ DoneMax \in Nat

VARIABLES tty,          \* the driver's tables
          at,           \* the driver: "recv", "runs" or "sends" (blocked)
          fs,           \* the file system
          may           \* one of Mixes

vars == <<tty, at, fs, may>>

NoCall == [op |-> "none", p |-> 0, line |-> 0, n |-> 0, bad |-> FALSE, request |-> "none"]

Init ==
  /\ tty = IdleTty
  /\ at  = "recv"
  /\ fs  = [at   |-> "idle",                        \* where it is
            goes |-> FALSE,                         \* it runs though the driver could
            mess |-> NoCall,                        \* the request it makes of the driver
            got  |-> Nothing,                       \* the message it has received
            hung |-> [p \in Procs |-> NoCall]]      \* the suspended calls
  /\ may \in Mixes

-----------------------------------------------------------------------------
(* Hardware: a key, the clock's flush of what was typed, the UART *)

Type(l, k) == /\ k \in may.keys /\ l \in may.lines /\ Len(tty.driver) < BufMax
              /\ tty' = rs_read_int(tty, l, k)
              /\ UNCHANGED <<at, fs, may>>

Tick == tty.flush /\ tty' = rs_flush(tty) /\ UNCHANGED <<at, fs, may>>

(* A character takes much longer to send than the few statements of        *)
(* do_write() before it computes the address: one interrupt may find them  *)
(* half done, but not two                                                  *)
SlowLine(l) == <<"start", l>> \in Range(tty.todo) => tty.line[l].outleft = fs.mess.n

Uart(l) == /\ tty.line[l].sending /\ SlowLine(l)
           /\ tty' = rs_write_int(tty, l)
           /\ UNCHANGED <<at, fs, may>>

-----------------------------------------------------------------------------
(* The driver *)

Done(t) == t.say = Nothing /\ t.todo = <<>> /\ t.copy = <<>>

Works(t) == /\ tty' = t
            /\ at' = IF Done(t) THEN "recv" ELSE "runs"
            /\ UNCHANGED may

TtyInt == /\ at = "recv" /\ tty.int /\ fs.at # "asks"
          /\ Works(do_int(tty)) /\ UNCHANGED fs

Serve == /\ at = "recv" /\ fs.at = "asks"
         /\ Works(Handle(tty, fs.mess))
         /\ fs' = [fs EXCEPT !.at = "hears"]

Runs == at = "runs" /\ ~ fs.goes /\ tty.say = Nothing

Char == Runs /\ tty.todo = <<>> /\ tty.copy # <<>> /\ Works(NextChar(tty)) /\ UNCHANGED fs

Continue == Runs /\ tty.todo # <<>> /\ Works(Resume(tty)) /\ UNCHANGED fs

(* tty_reply(): if FS is blocked in a send to the driver, the send returns *)
(* ELOCKED, which nobody looks at                                          *)
tty_reply ==
  /\ at = "runs" /\ ~ fs.goes /\ tty.say # Nothing
  /\ CASE fs.at \in {"idle", "hears"} ->
            /\ Works([tty EXCEPT !.say = Nothing])
            /\ fs' = [fs EXCEPT !.at = "told", !.got = tty.say]
       [] fs.at = "asks" -> Works([tty EXCEPT !.say = Nothing]) /\ UNCHANGED fs
       [] OTHER -> at' = "sends" /\ UNCHANGED <<tty, fs, may>>

-----------------------------------------------------------------------------
(* The file system *)

HasCpu == fs.goes \/ at = "sends" \/ (at = "recv" /\ ~ tty.int)

Idle == fs.at = "idle" /\ HasCpu

Starts(m) == /\ fs' = [fs EXCEPT !.at = "calls", !.mess = m]
             /\ UNCHANGED <<tty, at, may>>

(* dev_io(), do_ioctl(): a program's call *)
Call(p) == /\ Idle /\ fs.hung[p] = NoCall /\ tty.output_done <= DoneMax
           /\ \E m \in may.calls : m.p = p /\ Starts(m)

(* do_unpause(): MM interrupts the call of a process that is signalled, or *)
(* that is dead (do_exit())                                                *)
Unpause(p) == /\ Idle /\ may.signals /\ fs.hung[p] # NoCall
              /\ Starts([fs.hung[p] EXCEPT !.op = "CANCEL"])

(* revive(): f after the process of message m is told its result *)
revive(f, m) == IF f.hung[m.p] = NoCall THEN f ELSE [f EXCEPT !.hung[m.p] = NoCall]

(* get_work(): the message of a driver that is blocked *)
Receive == /\ Idle /\ at = "sends"
           /\ fs' = [fs EXCEPT !.at = "told", !.got = tty.say, !.goes = TRUE]
           /\ at' = "runs" /\ tty' = [tty EXCEPT !.say = Nothing]
           /\ UNCHANGED may

Rest == fs.at = "idle" /\ fs.goes /\ fs' = [fs EXCEPT !.goes = FALSE]
        /\ UNCHANGED <<tty, at, may>>

(* rw_dev(): sendrec(), or, if the driver is blocked in its send, receive, *)
(* revive and try again; a cancel of the call that is answered is dropped  *)
Idles(f) == [f EXCEPT !.at = "idle", !.mess = NoCall, !.got = Nothing]

Dropped(m) == fs.mess.op = "CANCEL" /\ m.p = fs.mess.p

rw_dev ==
  /\ fs.at = "calls" /\ HasCpu /\ UNCHANGED may
  /\ \/ /\ at # "sends"
        /\ fs' = [fs EXCEPT !.at = "asks", !.goes = FALSE]
        /\ UNCHANGED <<tty, at>>
     \/ /\ at = "sends"
        /\ fs' = LET f == [fs EXCEPT !.goes = TRUE]
                 IN  IF Dropped(tty.say) THEN Idles([f EXCEPT !.hung[tty.say.p] = NoCall])
                     ELSE revive(f, tty.say)
        /\ at' = "runs" /\ tty' = [tty EXCEPT !.say = Nothing]

(* What FS does with a message: the end of dev_io() or of do_unpause(), or *)
(* do_revive().  A reply that comes when none is waited for is no call.    *)
Hear ==
  LET c == fs.mess
      r == fs.got
  IN  /\ fs.at = "told" /\ HasCpu
      /\ fs' = Idles(CASE c = NoCall /\ r.type = "REVIVE" -> revive(fs, r)
                       [] c.op = "CANCEL" -> [fs EXCEPT !.hung[c.p] = NoCall]
                       [] c.op \in {"READ", "WRITE", "IOCTL"} /\ r.status = "SUSPEND" ->
                            [fs EXCEPT !.hung[c.p] = c]
                       [] OTHER -> fs)
      /\ UNCHANGED <<tty, at, may>>

Driver  == TtyInt \/ Serve \/ Char \/ Continue \/ tty_reply
FsRuns  == Receive \/ Rest \/ rw_dev \/ Hear
Next    == \/ Driver \/ FsRuns \/ Tick
           \/ \E l \in Lines : Uart(l) \/ \E k \in Keys : Type(l, k)
           \/ \E p \in Procs : Call(p) \/ Unpause(p)

(* Processors and devices go on; nobody must type or call *)
Spec == /\ Init /\ [][Next]_vars
        /\ WF_vars(Driver) /\ SF_vars(FsRuns) /\ WF_vars(Tick)
        /\ \A l \in Lines : WF_vars(Uart(l))

-----------------------------------------------------------------------------
Messages == [type : {"TASK_REPLY", "REVIVE"}, p : Procs, status : {"DONE", "SUSPEND"}]
Cancels  == {[m EXCEPT !.op = "CANCEL"] : m \in may.calls}

TypeOK ==
  /\ tty.say \in Messages \cup {Nothing} /\ fs.got \in Messages \cup {Nothing}
  /\ fs.mess \in may.calls \cup Cancels \cup {NoCall}
  /\ \A p \in Procs : fs.hung[p] \in may.calls \cup {NoCall}
  /\ at \in {"recv", "runs", "sends"} /\ fs.at \in {"idle", "calls", "asks", "hears", "told"}
  /\ \A l \in Lines : LET ln == tty.line[l] IN
       /\ ln.queue \in Seq(Keys) /\ Len(ln.queue) <= TTY_IN_BYTES
       /\ {ln.lfct, ln.inleft, ln.outleft, ln.cum, ln.rs_left, tty.output_done} \subseteq Nat
       /\ ln.rs_next + ln.rs_left <= RS_BUF_SIZE

(* The message that revives p is on its way *)
Reviving(p) == \E m \in {tty.say, fs.got} : m.p = p /\ m.type = "REVIVE"

Cancelling(p) == fs.mess.op = "CANCEL" /\ fs.mess.p = p

Known(p) ==
  LET c == fs.hung[p] IN LET ln == tty.line[c.line] IN
  CASE c.op = "READ"  -> ln.inleft > 0 /\ ln.inproc = p
    [] c.op = "WRITE" -> ln.waiting # "NOT_WAITING" /\ ln.outproc = p

(* A call that FS has suspended is one that the driver will answer: it     *)
(* remembers it, or the answer is on its way, or FS is cancelling it.  A   *)
(* program whose call both of them have forgotten hangs until it is killed.*)
NoneForgotten ==
  \A p \in Procs : fs.hung[p] # NoCall => Known(p) \/ Reviving(p) \/ Cancelling(p)

(* The driver writes into the memory of a process, or reads it, only for a *)
(* call that this process still waits in                                   *)
OnlyCallers ==
  \A l \in Lines : LET ln == tty.line[l] IN
    /\ ln.inleft > 0 => fs.hung[ln.inproc].op = "READ" \/ fs.mess.p = ln.inproc
                        \/ Reviving(ln.inproc)
    /\ ln.outleft > 0 => fs.hung[ln.outproc].op = "WRITE" \/ fs.mess.p = ln.outproc

(* ... and while it does, the kernel does not move that memory *)
PhysioHeld ==
  \A l \in Lines : tty.line[l].outleft > 0 /\ <<"start", l>> \notin Range(tty.todo) =>
                     tty.physio[tty.line[l].outproc]

(* tty.h, "# line feeds in tty_inqueue": an end of file that is typed      *)
(* counts as one                                                           *)
LinesCounted == \A l \in Lines : tty.line[l].lfct = Cardinality(Ends(tty.line[l].queue))

(* Nobody is left hanging on a line that has something for him *)
ReadersServed ==
  at = "recv" => \A l \in Lines : tty.line[l].inleft > 0 => ~ Ready(tty.line[l])

(* output_done is never less than the number of writes that have ended, so *)
(* that the next interrupt finds them (tty.c:126)                          *)
DoneFound == tty.output_done >= Cardinality(Completed(tty))

(* A write is never reported longer than it is *)
NotLonger == \A l \in Lines : LET ln == tty.line[l] IN
               ln.waiting # "NOT_WAITING" /\ <<"start", l>> \notin Range(tty.todo) =>
                 \E m \in may.calls : m.op = "WRITE" /\ ln.cum + ln.outleft <= m.n

(* FS and the driver agree on who waits for a line, and in whose memory    *)
(* the driver may work (do_read, do_write, do_cancel, revive)              *)
BothKnow == NoneForgotten /\ OnlyCallers /\ PhysioHeld

(* Lines, waiting readers and finished writes are counted exactly          *)
(* (in_char, charint, tty_o_done)                                          *)
LinesKept == TypeOK /\ LinesCounted /\ ReadersServed /\ DoneFound /\ NotLonger

(* The answer that FS waits for in dev_io() is the one to its request *)
OwnAnswer == [][fs.at = "hears" /\ fs'.at = "told" => fs'.got.p = fs.mess.p]_vars

(* Whoever types leaves FS the time to run *)
TimeLeft == []<>HasCpu

(* FS does not wait for the driver for ever, unless the output of the      *)
(* console is stopped: the whole system stands still meanwhile             *)
FsReturns ==
  TimeLeft => (fs.at = "hears" ~> fs.at # "hears" \/ \E l \in Consoles : tty.line[l].stopped)

(* A write to a serial line that is not stopped ends *)
WritesEnd ==
  TimeLeft => \A p \in Procs : fs.hung[p].op = "WRITE" ~>
                     fs.hung[p] = NoCall \/ tty.line[fs.hung[p].line].stopped

-----------------------------------------------------------------------------
(* Not so (see README): a busy line has a character on its way *)
BusySends == \A l \in Serials : tty.line[l].rs_busy => tty.line[l].sending

(* what is typed reaches the driver's queue *)
InputSeen == tty.driver # <<>> ~> tty.driver = <<>>

(* a write is reported in full *)
WrittenAll == \A l \in Serials : LET ln == tty.line[l] IN
                ln.waiting = "COMPLETED" =>
                  \E m \in may.calls : m.op = "WRITE" /\ ln.cum = m.n

(* a program that runs can be moved *)
PhysioLeft == \A p \in Procs : fs.hung[p] = NoCall /\ fs.mess.p # p /\ Done(tty) => ~ tty.physio[p]
=============================================================================
