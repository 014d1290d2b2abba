------------------------------- MODULE ProcMC -------------------------------
(* Instances of Proc for TLC *)
EXTENDS Proc

FLOPPY == -5

(* The calls of the real programs.  MM asks SYSTASK, CLOCK and FS; FS asks  *)
(* SYSTASK and the drivers; FS takes a driver's message first when it may   *)
(* not send to it (rw_dev); TTY tells FS of a finished read (REVIVE); disk  *)
(* drivers wait for their interrupt.                                        *)
ServerCalls ==
  {<<"BOTH", MM_PROC_NR, SYSTASK>>, <<"BOTH", MM_PROC_NR, FS_PROC_NR>>,
   <<"BOTH", FS_PROC_NR, SYSTASK>>}
  \cup {<<"RECEIVE", s, ANY>> : s \in Servers}
DriverCalls(t) ==
  {<<"BOTH", FS_PROC_NR, t>>, <<"RECEIVE", FS_PROC_NR, t>>}
TtyCalls   == DriverCalls(TTY) \cup {<<"SEND", TTY, FS_PROC_NR>>}
DiskCalls  == DriverCalls(FLOPPY) \cup {<<"RECEIVE", FLOPPY, HARDWARE>>}
TaskCalls(tasks) == {<<"RECEIVE", t, ANY>> : t \in tasks}
UserCalls == {<<"BOTH", u, s>> : u \in Users, s \in Servers}

Mix(calls, services, sigs, maxPend) ==
  [calls |-> calls, services |-> services, sigs |-> sigs, maxPend |-> maxPend]

(* Message passing: users, both servers, a driver that sends of its own accord *)
IpcTasks == {SYSTASK, TTY}
IpcIrqs  == {TTY}
IpcCalls == {<<"BOTH", MM_PROC_NR, SYSTASK>>}
            \cup {<<"RECEIVE", s, ANY>> : s \in Servers}
            \cup TtyCalls \cup TaskCalls(IpcTasks) \cup UserCalls
IpcMixes == {Mix(IpcCalls, {"life", "exec", "trace"}, {}, 0), Mix(IpcCalls, {"shadow", "trace"}, {}, 0),
             Mix(IpcCalls \ {<<"BOTH", LOW_USER + 1, MM_PROC_NR>>}, {"life", "exec", "shadow"}, {}, 0)}

(* Interrupts: two drivers, one of them waiting for its interrupt only *)
IrqsTasks == {SYSTASK, TTY, FLOPPY}
IrqsIrqs  == {TTY, FLOPPY}
IrqsCalls == TaskCalls(IrqsTasks) \cup DiskCalls \cup {<<"SEND", TTY, FS_PROC_NR>>}
             \cup {<<"RECEIVE", s, ANY>> : s \in Servers}
IrqsMixes == {Mix(IrqsCalls, {"lock"}, {}, 0)}

(* Signals *)
SigTasks == {SYSTASK, TTY}
SigIrqs  == {TTY}
SigCalls == {c \in ServerCalls : c[3] # FS_PROC_NR} \cup TaskCalls(SigTasks)
            \cup {<<"BOTH", u, MM_PROC_NR>> : u \in Users}

(* A user is killed while it is queued on FS, which waits for the terminal *)
KillCalls == {<<"BOTH", MM_PROC_NR, SYSTASK>>, <<"BOTH", FS_PROC_NR, TTY>>}
             \cup {<<"RECEIVE", MM_PROC_NR, ANY>>} \cup TaskCalls(SigTasks)
             \cup (UserCalls \ {<<"BOTH", LOW_USER + 1, MM_PROC_NR>>})

SigMixes  == {Mix(SigCalls, {"signal", "life", "exec", "kill"}, {2}, 1),
              Mix(SigCalls, {"signal", "kill"}, {2, 16}, 2),
              Mix(KillCalls, {"signal", "life", "shadow"}, {2}, 1)}
LockMixes == {Mix(SigCalls, {"signal", "kill", "lock"}, {2}, 2)}

(* Forks, execs, exits and flips of images in one family of three, and a    *)
(* disk driver that keeps one of the images from being flipped              *)
LifeTasks == {SYSTASK, CLOCK, FLOPPY}
LifeIrqs  == {CLOCK}
LifeCalls == {<<"BOTH", MM_PROC_NR, SYSTASK>>, <<"BOTH", FS_PROC_NR, FLOPPY>>,
              <<"BOTH", LOW_USER + 1, FS_PROC_NR>>}
             \cup {<<"RECEIVE", s, ANY>> : s \in Servers}
             \cup TaskCalls(LifeTasks)
             \cup {<<"BOTH", u, MM_PROC_NR>> : u \in Users \ {LOW_USER + 1}}
LifeMixes == {Mix(LifeCalls, {"life", "exec", "physio", "sched"}, {}, 0),
              Mix(LifeCalls \ {<<"BOTH", LOW_USER + 2, MM_PROC_NR>>},
                  {"life", "exec", "shadow", "physio", "sched"}, {}, 0)}
=============================================================================
