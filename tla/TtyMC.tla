--------------------------------- MODULE TtyMC ---------------------------------
(* Instances of Tty for TLC: line 1 is the console, line 2 a serial line *)
EXTENDS Tty

Request(op, p, l, n, bad, request) ==
  [op |-> op, p |-> p, line |-> l, n |-> n, bad |-> bad, request |-> request]

Reads(ps, l)     == {Request("READ", p, l, 2, FALSE, "READ") : p \in ps}
Writes(ps, l)    == {Request("WRITE", p, l, 3, FALSE, "WRITE") : p \in ps}
Ioctls(ps, l, r) == {Request("IOCTL", p, l, 0, FALSE, r) : p \in ps}

Mix(lines, calls, keys, signals) ==
  [lines |-> lines, calls |-> calls, keys |-> keys, signals |-> signals]

(* The console, its output stopped and resumed, two keys at a time *)
ConsoleMixes == {Mix({1}, Reads({1}, 1) \cup Writes({2}, 1), keys, TRUE) :
                 keys \in {{"nl", "xoff"}, {"intr", "xoff"}, {"nl", "intr"}}}
(* Readers that get lines, ends of file and nothing *)
EofMixes  == {Mix({1}, Reads(Procs, 1), keys, TRUE) : keys \in {{"nl", "eof"}, {"a", "eof"}}}
(* A reader of a serial line that echoes *)
ReadMixes == {Mix({2}, Reads({1}, 2), keys, FALSE) :
              keys \in {{"a", "nl"}, {"nl", "erase"}, {"nl", "kill"}}}
(* A writer of a serial line, whose modes another process changes *)
WriteMix   == Mix({2}, Writes({1}, 2) \cup Ioctls({2}, 2, "cbreak") \cup Ioctls({2}, 2, "TIOCFLUSH"),
                  {"intr"}, TRUE)

TtyMixes == ConsoleMixes \cup EofMixes \cup ReadMixes \cup {WriteMix}

(* Disagreements (see README) *)
TwoWriters   == {Mix({2}, Writes({1, 2}, 2), {}, FALSE)}
ReadAndWrite == {Mix({2}, Reads({1}, 2) \cup Writes({2}, 2), {"nl", "intr"}, FALSE)}
StopLine     == {Mix({2}, Writes({1}, 2), {"a", "xoff"}, FALSE)}
StopAndEof   == {Mix({1}, Reads({1}, 1), {"nl", "eof", "xoff"}, FALSE)}
EraseEof     == {Mix({1}, Reads({1}, 1), {"eof", "erase"}, FALSE)}
TypeAhead    == {Mix({2}, Writes({1}, 2), {"a"}, FALSE)}
WriteSignals == {WriteMix}
BadBuffers   == {Mix({2}, {[m EXCEPT !.bad = TRUE] : m \in Reads({1}, 2) \cup Writes({2}, 2)},
                     {"nl"}, TRUE)}
TwoLines     == {Mix({1, 2}, Reads({1}, 2) \cup Writes({2}, 1), {"nl", "xoff"}, FALSE)}
ModeChange   == {Mix({1}, Reads({1}, 1) \cup Ioctls({2}, 1, "cbreak"), {"a"}, FALSE)}
=============================================================================
