-------------------------------- MODULE FsMC --------------------------------
(* Instances of FsPipe for TLC *)
EXTENDS FsPipe

(* Three programs that share pipes *)
PipeMix == [read  |-> [fs_call : {"READ"}, fd : Fds, n : {1, 2}],
            write |-> [fs_call : {"WRITE"}, fd : Fds, n : {1}],
            open  |-> {}, pipe |-> TRUE, dup |-> FALSE, setfl |-> FALSE, procs |-> 1 .. 3]

(* Two programs that open the named pipe in every way, and fill and empty it *)
FifoMix == [read  |-> [fs_call : {"READ"}, fd : Fds, n : {2}],
            write |-> [fs_call : {"WRITE"}, fd : Fds, n : {2}],
            open  |-> {[fs_call |-> "OPEN", mode |-> {"R"}, nonblock |-> FALSE],
                       [fs_call |-> "OPEN", mode |-> {"R"}, nonblock |-> TRUE],
                       [fs_call |-> "OPEN", mode |-> {"W"}, nonblock |-> TRUE],
                       [fs_call |-> "OPEN", mode |-> {"R", "W"}, nonblock |-> FALSE],
                       [fs_call |-> "CREAT", mode |-> {"W"}, nonblock |-> FALSE]},
            pipe |-> FALSE, dup |-> FALSE, setfl |-> FALSE, procs |-> 1 .. 2]

(* Two programs that duplicate descriptors and set their flags *)
DupMix == [PipeMix EXCEPT !.read  = [fs_call : {"READ"}, fd : Fds, n : {2}],
                          !.write = [fs_call : {"WRITE"}, fd : Fds, n : {1, 2}],
                          !.dup = TRUE, !.setfl = TRUE, !.procs = 1 .. 2]

FsMixes == {PipeMix, FifoMix, DupMix}
=============================================================================
