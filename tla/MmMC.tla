-------------------------------- MODULE MmMC --------------------------------
(* Instances of MmProc for TLC *)
EXTENDS MmProc

SIGTERM == 15

(* Families: fork, exit and wait, and programs that kill each other *)
FamilyCalls == {<<"do_fork">>, <<"do_wait">>, <<"do_mm_exit">>, <<"do_kill", INIT + 1, SIGKILL>>}

(* Signals from programs and the keyboard, caught or not, for programs that *)
(* wait and fork                                                            *)
SignalCalls == {<<"do_fork">>, <<"do_wait">>, <<"do_kill", 0, SIGINT>>,
                <<"do_signal", SIGINT, "catch">>}

(* Alarms and signals of the kernel, several at a time, to programs that    *)
(* pause and exec                                                           *)
KernelCalls == {<<"do_pause">>, <<"do_exec">>, <<"do_alarm", TRUE>>, <<"do_alarm", FALSE>>,
                <<"do_signal", SIGALRM, "catch">>, <<"do_signal", SIGINT, "catch">>,
                <<"do_signal", SIGINT, "SIG_DFL">>}

(* Tracing: programs that are signalled stop, and are resumed by others     *)
TraceCalls == {<<"do_trace", 0, INIT, 0>>, <<"do_signal", SIGTERM, "catch">>,
               <<"do_trace", 7, INIT + 1, 0>>, <<"do_trace", 7, INIT + 1, SIGTERM>>,
               <<"do_trace", 8, INIT + 1, 0>>}
              \cup {<<"do_kill", p, SIGTERM>> : p \in {INIT + 1, INIT + 2}}

MixOf(calls, raised, super, procs) ==
  [calls |-> calls, raised |-> raised, super |-> super, procs |-> procs]

MmMixes == {MixOf(FamilyCalls, {}, TRUE, 6), MixOf(SignalCalls, {SIGINT}, TRUE, 5),
            MixOf(KernelCalls, {SIGINT, SIGSEGV}, FALSE, 4), MixOf(TraceCalls, {}, FALSE, 5),
            MixOf(TraceCalls, {SIGTRAP}, FALSE, 4)}

(* The disagreements, each with the calls it needs *)
Traced       == {<<"do_signal", SIGTERM, "SIG_DFL">>, <<"do_trace", 0, INIT, 0>>,
                 <<"do_kill", INIT + 1, SIGTERM>>}
KillAllMixes == {MixOf({<<"do_mm_exit">>, <<"do_kill", -1, SIGKILL>>}, {}, TRUE, 5)}
ExitedMixes  == {MixOf(Traced \cup {<<"do_mm_exit">>, <<"do_trace", 7, INIT + 1, SIGKILL>>},
                       {}, FALSE, 5)}
StepMixes    == {MixOf(Traced \cup {<<"do_trace", 9, INIT + 1, 0>>}, {}, FALSE, 5)}
ForkMixes    == {MixOf(Traced \cup {<<"do_fork">>}, {}, TRUE, 5)}
ResumeMixes  == {MixOf(Traced \cup {<<"do_pause">>, <<"do_signal", SIGTERM, "catch">>,
                                    <<"do_trace", 7, INIT + 1, SIGTERM>>}, {}, FALSE, 5)}
AlarmMixes   == {MixOf({<<"do_alarm", TRUE>>}, {}, FALSE, 5)}

=============================================================================
