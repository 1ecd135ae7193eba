------------------------------- MODULE Program -------------------------------
(***************************************************************************)
(* src/main.c: the command line is parsed, the log is set up with what it  *)
(* says, the server runs until SIGINT and is destroyed.                    *)
(*                                                                         *)
(* The command line is Cli's, the log is Log's.  Of the server only its    *)
(* threads are left: each waits in epoll_wait, where it can be cancelled,  *)
(* or is busy, where it cannot, and may log (PlotSockets, ServerWorker and *)
(* WorkerPool model the rest).  cli.h is an interface of its own: with     *)
(* main = "any" another caller uses it, in any order.                      *)
(***************************************************************************)
EXTENDS Cli

CONSTANTS
    Main, ServerThreads,  \* ServerThreads: in the order they are cancelled
    NoThread, Stderr, NoFile, Flags, Builds, LineLen,
    ServerLines,          \* bound: when the server, main in it too, stops logging
    MainOpts              \* the array opts of main

ServerThreadSet == {ServerThreads[i] : i \in 1 .. Len(ServerThreads)}

VARIABLES
    main,       \* where main is, or "any": the caller of cli.h is not main
    log_lvl,    \* main's variable of that name
    thread,     \* per server thread: "none", "waiting", "busy" or "gone"
    cancelled,  \* how many server threads were cancelled
    build, log_flags, log_fp, log_mtx, at_log, line, todo, file, lines, undefined

L == INSTANCE Log WITH
    Threads <- ServerThreadSet \cup {Main}, Files <- {Stderr},
    MaxLines <- ServerLines + 3, at <- at_log

ASSUME ProgramConstantsOK ==
    /\ Main \notin ServerThreadSet /\ ServerLines \in Nat
    /\ L!LogConstantsOK /\ L!WARN \in Flags
    /\ MainOpts \in Seq(Options) /\ MainOpts # <<>> /\ "port" \in DOMAIN Hash
    /\ \A i \in 1 .. Len(MainOpts) : MainOpts[i].arg  \* CLI_OPT_HAS_ARG

logVars == <<build, log_flags, log_fp, log_mtx, at_log, line, todo, file, lines, undefined>>
programVars == <<main, log_lvl, thread, cancelled>>
allVars == <<vars, programVars, logVars>>

ProgramInit ==
    /\ Init /\ L!Init
    /\ main \in {"any", "start"}
    /\ main = "any" => build = CHOOSE b \in Builds : TRUE
    /\ main # "any" => strict
    /\ log_lvl = L!WARN
    /\ thread = [t \in ServerThreadSet |-> "none"]
    /\ cancelled = 0

(* Another caller of cli.h.                                                *)
AnyCaller == main = "any" /\ Next /\ UNCHANGED <<programVars, logVars>>

-----------------------------------------------------------------------------
(* main, up to the server.  It does nothing while it is in log_msg.        *)

At(m) == main = m /\ at_log[Main] = "out"
To(m) == main' = m

MainLogSetUp ==
    /\ main = "start" /\ L!log_set_file(Stderr)
    /\ To("log_set_up")
    /\ UNCHANGED <<vars, log_lvl, thread, cancelled>>

(* CLI_STRICT | CLI_AUTO_HELP *)
MainCliCreate ==
    /\ At("log_set_up")
    /\ CliCreate
    /\ (cli' = "made" => AllIds' # {})
    /\ To(IF cli' = "made" THEN "made" ELSE "failed")
    /\ UNCHANGED <<log_lvl, thread, cancelled, logVars>>

MainAddOpts ==
    /\ At("made")
    /\ AddOptsBegin(MainOpts)
    /\ To("adding")
    /\ UNCHANGED <<log_lvl, thread, cancelled, logVars>>

MainInAddOpts ==
    /\ main = "adding"
    /\ AddOptsStep \/ AddOptsUndo
    /\ UNCHANGED <<programVars, logVars>>

MainMatch ==
    /\ At("adding") /\ result = "added"
    /\ MatchBegin
    /\ To("matching")
    /\ UNCHANGED <<log_lvl, thread, cancelled, logVars>>

(* A match was made; or the help was printed, which exits.                 *)
MainInMatch ==
    /\ main = "matching" /\ pc = "matching"
    /\ MatchStep
    /\ To(IF cli' = "exited" THEN "exited" ELSE "matching")
    /\ UNCHANGED <<log_lvl, thread, cancelled, logVars>>

(* cli_match_get_arg of the three options, cli_match_destroy.              *)
MainReadArgs ==
    /\ At("matching") /\ pc = "matched"
    /\ log_lvl' \in IF cli_match_get_arg("log_lvl") # Null THEN Flags ELSE {log_lvl}
    /\ MatchDestroy
    /\ To("parsed")
    /\ UNCHANGED <<thread, cancelled, logVars>>

MainRemoveOpt ==
    /\ At("parsed")
    /\ RemoveOpt("port")
    /\ To("removed")
    /\ UNCHANGED <<log_lvl, thread, cancelled, logVars>>

MainCliDestroy ==
    /\ At("removed")
    /\ CliDestroy
    /\ To("parameters")
    /\ UNCHANGED <<log_lvl, thread, cancelled, logVars>>

(* log_set_flags(log_lvl), server_create.                                  *)
MainSetFlags ==
    /\ At("parameters") /\ L!log_set_flags(log_lvl)
    /\ To("flags_set")
    /\ UNCHANGED <<vars, log_lvl, thread, cancelled>>

-----------------------------------------------------------------------------
(* main and the server *)

Say(lvl, next) ==
    /\ L!LogMsg(Main, lvl)
    /\ To(next)
    /\ UNCHANGED <<vars, log_lvl, thread, cancelled>>

ServerCreate ==
    /\ At("flags_set")
    /\ \/ To("created") /\ thread' = [t \in ServerThreadSet |-> "waiting"]
       \/ MayFail /\ To("failed") /\ UNCHANGED thread
    /\ UNCHANGED <<vars, log_lvl, cancelled, logVars>>

Destroying == At("stopping") \/ At("failing")

(* What main logs in server_create, server_add_plot and server_destroy.    *)
MainLogsInServer ==
    /\ lines < ServerLines
    /\ \/ At("flags_set") /\ Say(0, main)
       \/ At("created") /\ \E lvl \in 0 .. 2 : Say(lvl, main)
       \/ Destroying /\ Say(0, main)

(* server_add_plot, then "Server launched" or "Failed to add".             *)
MainAddPlot ==
    /\ At("created")
    /\ Say(1, "running") \/ (MayFail /\ Say(3, "failing"))

(* sigwait returns.                                                        *)
MainSignalled == At("running") /\ Say(1, "stopping")

(* pthread_cancel and pthread_join of one thread after the other.          *)
ServerDestroyCancel ==
    /\ Destroying
    /\ cancelled < Len(ServerThreads)
    /\ cancelled > 0 => thread[ServerThreads[cancelled]] = "gone"
    /\ cancelled' = cancelled + 1
    /\ UNCHANGED <<vars, main, log_lvl, thread, logVars>>

ServerDestroyed ==
    cancelled = Len(ServerThreads) /\ \A t \in ServerThreadSet : thread[t] = "gone"

MainExit ==
    /\ Destroying /\ ServerDestroyed
    /\ \/ main = "stopping" /\ Say(1, "last_words")
       \/ main = "failing" /\ To("exited") /\ UNCHANGED <<vars, log_lvl, thread, cancelled, logVars>>

MainLeaves ==
    /\ At("last_words")
    /\ To("exited")
    /\ UNCHANGED <<vars, log_lvl, thread, cancelled, logVars>>

(* Mutant: the command line stays when an option or the match is refused.  *)
MainFailsKeepingCli ==
    /\ \/ main = "failed"
       \/ main = "adding" /\ pc = "idle" /\ result = "refused"
       \/ main = "matching" /\ pc = "idle"
    /\ L!LogMsg(Main, 3)
    /\ To("last_words")
    /\ UNCHANGED <<vars, log_lvl, thread, cancelled>>

(* The message of a failure before the server, cli_destroy, exit.          *)
MainFails ==
    /\ \/ main = "failed"
       \/ main = "adding" /\ pc = "idle" /\ result = "refused"
       \/ main = "matching" /\ pc = "idle"
    /\ L!LogMsg(Main, 3)
    /\ IF cli = "made" THEN CliDestroy ELSE UNCHANGED vars
    /\ To("last_words")
    /\ UNCHANGED <<log_lvl, thread, cancelled>>

MainStep ==
    \/ MainLogSetUp \/ MainCliCreate \/ MainAddOpts \/ MainInAddOpts
    \/ MainMatch \/ MainInMatch \/ MainReadArgs \/ MainRemoveOpt \/ MainCliDestroy
    \/ MainSetFlags \/ ServerCreate \/ MainAddPlot
    \/ ServerDestroyCancel \/ MainExit \/ MainLeaves \/ MainFails

-----------------------------------------------------------------------------
(* The server's threads *)

IsCancelled(t) == \E i \in 1 .. cancelled : ServerThreads[i] = t

ServerOnly == UNCHANGED <<vars, main, log_lvl, cancelled>>

(* An event; cancellation is disabled.                                     *)
ThreadWakes(t) ==
    /\ thread[t] = "waiting" /\ ~IsCancelled(t)
    /\ lines < ServerLines
    /\ thread' = [thread EXCEPT ![t] = "busy"]
    /\ ServerOnly /\ UNCHANGED logVars

ThreadLogs(t) ==
    /\ thread[t] = "busy"
    /\ lines < ServerLines
    /\ L!LogMsg(t, 1)
    /\ ServerOnly /\ UNCHANGED thread

ThreadSleeps(t) ==
    /\ thread[t] = "busy" /\ at_log[t] = "out"
    /\ thread' = [thread EXCEPT ![t] = "waiting"]
    /\ ServerOnly /\ UNCHANGED logVars

(* Mutant: cancellation stays enabled while the thread is busy.            *)
ThreadCancelledAnywhere(t) ==
    /\ thread[t] \in {"waiting", "busy"} /\ IsCancelled(t)
    /\ thread' = [thread EXCEPT ![t] = "gone"]
    /\ ServerOnly /\ UNCHANGED logVars

ThreadCancelled(t) ==
    /\ thread[t] = "waiting" /\ IsCancelled(t)
    /\ thread' = [thread EXCEPT ![t] = "gone"]
    /\ ServerOnly /\ UNCHANGED logVars

LogStep(t) ==
    /\ t # Main => thread[t] = "busy"
    /\ L!LogStep(t)
    /\ UNCHANGED <<vars, programVars>>

ThreadStep(t) == LogStep(t) \/ ThreadSleeps(t) \/ ThreadCancelled(t)

ProgramNext ==
    \/ AnyCaller \/ MainStep \/ MainSignalled \/ MainLogsInServer \/ LogStep(Main)
    \/ \E t \in ServerThreadSet : ThreadWakes(t) \/ ThreadLogs(t) \/ ThreadStep(t)

(* Every thread that can run does; SIGINT need not come.                   *)
ProgramSpec ==
    /\ ProgramInit /\ [][ProgramNext]_allVars
    /\ WF_allVars(MainStep) /\ WF_allVars(LogStep(Main))
    /\ \A t \in ServerThreadSet : WF_allVars(ThreadStep(t))

-----------------------------------------------------------------------------
(* Properties *)

(* No line of the log is torn, where the build promises that.              *)
LinesWhole == L!LinesWhole

(* A line that turns a colour on turns it off.                             *)
ColourCleared == L!ColourCleared

(* main keeps to what cli.h and log.h define: no option without argument,  *)
(* no freed option, no null argv, no log without file; nothing undefined   *)
(* happens to it, but for an argument whose character has no place in the  *)
(* array of short names (cli.c:279, 714-716).  It leaves, but for the help,*)
(* with the command line released; where cli_create fails in the automatic *)
(* help all but that array is (cli.c:292-304), and no server ever starts   *)
(* with anything of the command line left (main.c:25-80).                  *)
MainReleasesAll ==
    main # "any" =>
        /\ ub \in {"none", "slot"} /\ ~flagged /\ ~undefined
        /\ main = "exited" /\ cli # "exited" =>
              cli \in {"gone", "leaked"} /\ reg = EmptyRegistry /\ match = <<>>
        /\ (\E t \in ServerThreadSet : thread[t] # "none") =>
              cli = "gone" /\ reg = EmptyRegistry /\ match = <<>>

(* After SIGINT, or when the server cannot be set up, main gets through    *)
(* the destruction of the server and the last message: no thread is        *)
(* cancelled while it holds the mutex of the log, none leaves without      *)
(* unlocking it (main.c:90-110; server.c:57-70, 220-224; log.c:257-286).   *)
MainTerminates == (main \in {"stopping", "failing", "failed"}) ~> (main = "exited")
=============================================================================
