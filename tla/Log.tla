--------------------------------- MODULE Log ---------------------------------
(***************************************************************************)
(* The log of src/log/log.c: threads call log_msg, which writes a line to  *)
(* the file set by log_set_file.                                           *)
(*                                                                         *)
(* A build (src/log/CMakeLists.txt) either puts a line together in a       *)
(* buffer and writes it at once (LOG_PRINT_ONCE) or writes it part by      *)
(* part; it has a mutex or none (LOG_MT_SAFETY); flags and file are atomic *)
(* or not (LOG_ATOMIC).  A file holds what each fputs wrote: the number of *)
(* the line and a set of its parts.                                        *)
(***************************************************************************)
EXTENDS Naturals, Sequences

CONSTANTS
    Threads,    \* whoever calls log_msg
    NoThread,
    Files,
    NoFile,     \* the null pointer
    Flags,      \* values of log_flags: [lvl |-> 0 .. 3, opts |-> parts left out]
    Builds,     \* [once, mt, atomic |-> BOOLEAN]
    LineLen,    \* LOG_PRINT_LINE_LEN
    MaxLines    \* bound: calls of log_msg

LogConstantsOK ==
    /\ NoThread \notin Threads /\ NoFile \notin Files
    /\ Flags \subseteq [lvl : Nat, opts : SUBSET {"colour", "time", "banner"}]
    /\ Builds \subseteq [once : BOOLEAN, mt : BOOLEAN, atomic : BOOLEAN]
    /\ LineLen \in Nat /\ MaxLines \in Nat

VARIABLES
    build,
    log_flags, log_fp,
    log_mtx,    \* the owner of the mutex, or NoThread
    at,         \* per thread: "out" of log_msg, or the step that comes next
    line,       \* per thread: its number, the flags of the message and the
                \* local copies of log_flags (lf) and log_fp (fp)
    todo,       \* per thread: the parts of its line still to be written
    file,       \* per file: the parts written to it
    lines,      \* how many calls of log_msg there were
    undefined   \* the null pointer was used as a file

locals == <<at, line, todo>>
logVars == <<build, log_flags, log_fp, log_mtx, locals, file, lines, undefined>>

WARN == [lvl |-> 2, opts |-> {}]
NewLine(nr, lvl) == [nr |-> nr, lvl |-> lvl, lf |-> WARN, fp |-> NoFile]

Init ==
    /\ build \in Builds
    /\ log_flags = WARN /\ log_fp = NoFile /\ log_mtx = NoThread
    /\ at = [t \in Threads |-> "out"]
    /\ line = [t \in Threads |-> NewLine(0, 0)]
    /\ todo = [t \in Threads |-> <<>>]
    /\ file = [f \in Files |-> <<>>]
    /\ lines = 0 /\ undefined = FALSE

-----------------------------------------------------------------------------
(* The mutex, where the build has one *)

MayLock == build.mt => log_mtx = NoThread

Lock(t) == MayLock /\ log_mtx' = IF build.mt THEN t ELSE log_mtx
Unlock == log_mtx' = IF build.mt THEN NoThread ELSE log_mtx

-----------------------------------------------------------------------------
(* log_set_flags and log_set_file: an atomic store, or one under the mutex.*)

log_set_flags(f) ==
    /\ ~build.atomic => MayLock
    /\ log_flags' = f
    /\ UNCHANGED <<build, log_fp, log_mtx, locals, file, lines, undefined>>

log_set_file(f) ==
    /\ ~build.atomic => MayLock
    /\ log_fp' = f
    /\ UNCHANGED <<build, log_flags, log_mtx, locals, file, lines, undefined>>

-----------------------------------------------------------------------------
(* log_msg *)

Go(t, next) == at' = [at EXCEPT ![t] = next]

LogMsg(t, lvl) ==
    /\ at[t] = "out" /\ ~undefined
    /\ lines < MaxLines
    /\ lines' = lines + 1
    /\ line' = [line EXCEPT ![t] = NewLine(lines + 1, lvl)]
    /\ Go(t, IF build.atomic THEN "flags" ELSE "lock")
    /\ UNCHANGED <<build, log_flags, log_fp, log_mtx, todo, file, undefined>>

(* Mutant: atomic builds go without the mutex.                             *)
LogLockForgotten(t) ==
    /\ at[t] = "lock" /\ ~undefined
    /\ IF build.atomic THEN UNCHANGED log_mtx ELSE Lock(t)
    /\ Go(t, IF build.atomic THEN "print" ELSE "flags")
    /\ UNCHANGED <<build, log_flags, log_fp, line, todo, file, lines, undefined>>

(* Non-atomic builds lock before they read, atomic ones before they write. *)
LogLock(t) ==
    /\ at[t] = "lock" /\ ~undefined
    /\ Lock(t)
    /\ Go(t, IF build.atomic THEN "print" ELSE "flags")
    /\ UNCHANGED <<build, log_flags, log_fp, line, todo, file, lines, undefined>>

LogReadFlags(t) ==
    /\ at[t] = "flags" /\ ~undefined
    /\ line' = [line EXCEPT ![t].lf = log_flags]
    /\ Go(t, "file")
    /\ UNCHANGED <<build, log_flags, log_fp, log_mtx, todo, file, lines, undefined>>

(* The parts of a line, each with the flag that leaves it out.             *)
Unless(left_out, part) == IF left_out THEN <<>> ELSE <<part>>
Shown(opts) ==
    Unless("colour" \in opts, "colour") \o Unless("time" \in opts, "time")
        \o Unless("banner" \in opts, "banner") \o Unless("colour" \in opts, "clear")
        \o <<"text">>

TooLow(t) == line[t].lvl < line[t].lf.lvl

LogReadFile(t) ==
    /\ at[t] = "file" /\ ~undefined
    /\ line' = [line EXCEPT ![t].fp = log_fp]
    /\ todo' = [todo EXCEPT ![t] = IF TooLow(t) THEN <<>> ELSE Shown(line[t].lf.opts)]
    /\ Go(t, IF TooLow(t) THEN IF build.atomic THEN "out" ELSE "unlock"
             ELSE IF build.atomic /\ ~build.once THEN "lock" ELSE "print")
    /\ UNCHANGED <<build, log_flags, log_fp, log_mtx, file, lines, undefined>>

Write(t, f, parts) ==
    IF f = NoFile THEN undefined' = TRUE /\ UNCHANGED file
    ELSE /\ file' = [file EXCEPT ![f] = Append(@, <<line[t].nr, parts>>)]
         /\ UNCHANGED undefined

(* log_color ... vfprintf: one fputs each, the text to the file read above,*)
(* the other parts to what log_fp is by then.                              *)
LogPart(t) ==
    /\ at[t] = "print" /\ ~build.once /\ ~undefined
    /\ Write(t, IF Head(todo[t]) = "text" THEN line[t].fp ELSE log_fp, {Head(todo[t])})
    /\ todo' = [todo EXCEPT ![t] = Tail(@)]
    /\ Go(t, IF Len(todo[t]) = 1 THEN "unlock" ELSE "print")
    /\ UNCHANGED <<build, log_flags, log_fp, log_mtx, line, lines>>

(* LOG_PRINT_ONCE: a part is copied when it fits with its final zero, the  *)
(* text is cut.                                                            *)
Length(part, lvl) ==
    CASE part = "colour" -> 7
      [] part = "clear" -> 4
      [] part = "time" -> 18
      [] part = "banner" -> <<7, 6, 6, 10>>[lvl + 1]
      [] part = "text" -> 0

(* Mutant: no room is reserved for the final zero of the whole line.       *)
BufferShort == LineLen

Buffer == LineLen + 1

(* What is left of the buffer after the first i parts of s.                *)
Left(s, lvl, i) ==
    LET left[n \in 0 .. Len(s)] ==
            IF n = 0 THEN Buffer
            ELSE IF Length(s[n], lvl) + 1 > left[n - 1] THEN left[n - 1]
            ELSE left[n - 1] - Length(s[n], lvl)
    IN  left[i]

Copied(s, lvl) ==
    {s[i] : i \in {i \in 1 .. Len(s) : Length(s[i], lvl) + 1 <= Left(s, lvl, i - 1)}}

LogOnce(t) ==
    /\ at[t] = "print" /\ build.once /\ ~undefined
    /\ Write(t, line[t].fp, Copied(todo[t], line[t].lvl))
    /\ todo' = [todo EXCEPT ![t] = <<>>]
    /\ Go(t, IF build.atomic THEN "out" ELSE "unlock")
    /\ UNCHANGED <<build, log_flags, log_fp, log_mtx, line, lines>>

(* Mutant: the way out for a message of too low a level does not unlock.   *)
LogUnlockPrinted(t) ==
    /\ at[t] = "unlock" /\ ~undefined
    /\ IF TooLow(t) THEN UNCHANGED log_mtx ELSE Unlock
    /\ Go(t, "out")
    /\ UNCHANGED <<build, log_flags, log_fp, line, todo, file, lines, undefined>>

LogUnlock(t) ==
    /\ at[t] = "unlock" /\ ~undefined
    /\ Unlock
    /\ Go(t, "out")
    /\ UNCHANGED <<build, log_flags, log_fp, line, todo, file, lines, undefined>>

LogStep(t) ==
    LogLock(t) \/ LogReadFlags(t) \/ LogReadFile(t)
        \/ LogPart(t) \/ LogOnce(t) \/ LogUnlock(t)

Next ==
    \/ \E f \in Flags : log_set_flags(f)
    \/ \E f \in Files : log_set_file(f)
    \/ \E t \in Threads : LogStep(t) \/ \E lvl \in 0 .. 3 : LogMsg(t, lvl)

Spec == Init /\ [][Next]_logVars

-----------------------------------------------------------------------------
(* Properties *)

Whole(s) ==
    \A i, j, k \in 1 .. Len(s) :
        i < j /\ j < k /\ s[i][1] = s[k][1] => s[j][1] = s[i][1]

(* A line is not torn: nothing is written between two parts of it.  With   *)
(* the mutex, or when it is written at once; the build that CMakeLists.txt *)
(* makes by default promises neither (log.c:208-288).                      *)
LinesWhole == build.mt \/ build.once => \A f \in Files : Whole(file[f])

(* A line that turns a colour on turns it off again before its text, also  *)
(* where the buffer of LOG_PRINT_ONCE has no room to spare                 *)
(* (log.c:107-142, 228-246).                                               *)
ColourCleared ==
    build.once => \A f \in Files : \A i \in 1 .. Len(file[f]) :
        "colour" \in file[f][i][2] => {"clear", "text"} \subseteq file[f][i][2]
=============================================================================
