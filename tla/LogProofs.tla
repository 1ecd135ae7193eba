------------------------------ MODULE LogProofs ------------------------------
(***************************************************************************)
(* Machine-checked proofs about Log, for any number of threads, files and  *)
(* lines: where the build has a mutex or writes a line at once, no line is *)
(* torn, and a line written at once turns its colours off.                 *)
(*                                                                         *)
(* The invariant: whoever is between lock and unlock owns the mutex; lines *)
(* in the making have different numbers; nothing is in a file of a line    *)
(* whose first part is still to be written, and what is there of a line    *)
(* that is being written is the end of the file.                           *)
(***************************************************************************)
EXTENDS Log, TLAPS

Part == {"colour", "time", "banner", "clear", "text"}
Options == [lvl : Nat, opts : SUBSET {"colour", "time", "banner"}]
LineType == [nr : Nat, lvl : Nat, lf : Options, fp : Files \cup {NoFile}]
Entry == Nat \X SUBSET Part

TypeOK ==
    /\ build \in [once : BOOLEAN, mt : BOOLEAN, atomic : BOOLEAN]
    /\ log_flags \in Options /\ log_fp \in Files \cup {NoFile}
    /\ log_mtx \in Threads \cup {NoThread}
    /\ at \in [Threads -> {"out", "lock", "flags", "file", "print", "unlock"}]
    /\ line \in [Threads -> LineType]
    /\ todo \in [Threads -> Seq(Part)]
    /\ file \in [Files -> Seq(Entry)]
    /\ lines \in Nat

(* Who is between lock and unlock.                                         *)
Critical(t) ==
    IF ~build.atomic THEN at[t] \in {"flags", "file", "print", "unlock"}
    ELSE ~build.once /\ at[t] \in {"print", "unlock"}

MutexOwned == build.mt => \A t \in Threads : Critical(t) => log_mtx = t

Absent(s, n) == \A i \in 1 .. Len(s) : s[i][1] # n
Trailing(s, n) == \A i, j \in 1 .. Len(s) : i < j /\ s[i][1] = n => s[j][1] = n

(* The line of t has not been started; it is being written part by part.   *)
Waiting(t) ==
    at[t] \in {"lock", "flags", "file"} \/ (at[t] = "print" /\ build.once)
Printing(t) == at[t] = "print" /\ ~build.once

LinesNumbered ==
    /\ \A t \in Threads : line[t].nr <= lines
    /\ \A t, u \in Threads :
          t # u /\ at[t] # "out" /\ at[u] # "out" => line[t].nr # line[u].nr
    /\ \A f \in Files : \A i \in 1 .. Len(file[f]) : file[f][i][1] <= lines

LinesPlaced ==
    \A t \in Threads : \A f \in Files :
        /\ Waiting(t) => Absent(file[f], line[t].nr)
        /\ Printing(t) /\ build.mt => Trailing(file[f], line[t].nr)

PartsLeft == \A t \in Threads :
    at[t] = "print" \/ (at[t] = "lock" /\ build.atomic) => todo[t] # <<>>

LogInv ==
    TypeOK /\ MutexOwned /\ LinesNumbered /\ LinesPlaced /\ PartsLeft /\ LinesWhole

-----------------------------------------------------------------------------
(* A part appended to a file.                                              *)
LEMMA AppendWhole ==
    ASSUME NEW s \in Seq(Entry), NEW e \in Entry, Whole(s), Trailing(s, e[1])
    PROVE  Whole(Append(s, e)) /\ Trailing(Append(s, e), e[1])
<1>. DEFINE r == Append(s, e)
<1>1. /\ Len(r) = Len(s) + 1 /\ Len(s) \in Nat
      /\ \A i \in 1 .. Len(s) : r[i] = s[i]
      /\ r[Len(s) + 1] = e
  OBVIOUS
<1>. HIDE DEF r
<1>2. Trailing(r, e[1])
  BY <1>1 DEF Trailing
<1>3. ASSUME NEW i \in 1 .. Len(r), NEW j \in 1 .. Len(r), NEW k \in 1 .. Len(r),
             i < j, j < k, r[i][1] = r[k][1]
      PROVE  r[j][1] = r[i][1]
  <2>1. CASE k <= Len(s)
    <3>1. /\ i \in 1 .. Len(s) /\ j \in 1 .. Len(s) /\ k \in 1 .. Len(s)
          /\ r[i] = s[i] /\ r[j] = s[j] /\ r[k] = s[k]
      BY <1>1, <1>3, <2>1
    <3>2. QED
      BY <1>3, <3>1 DEF Whole
  <2>2. CASE k = Len(s) + 1
    BY <1>1, <1>3, <2>2 DEF Trailing
  <2>3. QED
    BY <1>1, <2>1, <2>2
<1>4. Whole(r)
  BY <1>3 DEF Whole
<1>5. QED
  BY <1>2, <1>4 DEF r

LEMMA AppendAbsent ==
    ASSUME NEW s \in Seq(Entry), NEW e \in Entry, NEW n \in Nat, Absent(s, n), e[1] # n
    PROVE  Absent(Append(s, e), n)
BY DEF Absent

LEMMA AbsentTrailing ==
    ASSUME NEW s, NEW n, Absent(s, n) PROVE Trailing(s, n)
BY DEF Absent, Trailing

(* Every line has its text.                                                *)
LEMMA ShownParts ==
    ASSUME NEW opts PROVE Shown(opts) \in Seq(Part) /\ Shown(opts) # <<>>
<1>1. ASSUME NEW b, NEW p \in Part PROVE Unless(b, p) \in Seq(Part)
  BY DEF Unless
<1>2. \A s, r \in Seq(Part) : s \o r \in Seq(Part)
  OBVIOUS
<1>. DEFINE s == Unless("colour" \in opts, "colour") \o Unless("time" \in opts, "time")
                   \o Unless("banner" \in opts, "banner") \o Unless("colour" \in opts, "clear")
<1>3. s \in Seq(Part)
  <2>1. /\ Unless("colour" \in opts, "colour") \in Seq(Part)
        /\ Unless("time" \in opts, "time") \in Seq(Part)
        /\ Unless("banner" \in opts, "banner") \in Seq(Part)
        /\ Unless("colour" \in opts, "clear") \in Seq(Part)
    <3>1. {"colour", "time", "banner", "clear"} \subseteq Part
      BY DEF Part
    <3>2. QED
      BY <1>1, <3>1
  <2>2. QED
    BY <2>1, <1>2
<1>4. Shown(opts) = s \o <<"text">>
  BY DEF Shown
<1>. HIDE DEF s
<1>5. <<"text">> \in Seq(Part) /\ Len(<<"text">>) = 1
  BY DEF Part
<1>6. s \o <<"text">> \in Seq(Part) /\ Len(s \o <<"text">>) = Len(s) + 1 /\ Len(s) \in Nat
  BY <1>3, <1>5
<1>7. Len(<<>>) = 0
  OBVIOUS
<1>8. QED
  BY <1>4, <1>6, <1>7

-----------------------------------------------------------------------------
(* The initial state, and the steps that write nothing                     *)

LEMMA InitLogInv == ASSUME LogConstantsOK, Init PROVE LogInv
<1>1. TypeOK
  <2>1. WARN \in Options /\ NewLine(0, 0) \in LineType
    BY DEF WARN, NewLine, Options, LineType
  <2>2. QED
    BY <2>1 DEF Init, TypeOK, LogConstantsOK
<1>2. \A t \in Threads : at[t] = "out" /\ line[t].nr = 0
  BY DEF Init, NewLine
<1>3. \A f \in Files : file[f] = <<>>
  BY DEF Init
<1>4. MutexOwned /\ PartsLeft
  BY <1>2 DEF MutexOwned, PartsLeft, Critical
<1>5. LinesNumbered
  BY <1>2, <1>3 DEF LinesNumbered, Init
<1>6. LinesPlaced
  BY <1>2 DEF LinesPlaced, Waiting, Printing
<1>7. LinesWhole
  BY <1>3 DEF LinesWhole, Whole
<1>8. QED
  BY <1>1, <1>4, <1>5, <1>6, <1>7 DEF LogInv

(* log_set_flags and log_set_file change nothing that a line depends on.   *)
LEMMA SetKeeps ==
    ASSUME LogConstantsOK, LogInv,
           (\E f \in Flags : log_set_flags(f)) \/ (\E f \in Files : log_set_file(f))
    PROVE  LogInv'
<1>1. UNCHANGED <<build, log_mtx, at, line, todo, file, lines>>
      /\ log_flags' \in Options /\ log_fp' \in Files \cup {NoFile}
  BY DEF log_set_flags, log_set_file, locals, LogInv, TypeOK, LogConstantsOK, Options
<1>2. TypeOK'
  BY <1>1 DEF LogInv, TypeOK
<1>3. MutexOwned' /\ PartsLeft' /\ LinesNumbered' /\ LinesPlaced' /\ LinesWhole'
  BY <1>1 DEF LogInv, MutexOwned, PartsLeft, LinesNumbered, LinesPlaced, LinesWhole,
     Critical, Waiting, Printing
<1>4. QED
  BY <1>2, <1>3 DEF LogInv

(* A new line has a number of its own, which no file has yet.              *)
LEMMA LogMsgKeeps ==
    ASSUME NEW t \in Threads, NEW lvl \in 0 .. 3, LogInv, LogMsg(t, lvl) PROVE LogInv'
<1>. USE DEF LogInv, LogMsg, Go
<1>1. /\ at' = [at EXCEPT ![t] = at'[t]] /\ at'[t] \in {"flags", "lock"}
      /\ build.atomic => at'[t] = "flags"
      /\ ~build.atomic => at'[t] = "lock"
  BY DEF TypeOK
<1>2. line'[t].nr = lines + 1 /\ \A u \in Threads \ {t} : line'[u] = line[u]
  BY DEF TypeOK, NewLine
<1>3. NewLine(lines + 1, lvl) \in LineType
  BY DEF TypeOK, NewLine, LineType, Options, WARN
<1>4. TypeOK'
  BY <1>1, <1>3 DEF TypeOK
<1>5. MutexOwned'
  BY <1>1 DEF TypeOK, MutexOwned, Critical
<1>6. PartsLeft'
  BY <1>1 DEF TypeOK, PartsLeft
<1>7. LinesNumbered'
  <2>1. lines \in Nat /\ lines' = lines + 1 /\ \A u \in Threads : line[u].nr \in Nat
    BY DEF TypeOK, LineType
  <2>2. \A u \in Threads : line'[u].nr <= lines'
    BY <1>2, <2>1 DEF LinesNumbered
  <2>3. \A u, v \in Threads :
           u # v /\ at'[u] # "out" /\ at'[v] # "out" => line'[u].nr # line'[v].nr
    BY <1>1, <1>2, <2>1 DEF LinesNumbered, TypeOK
  <2>4. \A f \in Files : \A i \in 1 .. Len(file'[f]) : file'[f][i][1] <= lines'
    BY <2>1 DEF LinesNumbered, TypeOK, Entry
  <2>5. QED
    BY <2>2, <2>3, <2>4 DEF LinesNumbered
<1>8. LinesPlaced'
  <2>1. ASSUME NEW f \in Files PROVE Absent(file[f], lines + 1)
    BY DEF Absent, LinesNumbered, TypeOK, Entry
  <2>2. ASSUME NEW u \in Threads, NEW f \in Files
        PROVE  /\ Waiting(u)' => Absent(file[f], line'[u].nr)
               /\ Printing(u)' /\ build.mt => Trailing(file[f], line'[u].nr)
    <3>1. CASE u = t
      BY <1>1, <1>2, <2>1, <3>1 DEF Waiting, Printing
    <3>2. CASE u # t
      BY <1>1, <1>2, <3>2 DEF LinesPlaced, Waiting, Printing, TypeOK
    <3>3. QED
      BY <3>1, <3>2
  <2>3. QED
    BY <2>2 DEF LinesPlaced, locals
<1>9. LinesWhole'
  BY DEF LinesWhole
<1>10. QED
  BY <1>4, <1>5, <1>6, <1>7, <1>8, <1>9

(* What steps need not show again that leave files and numbers alone and   *)
(* move one thread on.                                                     *)
LEMMA MoveKeeps ==
    ASSUME NEW t \in Threads, LogInv, TypeOK', UNCHANGED <<build, file, lines>>,
           \A u \in Threads : line'[u].nr = line[u].nr,
           \A u \in Threads \ {t} : at'[u] = at[u] /\ todo'[u] = todo[u],
           at[t] # "out", Waiting(t)' => Waiting(t),
           Printing(t)' => Waiting(t) \/ Printing(t),
           at'[t] = "print" \/ (at'[t] = "lock" /\ build.atomic) => todo'[t] # <<>>,
           MutexOwned'
    PROVE  LogInv'
<1>1. PartsLeft' /\ LinesWhole'
  BY DEF LogInv, PartsLeft, LinesWhole
<1>2. LinesNumbered'
  <2>1. /\ \A u \in Threads : line'[u].nr <= lines'
        /\ \A f \in Files : \A i \in 1 .. Len(file'[f]) : file'[f][i][1] <= lines'
    BY DEF LogInv, LinesNumbered
  <2>2. \A u \in Threads : at'[u] # "out" => at[u] # "out"
    OBVIOUS
  <2>3. QED
    BY <2>1, <2>2 DEF LogInv, LinesNumbered
<1>3. ASSUME NEW u \in Threads, NEW f \in Files
      PROVE  /\ Waiting(u)' => Absent(file'[f], line'[u].nr)
             /\ Printing(u)' /\ build'.mt => Trailing(file'[f], line'[u].nr)
  <2>1. CASE u = t
    BY <2>1, AbsentTrailing DEF LogInv, LinesPlaced
  <2>2. CASE u # t
    BY <2>2 DEF LogInv, LinesPlaced, Waiting, Printing
  <2>3. QED
    BY <2>1, <2>2
<1>4. LinesPlaced'
  BY <1>3 DEF LinesPlaced
<1>5. QED
  BY <1>1, <1>2, <1>4 DEF LogInv

(* The mutex is free when it is taken.                                     *)
LEMMA LogLockKeeps ==
    ASSUME LogConstantsOK, NEW t \in Threads, LogInv, LogLock(t) PROVE LogInv'
<1>. USE DEF LogLock, Go
<1>1. /\ at' = [at EXCEPT ![t] = at'[t]] /\ at[t] = "lock"
      /\ at'[t] = IF build.atomic THEN "print" ELSE "flags"
  BY DEF LogInv, TypeOK
<1>2. build.mt => log_mtx = NoThread /\ log_mtx' = t
  BY DEF Lock, MayLock
<1>3. log_mtx' \in Threads \cup {NoThread}
  BY DEF Lock, LogInv, TypeOK
<1>4. TypeOK'
  BY <1>1, <1>3 DEF LogInv, TypeOK
<1>5. MutexOwned'
  BY <1>1, <1>2 DEF LogInv, TypeOK, MutexOwned, Critical, LogConstantsOK
<1>6. at'[t] = "print" => todo[t] # <<>>
  BY <1>1 DEF LogInv, PartsLeft
<1>7. /\ Waiting(t)
      /\ \A u \in Threads \ {t} : at'[u] = at[u] /\ todo'[u] = todo[u]
      /\ \A u \in Threads : line'[u].nr = line[u].nr
  BY <1>1 DEF Waiting, LogInv, TypeOK
<1>8. QED
  BY <1>1, <1>4, <1>5, <1>6, <1>7, MoveKeeps

LEMMA LogReadFlagsKeeps ==
    ASSUME NEW t \in Threads, LogInv, LogReadFlags(t) PROVE LogInv'
<1>. USE DEF LogReadFlags, Go
<1>1. at' = [at EXCEPT ![t] = "file"] /\ at[t] = "flags"
  OBVIOUS
<1>2. /\ line' \in [Threads -> LineType]
      /\ \A u \in Threads : line'[u].nr = line[u].nr
  BY DEF LogInv, TypeOK, LineType
<1>3. TypeOK'
  BY <1>1, <1>2 DEF LogInv, TypeOK
<1>4. MutexOwned'
  BY <1>1 DEF LogInv, TypeOK, MutexOwned, Critical
<1>5. /\ Waiting(t) /\ ~Printing(t)'
      /\ \A u \in Threads \ {t} : at'[u] = at[u] /\ todo'[u] = todo[u]
      /\ at'[t] = "file"
  BY <1>1 DEF Waiting, Printing, LogInv, TypeOK
<1>6. QED
  BY <1>1, <1>2, <1>3, <1>4, <1>5, MoveKeeps

(* Where the message is not shown the thread is done but for the mutex.    *)
LEMMA LogReadFileKeeps ==
    ASSUME NEW t \in Threads, LogInv, LogReadFile(t) PROVE LogInv'
<1>. USE DEF LogReadFile, Go
<1>1. /\ at' = [at EXCEPT ![t] = at'[t]] /\ at[t] = "file"
      /\ at'[t] = IF TooLow(t) THEN IF build.atomic THEN "out" ELSE "unlock"
                  ELSE IF build.atomic /\ ~build.once THEN "lock" ELSE "print"
  BY DEF LogInv, TypeOK
<1>2. /\ line' \in [Threads -> LineType]
      /\ \A u \in Threads : line'[u].nr = line[u].nr
  BY DEF LogInv, TypeOK, LineType
<1>3. /\ \A u \in Threads \ {t} : at'[u] = at[u] /\ todo'[u] = todo[u]
      /\ todo' \in [Threads -> Seq(Part)]
      /\ ~TooLow(t) => todo'[t] # <<>>
  BY <1>1, ShownParts DEF LogInv, TypeOK
<1>4. TypeOK'
  BY <1>1, <1>2, <1>3 DEF LogInv, TypeOK
<1>5. MutexOwned'
  BY <1>1 DEF LogInv, TypeOK, MutexOwned, Critical
<1>6. /\ Waiting(t)
      /\ at'[t] = "print" \/ (at'[t] = "lock" /\ build.atomic) => todo'[t] # <<>>
  BY <1>1, <1>3 DEF Waiting
<1>7. QED
  BY <1>1, <1>2, <1>3, <1>4, <1>5, <1>6, MoveKeeps

(* Only the owner of the mutex gives it up.                                *)
LEMMA LogUnlockKeeps ==
    ASSUME NEW t \in Threads, LogInv, LogUnlock(t) PROVE LogInv'
<1>. USE DEF LogUnlock, Go
<1>1. at' = [at EXCEPT ![t] = "out"] /\ at[t] = "unlock"
  OBVIOUS
<1>2. log_mtx' \in Threads \cup {NoThread}
  BY DEF Unlock, LogInv, TypeOK
<1>3. TypeOK'
  BY <1>1, <1>2 DEF LogInv, TypeOK
<1>4. MutexOwned'
  BY <1>1 DEF LogInv, TypeOK, MutexOwned, Critical
<1>5. /\ ~Waiting(t)' /\ ~Printing(t)'
      /\ \A u \in Threads \ {t} : at'[u] = at[u] /\ todo'[u] = todo[u]
      /\ at'[t] = "out" /\ \A u \in Threads : line'[u].nr = line[u].nr
  BY <1>1 DEF Waiting, Printing, LogInv, TypeOK
<1>6. QED
  BY <1>1, <1>3, <1>4, <1>5, MoveKeeps

-----------------------------------------------------------------------------
(* The steps that write                                                    *)

(* One more entry, of a line that no other thread is writing.              *)
LEMMA WriteKeeps ==
    ASSUME NEW t \in Threads, NEW f \in Files, NEW e \in Entry,
           LogInv, TypeOK', MutexOwned', UNCHANGED <<build, line, lines>>,
           file' = [file EXCEPT ![f] = Append(@, e)], e[1] = line[t].nr,
           \A u \in Threads \ {t} : at'[u] = at[u] /\ todo'[u] = todo[u],
           at[t] = "print", ~Waiting(t)', at'[t] = "print" => todo'[t] # <<>>,
           build.mt \/ build.once => Trailing(file[f], e[1])
    PROVE  LogInv'
<1>1. /\ \A g \in Files : file[g] \in Seq(Entry)
      /\ \A g \in Files : file'[g] = IF g = f THEN Append(file[f], e) ELSE file[g]
      /\ lines \in Nat /\ \A u \in Threads : line[u].nr \in Nat /\ line[u].nr <= lines
  BY DEF LogInv, TypeOK, LineType, LinesNumbered
<1>2. PartsLeft'
  BY DEF LogInv, PartsLeft, Waiting
<1>3. LinesWhole'
  BY <1>1, AppendWhole DEF LogInv, LinesWhole
<1>4. LinesNumbered'
  <2>1. ASSUME NEW g \in Files, NEW i \in 1 .. Len(file'[g])
        PROVE  file'[g][i][1] <= lines
    <3>1. CASE g # f
      BY <1>1, <2>1, <3>1 DEF LogInv, LinesNumbered
    <3>2. CASE g = f
      <4>1. CASE i \in 1 .. Len(file[f])
        BY <1>1, <3>2, <4>1 DEF LogInv, LinesNumbered
      <4>2. CASE i = Len(file[f]) + 1
        BY <1>1, <3>2, <4>2
      <4>3. QED
        BY <1>1, <3>2, <4>1, <4>2
    <3>3. QED
      BY <3>1, <3>2
  <2>2. \A u \in Threads : at'[u] # "out" => at[u] # "out"
    OBVIOUS
  <2>3. QED
    BY <1>1, <2>1, <2>2 DEF LogInv, LinesNumbered
<1>5. ASSUME NEW u \in Threads, NEW g \in Files, Waiting(u)'
      PROVE  Absent(file'[g], line[u].nr)
  <2>1. u # t /\ Waiting(u) /\ at[u] # "out"
    BY <1>5 DEF Waiting
  <2>2. Absent(file[g], line[u].nr) /\ line[u].nr # e[1]
    BY <2>1 DEF LogInv, LinesPlaced, LinesNumbered
  <2>3. QED
    BY <1>1, <2>2, AppendAbsent
<1>6. ASSUME NEW u \in Threads, NEW g \in Files, Printing(u)', build.mt
      PROVE  Trailing(file'[g], line[u].nr)
  <2>1. ~build.once /\ Printing(u) /\ Printing(t)
    BY <1>6 DEF Printing
  <2>2. u = t
    BY <1>6, <2>1 DEF LogInv, MutexOwned, Critical, Printing
  <2>3. Trailing(file[g], line[t].nr)
    BY <1>6, <2>1 DEF LogInv, LinesPlaced
  <2>4. CASE g = f
    BY <1>1, <1>6, <2>2, <2>4, AppendWhole DEF LogInv, LinesWhole
  <2>5. CASE g # f
    BY <1>1, <2>2, <2>3, <2>5
  <2>6. QED
    BY <2>4, <2>5
<1>7. LinesPlaced'
  BY <1>5, <1>6 DEF LinesPlaced
<1>8. QED
  BY <1>2, <1>3, <1>4, <1>7 DEF LogInv

LEMMA LogPartKeeps ==
    ASSUME NEW t \in Threads, LogInv, LogPart(t) PROVE LogInv'
<1>. USE DEF LogPart, Go
<1>1. /\ at' = [at EXCEPT ![t] = at'[t]] /\ at[t] = "print" /\ ~build.once
      /\ at'[t] = IF Len(todo[t]) = 1 THEN "unlock" ELSE "print"
  BY DEF LogInv, TypeOK
<1>2. todo[t] \in Seq(Part) /\ todo[t] # <<>>
  BY <1>1 DEF LogInv, TypeOK, PartsLeft
<1>3. /\ Head(todo[t]) \in Part /\ Tail(todo[t]) \in Seq(Part)
      /\ Len(todo[t]) # 1 => Tail(todo[t]) # <<>>
  <2>. DEFINE s == todo[t]
  <2>1. s \in Seq(Part) /\ s # <<>>
    BY <1>2
  <2>. HIDE DEF s
  <2>2. /\ Head(s) \in Part /\ Tail(s) \in Seq(Part)
        /\ Len(Tail(s)) = Len(s) - 1 /\ Len(s) \in Nat
    BY <2>1
  <2>3. Len(<<>>) = 0
    OBVIOUS
  <2>4. Len(s) # 1 => Tail(s) # <<>>
    BY <2>2, <2>3
  <2>5. QED
    BY <2>2, <2>4 DEF s
<1>4. /\ \A u \in Threads \ {t} : at'[u] = at[u] /\ todo'[u] = todo[u]
      /\ todo' \in [Threads -> Seq(Part)] /\ todo'[t] = Tail(todo[t])
  BY <1>1, <1>3 DEF LogInv, TypeOK
<1>5. ~Waiting(t)' /\ Printing(t) /\ (at'[t] = "print" => todo'[t] # <<>>)
  BY <1>1, <1>3, <1>4 DEF Waiting, Printing
<1>6. MutexOwned'
  BY <1>1 DEF LogInv, TypeOK, MutexOwned, Critical
<1>7. PICK f \in Files \cup {NoFile} : Write(t, f, {Head(todo[t])})
  BY DEF LogInv, TypeOK, LineType
<1>8. CASE f = NoFile
  <2>1. UNCHANGED file
    BY <1>7, <1>8 DEF Write
  <2>2. TypeOK'
    BY <1>1, <1>4, <2>1 DEF LogInv, TypeOK
  <2>3. QED
    BY <1>1, <1>4, <1>5, <1>6, <2>1, <2>2, MoveKeeps
<1>9. CASE f # NoFile
  <2>. DEFINE e == <<line[t].nr, {Head(todo[t])}>>
  <2>1. e \in Entry /\ e[1] = line[t].nr
    BY <1>3 DEF Entry, LogInv, TypeOK, LineType
  <2>2. f \in Files /\ file' = [file EXCEPT ![f] = Append(@, e)]
    BY <1>7, <1>9 DEF Write
  <2>. HIDE DEF e
  <2>3. TypeOK'
    <3>1. file' \in [Files -> Seq(Entry)]
      BY <2>1, <2>2 DEF LogInv, TypeOK
    <3>2. QED
      BY <1>1, <1>4, <3>1 DEF LogInv, TypeOK
  <2>4. build.mt \/ build.once => Trailing(file[f], e[1])
    BY <1>1, <1>5, <2>1, <2>2 DEF LogInv, LinesPlaced
  <2>5. QED
    BY <1>1, <1>4, <1>5, <1>6, <2>1, <2>2, <2>3, <2>4, WriteKeeps
<1>10. QED
  BY <1>8, <1>9

LEMMA LogOnceKeeps ==
    ASSUME NEW t \in Threads, LogInv, LogOnce(t) PROVE LogInv'
<1>. USE DEF LogOnce, Go
<1>1. /\ at' = [at EXCEPT ![t] = at'[t]] /\ at[t] = "print" /\ build.once
      /\ at'[t] = IF build.atomic THEN "out" ELSE "unlock"
  BY DEF LogInv, TypeOK
<1>2. /\ \A u \in Threads \ {t} : at'[u] = at[u] /\ todo'[u] = todo[u]
      /\ todo' \in [Threads -> Seq(Part)]
  BY <1>1 DEF LogInv, TypeOK
<1>3. ~Waiting(t)' /\ Waiting(t) /\ ~Printing(t)' /\ at'[t] # "print" /\ at'[t] # "lock"
  BY <1>1 DEF Waiting, Printing
<1>4. MutexOwned'
  BY <1>1 DEF LogInv, TypeOK, MutexOwned, Critical
<1>. DEFINE parts == Copied(todo[t], line[t].lvl)
            e == <<line[t].nr, parts>>
            f == line[t].fp
<1>5. parts \subseteq Part
  <2>1. \A i \in 1 .. Len(todo[t]) : todo[t][i] \in Part
    BY DEF LogInv, TypeOK
  <2>2. QED
    BY <2>1 DEF Copied
<1>6. e \in Entry /\ e[1] = line[t].nr
  BY <1>5 DEF Entry, LogInv, TypeOK, LineType
<1>7. /\ f = NoFile => UNCHANGED file
      /\ f # NoFile => file' = [file EXCEPT ![f] = Append(@, e)]
      /\ f \in Files \cup {NoFile}
  BY DEF Write, LogInv, TypeOK, LineType
<1>. HIDE DEF parts, e
<1>8. CASE f = NoFile
  <2>1. TypeOK'
    BY <1>1, <1>2, <1>7, <1>8 DEF LogInv, TypeOK
  <2>2. QED
    BY <1>1, <1>2, <1>3, <1>4, <1>7, <1>8, <2>1, MoveKeeps
<1>9. CASE f # NoFile
  <2>1. file' \in [Files -> Seq(Entry)]
    <3>1. f \in Files /\ file[f] \in Seq(Entry)
      BY <1>7, <1>9 DEF LogInv, TypeOK
    <3>. HIDE DEF f
    <3>2. Append(file[f], e) \in Seq(Entry)
      BY <1>6, <3>1
    <3>3. file' = [file EXCEPT ![f] = Append(file[f], e)]
      BY <1>7, <1>9
    <3>4. QED
      BY <3>1, <3>2, <3>3 DEF LogInv, TypeOK
  <2>2. TypeOK'
    BY <1>1, <1>2, <2>1 DEF LogInv, TypeOK
  <2>3. Trailing(file[f], e[1])
    BY <1>3, <1>6, <1>7, <1>9, AbsentTrailing DEF LogInv, LinesPlaced
  <2>4. QED
    BY <1>1, <1>2, <1>3, <1>4, <1>6, <1>7, <1>9, <2>2, <2>3, WriteKeeps
<1>10. QED
  BY <1>8, <1>9

-----------------------------------------------------------------------------
(* The theorem *)

LEMMA NextKeeps == ASSUME LogConstantsOK, LogInv, [Next]_logVars PROVE LogInv'
<1>1. ASSUME NEW t \in Threads, LogStep(t) PROVE LogInv'
  BY <1>1, LogLockKeeps, LogReadFlagsKeeps, LogReadFileKeeps, LogPartKeeps, LogOnceKeeps,
     LogUnlockKeeps DEF LogStep
<1>2. CASE UNCHANGED logVars
  BY <1>2 DEF logVars, locals, LogInv, TypeOK, MutexOwned, LinesNumbered, LinesPlaced,
     PartsLeft, LinesWhole, Critical, Waiting, Printing
<1>3. CASE Next
  BY <1>1, <1>3, LogMsgKeeps, SetKeeps DEF Next
<1>4. QED
  BY <1>2, <1>3

(* However many threads call log_msg, set the flags or another file: where *)
(* the build has a mutex or LOG_PRINT_ONCE, nothing is written between two *)
(* parts of a line (log.c:208-288).                                        *)
THEOREM LinesStayWhole == ASSUME LogConstantsOK PROVE Spec => []LinesWhole
<1>1. Init => LogInv
  BY InitLogInv
<1>2. LogInv /\ [Next]_logVars => LogInv'
  BY NextKeeps
<1>3. LogInv => LinesWhole
  BY DEF LogInv
<1>4. QED
  BY <1>1, <1>2, <1>3, PTL DEF Spec

-----------------------------------------------------------------------------
(* Colours: the parts of a line and the room they need                     *)

Opts == SUBSET {"colour", "time", "banner"}

(* What is left after a part p, when a was left before it.                 *)
After(p, lvl, a) == IF Length(p, lvl) + 1 > a THEN a ELSE a - Length(p, lvl)

(* The recursion of Left, for the at most five parts of a line.            *)
LEMMA LeftUnfolds ==
    ASSUME NEW s, Len(s) \in 0 .. 5, NEW lvl
    PROVE  /\ Left(s, lvl, 0) = Buffer
           /\ \A n \in 1 .. Len(s) : Left(s, lvl, n) = After(s[n], lvl, Left(s, lvl, n - 1))
<1>. DEFINE a1 == After(s[1], lvl, Buffer)
            a2 == After(s[2], lvl, a1)
            a3 == After(s[3], lvl, a2)
            a4 == After(s[4], lvl, a3)
            a5 == After(s[5], lvl, a4)
            g == [n \in 0 .. Len(s) |->
                    IF n = 0 THEN Buffer ELSE IF n = 1 THEN a1 ELSE IF n = 2 THEN a2
                    ELSE IF n = 3 THEN a3 ELSE IF n = 4 THEN a4 ELSE a5]
            left == CHOOSE f : f = [n \in 0 .. Len(s) |->
                        IF n = 0 THEN Buffer
                        ELSE IF Length(s[n], lvl) + 1 > f[n - 1] THEN f[n - 1]
                        ELSE f[n - 1] - Length(s[n], lvl)]
<1>1. \A i : Left(s, lvl, i) = left[i]
  BY Zenon DEF Left
<1>2. g = [n \in 0 .. Len(s) |->
             IF n = 0 THEN Buffer
             ELSE IF Length(s[n], lvl) + 1 > g[n - 1] THEN g[n - 1]
             ELSE g[n - 1] - Length(s[n], lvl)]
  <2>1. ASSUME NEW n \in 0 .. Len(s), n # 0
        PROVE  g[n] = After(s[n], lvl, g[n - 1])
    <3>. HIDE DEF a1, a2, a3, a4, a5
    <3>1. CASE n = 1
      BY <3>1 DEF a1
    <3>2. CASE n = 2
      BY <3>2 DEF a2
    <3>3. CASE n = 3
      BY <3>3 DEF a3
    <3>4. CASE n = 4
      BY <3>4 DEF a4
    <3>5. CASE n = 5
      BY <3>5 DEF a5
    <3>6. QED
      BY <2>1, <3>1, <3>2, <3>3, <3>4, <3>5
  <2>2. Len(s) \in Nat /\ g[0] = Buffer
    OBVIOUS
  <2>3. ASSUME NEW n \in 0 .. Len(s)
        PROVE  g[n] = IF n = 0 THEN Buffer
                      ELSE IF Length(s[n], lvl) + 1 > g[n - 1] THEN g[n - 1]
                      ELSE g[n - 1] - Length(s[n], lvl)
    <3>. HIDE DEF g
    <3>1. QED
      BY <2>1, <2>2 DEF After
  <2>4. QED
    BY <2>3
<1>3. left = [n \in 0 .. Len(s) |->
                IF n = 0 THEN Buffer
                ELSE IF Length(s[n], lvl) + 1 > left[n - 1] THEN left[n - 1]
                ELSE left[n - 1] - Length(s[n], lvl)]
  BY <1>2, Zenon
<1>. HIDE DEF left, g
<1>4. \A n \in 0 .. Len(s) :
         left[n] = IF n = 0 THEN Buffer
                   ELSE IF Length(s[n], lvl) + 1 > left[n - 1] THEN left[n - 1]
                   ELSE left[n - 1] - Length(s[n], lvl)
  BY <1>3, Zenon
<1>5. QED
  BY <1>1, <1>4 DEF After

(* One more part, unless it is left out.                                   *)
LEMMA Joined ==
    ASSUME NEW r \in Seq(Part), NEW p \in Part, NEW u, u = <<>> \/ u = <<p>>
    PROVE  /\ r \o u \in Seq(Part)
           /\ u = <<>> => r \o u = r
           /\ u # <<>> => /\ Len(r \o u) = Len(r) + 1 /\ (r \o u)[Len(r) + 1] = p
                          /\ \A i \in 1 .. Len(r) : (r \o u)[i] = r[i]
<1>1. CASE u = <<>>
  BY <1>1
<1>2. CASE u = <<p>>
  BY <1>2
<1>3. QED
  BY <1>1, <1>2

(* The lines that have a colour.                                           *)
LEMMA ColouredLines ==
    ASSUME NEW opts, "colour" \notin opts, NEW s, s = Shown(opts)
    PROVE  \/ /\ Len(s) = 5 /\ s[1] = "colour" /\ s[2] = "time" /\ s[3] = "banner"
              /\ s[4] = "clear" /\ s[5] = "text"
           \/ /\ Len(s) = 4 /\ s[1] = "colour" /\ s[2] \in {"time", "banner"}
              /\ s[3] = "clear" /\ s[4] = "text"
           \/ Len(s) = 3 /\ s[1] = "colour" /\ s[2] = "clear" /\ s[3] = "text"
<1>. DEFINE s1 == Unless("colour" \in opts, "colour")
            T == Unless("time" \in opts, "time")
            B == Unless("banner" \in opts, "banner")
            C == Unless("colour" \in opts, "clear")
            s2 == s1 \o T
            s3 == s2 \o B
            s4 == s3 \o C
<1>0. /\ T = <<>> \/ T = <<"time">>
      /\ B = <<>> \/ B = <<"banner">>
      /\ C = <<"clear">> /\ C # <<>> /\ <<"text">> # <<>>
  BY DEF Unless
<1>1. s = s4 \o <<"text">>
  BY DEF Shown
<1>2. {"colour", "time", "banner", "clear", "text"} \subseteq Part
  BY DEF Part
<1>3. s1 \in Seq(Part) /\ Len(s1) = 1 /\ s1[1] = "colour"
  BY <1>2 DEF Unless
<1>. HIDE DEF s1, T, B, C
<1>4. /\ s2 \in Seq(Part)
      /\ IF T = <<>> THEN s2 = s1
         ELSE Len(s2) = 2 /\ s2[2] = "time" /\ s2[1] = "colour"
  BY <1>0, <1>2, <1>3, Joined
<1>. HIDE DEF s2
<1>5. /\ s3 \in Seq(Part)
      /\ IF B = <<>> THEN s3 = s2
         ELSE /\ Len(s3) = Len(s2) + 1 /\ s3[Len(s2) + 1] = "banner"
              /\ \A i \in 1 .. Len(s2) : s3[i] = s2[i]
  BY <1>0, <1>2, <1>4, Joined
<1>. HIDE DEF s3
<1>6. /\ s4 \in Seq(Part)
      /\ Len(s4) = Len(s3) + 1 /\ s4[Len(s3) + 1] = "clear"
      /\ \A i \in 1 .. Len(s3) : s4[i] = s3[i]
  BY <1>0, <1>2, <1>5, Joined
<1>. HIDE DEF s4
<1>7. /\ Len(s) = Len(s4) + 1 /\ s[Len(s4) + 1] = "text"
      /\ \A i \in 1 .. Len(s4) : s[i] = s4[i]
  BY <1>0, <1>1, <1>2, <1>6, Joined
<1>8. \/ Len(s3) = 3 /\ s3[1] = "colour" /\ s3[2] = "time" /\ s3[3] = "banner"
      \/ Len(s3) = 2 /\ s3[1] = "colour" /\ s3[2] \in {"time", "banner"}
      \/ Len(s3) = 1 /\ s3[1] = "colour"
  <2>1. CASE T = <<>>
    <3>1. Len(s2) = 1 /\ s2[1] = "colour"
      BY <1>3, <1>4, <2>1
    <3>2. CASE B = <<>>
      BY <1>5, <3>1, <3>2
    <3>3. CASE B # <<>>
      BY <1>5, <3>1, <3>3
    <3>4. QED
      BY <3>2, <3>3
  <2>2. CASE T # <<>>
    <3>1. Len(s2) = 2 /\ s2[2] = "time" /\ s2[1] = "colour"
      BY <1>4, <2>2
    <3>2. CASE B = <<>>
      BY <1>5, <3>1, <3>2
    <3>3. CASE B # <<>>
      BY <1>5, <3>1, <3>3
    <3>4. QED
      BY <3>2, <3>3
  <2>3. QED
    BY <2>1, <2>2
<1>9. QED
  BY <1>6, <1>7, <1>8

(* With 39 characters to a line every part of it is copied.                *)
LEMMA AllCopied ==
    ASSUME NEW opts, NEW lvl \in 0 .. 3, LineLen \in Nat, LineLen >= 39,
           "colour" \notin opts
    PROVE  {"colour", "clear", "text"} \subseteq Copied(Shown(opts), lvl)
<1>. DEFINE s == Shown(opts)
            left(i) == Left(s, lvl, i)
            len(p) == Length(p, lvl)
<1>. SUFFICES {"colour", "clear", "text"} \subseteq Copied(s, lvl)
  OBVIOUS
<1>1. \/ /\ Len(s) = 5 /\ s[1] = "colour" /\ s[2] = "time" /\ s[3] = "banner"
         /\ s[4] = "clear" /\ s[5] = "text"
      \/ /\ Len(s) = 4 /\ s[1] = "colour" /\ s[2] \in {"time", "banner"}
         /\ s[3] = "clear" /\ s[4] = "text"
      \/ Len(s) = 3 /\ s[1] = "colour" /\ s[2] = "clear" /\ s[3] = "text"
  BY ColouredLines
<1>. HIDE DEF s
<1>2. /\ len("colour") = 7 /\ len("clear") = 4 /\ len("text") = 0
      /\ len("time") = 18 /\ len("banner") \in 6 .. 10
  BY DEF Length
<1>3. Buffer \in Nat /\ Buffer >= 40
  BY DEF Buffer
<1>4. /\ left(0) = Buffer
      /\ \A i \in 1 .. Len(s) : left(i) = After(s[i], lvl, left(i - 1))
  <2>1. Len(s) \in 0 .. 5
    BY <1>1
  <2>2. QED
    BY <2>1, LeftUnfolds
<1>5. ASSUME NEW i \in 1 .. Len(s), NEW j, j = i - 1, len(s[i]) + 1 <= left(j)
      PROVE  s[i] \in Copied(s, lvl)
  BY <1>5 DEF Copied
<1>6. ASSUME NEW i \in 1 .. Len(s), NEW j, j = i - 1,
             left(j) \in Nat, len(s[i]) \in Nat, len(s[i]) + 1 <= left(j)
      PROVE  left(i) = left(j) - len(s[i])
  BY <1>4, <1>6 DEF After
<1>. HIDE DEF left, len
<1>7. CASE /\ Len(s) = 5 /\ s[1] = "colour" /\ s[2] = "time" /\ s[3] = "banner"
           /\ s[4] = "clear" /\ s[5] = "text"
  <2>1. left(1) = Buffer - 7
    BY <1>2, <1>3, <1>4, <1>6, <1>7
  <2>2. left(2) = Buffer - 25
    BY <1>2, <1>3, <1>6, <1>7, <2>1
  <2>3. left(3) \in Nat /\ left(3) >= Buffer - 35
    BY <1>2, <1>3, <1>6, <1>7, <2>2
  <2>4. left(4) \in Nat /\ left(4) >= Buffer - 39
    BY <1>2, <1>3, <1>6, <1>7, <2>3
  <2>5. s[1] \in Copied(s, lvl) /\ s[4] \in Copied(s, lvl) /\ s[5] \in Copied(s, lvl)
    BY <1>2, <1>3, <1>4, <1>5, <1>7, <2>3, <2>4
  <2>6. QED
    BY <1>7, <2>5
<1>8. CASE /\ Len(s) = 4 /\ s[1] = "colour" /\ s[2] \in {"time", "banner"}
           /\ s[3] = "clear" /\ s[4] = "text"
  <2>0. len(s[2]) \in 6 .. 18
    BY <1>2, <1>8
  <2>1. left(1) = Buffer - 7
    BY <1>2, <1>3, <1>4, <1>6, <1>8
  <2>2. left(2) \in Nat /\ left(2) >= Buffer - 25
    BY <2>0, <1>3, <1>6, <1>8, <2>1
  <2>3. left(3) \in Nat /\ left(3) >= Buffer - 29
    BY <1>2, <1>3, <1>6, <1>8, <2>2
  <2>4. s[1] \in Copied(s, lvl) /\ s[3] \in Copied(s, lvl) /\ s[4] \in Copied(s, lvl)
    BY <1>2, <1>3, <1>4, <1>5, <1>8, <2>2, <2>3
  <2>5. QED
    BY <1>8, <2>4
<1>9. CASE Len(s) = 3 /\ s[1] = "colour" /\ s[2] = "clear" /\ s[3] = "text"
  <2>1. left(1) = Buffer - 7
    BY <1>2, <1>3, <1>4, <1>6, <1>9
  <2>2. left(2) = Buffer - 11
    BY <1>2, <1>3, <1>6, <1>9, <2>1
  <2>3. s[1] \in Copied(s, lvl) /\ s[2] \in Copied(s, lvl) /\ s[3] \in Copied(s, lvl)
    BY <1>2, <1>3, <1>4, <1>5, <1>9, <2>1, <2>2
  <2>4. QED
    BY <1>9, <2>3
<1>10. QED
  BY <1>1, <1>7, <1>8, <1>9

(* A line without colour has no part that turns one on.                    *)
LEMMA NoColourShown ==
    ASSUME NEW opts, NEW lvl, "colour" \in opts
    PROVE  "colour" \notin Copied(Shown(opts), lvl)
<1>. DEFINE s == Shown(opts)
            T == Unless("time" \in opts, "time")
            B == Unless("banner" \in opts, "banner")
<1>1. s = T \o B \o <<"text">>
  BY DEF Shown, Unless
<1>2. (T = <<>> \/ T = <<"time">>) /\ (B = <<>> \/ B = <<"banner">>)
  BY DEF Unless
<1>. HIDE DEF T, B, s
<1>3. \A i \in 1 .. Len(s) : s[i] \in {"time", "banner", "text"}
  BY <1>1, <1>2
<1>4. QED
  BY <1>3 DEF Copied, s

-----------------------------------------------------------------------------
(* Colours: what is written                                                *)

(* Who writes its line at once has all the parts of it still to write.     *)
LinesPrepared ==
    \A t \in Threads :
        /\ line[t].lvl \in 0 .. 3
        /\ build.once =>
              /\ at[t] = "lock" => ~build.atomic
              /\ at[t] = "print" => \E opts \in Opts : todo[t] = Shown(opts)

ColourInv == LogInv /\ LinesPrepared /\ ColourCleared

LEMMA OnceCleared ==
    ASSUME LogConstantsOK, LineLen >= 39, ColourInv, NEW t \in Threads, LogOnce(t)
    PROVE  ColourCleared'
<1>. DEFINE parts == Copied(todo[t], line[t].lvl)
            f == line[t].fp
            e == <<line[t].nr, parts>>
<1>1. "colour" \in parts => {"clear", "text"} \subseteq parts
  <2>1. line[t].lvl \in 0 .. 3 /\ LineLen \in Nat
    BY DEF ColourInv, LinesPrepared, LogConstantsOK
  <2>2. PICK opts \in Opts : todo[t] = Shown(opts)
    BY DEF ColourInv, LinesPrepared, LogOnce
  <2>3. QED
    BY <2>1, <2>2, AllCopied, NoColourShown
<1>2. /\ f = NoFile => UNCHANGED file
      /\ f # NoFile => file' = [file EXCEPT ![f] = Append(@, e)] /\ f \in Files
      /\ file \in [Files -> Seq(Entry)] /\ UNCHANGED build
  BY DEF LogOnce, Write, ColourInv, LogInv, TypeOK, LineType
<1>. HIDE DEF f, parts
<1>3. CASE f = NoFile
  BY <1>2, <1>3 DEF ColourInv, ColourCleared
<1>4. CASE f # NoFile
  <2>. SUFFICES ASSUME build.once, NEW g \in Files, NEW i \in 1 .. Len(file'[g]),
                       "colour" \in file'[g][i][2]
                PROVE  {"clear", "text"} \subseteq file'[g][i][2]
    BY <1>2 DEF ColourCleared
  <2>1. file[g] \in Seq(Entry) /\ file'[g] = IF g = f THEN Append(file[g], e) ELSE file[g]
    BY <1>2, <1>4
  <2>2. CASE i \in 1 .. Len(file[g]) /\ file'[g][i] = file[g][i]
    BY <2>2 DEF ColourInv, ColourCleared
  <2>3. CASE file'[g][i] = e
    BY <1>1, <2>3
  <2>. HIDE DEF e
  <2>4. QED
    BY <2>1, <2>2, <2>3
<1>5. QED
  BY <1>3, <1>4

LEMMA PreparedKept ==
    ASSUME LogConstantsOK, ColourInv, NEW t \in Threads,
           LogStep(t) \/ \E lvl \in 0 .. 3 : LogMsg(t, lvl)
    PROVE  LinesPrepared'
<1>1. /\ at \in [Threads -> {"out", "lock", "flags", "file", "print", "unlock"}]
      /\ line \in [Threads -> LineType] /\ todo \in [Threads -> Seq(Part)]
      /\ log_flags \in Options /\ log_fp \in Files \cup {NoFile}
  BY DEF ColourInv, LogInv, TypeOK
<1>2. /\ line[t].lf.opts \in Opts /\ line[t].lvl \in 0 .. 3
      /\ build.once /\ at[t] = "lock" => ~build.atomic
  BY <1>1 DEF LineType, Options, Opts, ColourInv, LinesPrepared
<1>3. /\ UNCHANGED build
      /\ \A u \in Threads \ {t} : at'[u] = at[u] /\ todo'[u] = todo[u] /\ line'[u] = line[u]
  BY <1>1 DEF LogStep, LogLock, LogReadFlags, LogReadFile, LogPart, LogOnce, LogUnlock,
     LogMsg, Go
<1>4. line'[t].lvl \in 0 .. 3
  BY <1>1, <1>2 DEF LogStep, LogLock, LogReadFlags, LogReadFile, LogPart, LogOnce, LogUnlock,
     LogMsg, NewLine, LineType
<1>5. build.once => /\ at'[t] = "lock" => ~build.atomic
                    /\ at'[t] = "print" => \E opts \in Opts : todo'[t] = Shown(opts)
  <2>. SUFFICES ASSUME build.once
                PROVE  /\ at'[t] = "lock" => ~build.atomic
                       /\ at'[t] = "print" => \E opts \in Opts : todo'[t] = Shown(opts)
    OBVIOUS
  <2>1. CASE LogReadFile(t)
    BY <1>1, <1>2, <2>1 DEF LogReadFile, Go
  <2>2. CASE LogLock(t) \/ LogReadFlags(t) \/ LogPart(t) \/ LogOnce(t) \/ LogUnlock(t)
             \/ \E lvl \in 0 .. 3 : LogMsg(t, lvl)
    BY <1>1, <1>2, <2>2 DEF LogLock, LogReadFlags, LogPart, LogOnce, LogUnlock, LogMsg, Go
  <2>3. QED
    BY <2>1, <2>2 DEF LogStep
<1>6. QED
  BY <1>3, <1>4, <1>5 DEF ColourInv, LinesPrepared

LEMMA ColourKept ==
    ASSUME LogConstantsOK, LineLen >= 39, ColourInv, [Next]_logVars PROVE ColourInv'
<1>1. LogInv'
  BY NextKeeps DEF ColourInv
<1>2. CASE UNCHANGED <<build, locals, file>>
  BY <1>1, <1>2 DEF locals, ColourInv, LinesPrepared, ColourCleared
<1>3. ASSUME NEW t \in Threads, LogStep(t) \/ \E lvl \in 0 .. 3 : LogMsg(t, lvl)
      PROVE  ColourInv'
  <2>1. LinesPrepared'
    BY <1>3, PreparedKept
  <2>2. CASE LogOnce(t)
    BY <1>1, <2>1, <2>2, OnceCleared DEF ColourInv
  <2>3. CASE LogPart(t)
    BY <1>1, <2>1, <2>3 DEF LogPart, ColourInv, ColourCleared
  <2>4. CASE LogLock(t) \/ LogReadFlags(t) \/ LogReadFile(t) \/ LogUnlock(t)
             \/ \E lvl \in 0 .. 3 : LogMsg(t, lvl)
    BY <1>1, <2>1, <2>4 DEF LogLock, LogReadFlags, LogReadFile, LogUnlock, LogMsg,
       ColourInv, ColourCleared
  <2>5. QED
    BY <1>3, <2>2, <2>3, <2>4 DEF LogStep
<1>4. CASE Next
  BY <1>2, <1>3, <1>4 DEF Next, log_set_flags, log_set_file
<1>5. QED
  BY <1>2, <1>4 DEF logVars

(* However many threads log and whatever is set meanwhile: a line that is  *)
(* written at once turns off the colour it turns on, if LOG_PRINT_LINE_LEN *)
(* is 39 at least; CMakeLists.txt makes it 1024 (log.c:107-142, 228-246).  *)
THEOREM ColoursCleared ==
    ASSUME LogConstantsOK, LineLen >= 39 PROVE Spec => []ColourCleared
<1>1. Init => ColourInv
  <2>. SUFFICES ASSUME Init PROVE ColourInv
    OBVIOUS
  <2>1. LogInv
    BY InitLogInv
  <2>2. LinesPrepared /\ ColourCleared
    BY DEF Init, LinesPrepared, ColourCleared, NewLine
  <2>3. QED
    BY <2>1, <2>2 DEF ColourInv
<1>2. ColourInv /\ [Next]_logVars => ColourInv'
  BY ColourKept
<1>3. ColourInv => ColourCleared
  BY DEF ColourInv
<1>4. QED
  BY <1>1, <1>2, <1>3, PTL DEF Spec
=============================================================================
