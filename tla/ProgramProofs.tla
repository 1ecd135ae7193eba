---------------------------- MODULE ProgramProofs ----------------------------
(***************************************************************************)
(* Machine-checked proofs about Program: main and the threads of the server*)
(* use the log as Log says, so that what LogProofs shows of any threads    *)
(* holds of the program; each argument of a match is released once; and    *)
(* how the rings of listc.h, the hash tables of cli_hash.c and the registry*)
(* of cli.c made of them change, from which the agreement of the registry's*)
(* parts follows for any options, arguments and calls.                     *)
(***************************************************************************)
EXTENDS Program, FiniteSetTheorems, SequenceTheorems, WellFoundedInduction,
        NaturalsInduction, TLAPS

LP == INSTANCE LogProofs WITH
    Threads <- ServerThreadSet \cup {Main}, Files <- {Stderr},
    MaxLines <- ServerLines + 3, at <- at_log

LevelOK == log_lvl \in Flags

LEMMA LevelStaysOK == LevelOK /\ [ProgramNext]_allVars => LevelOK'
<1>. SUFFICES ASSUME LevelOK, [ProgramNext]_allVars PROVE LevelOK'
  OBVIOUS
<1>1. CASE UNCHANGED allVars
  BY <1>1 DEF allVars, programVars, LevelOK
<1>2. CASE AnyCaller \/ MainStep \/ MainSignalled \/ MainLogsInServer \/ LogStep(Main)
  BY <1>2 DEF LevelOK, AnyCaller, MainStep, MainSignalled, MainLogsInServer, LogStep, programVars,
     MainLogSetUp, MainCliCreate, MainAddOpts, MainInAddOpts, MainMatch, MainInMatch,
     MainReadArgs, MainRemoveOpt, MainCliDestroy, MainSetFlags, ServerCreate, MainAddPlot,
     ServerDestroyCancel, MainExit, MainLeaves, MainFails, Say
<1>3. ASSUME NEW t \in ServerThreadSet, ThreadWakes(t) \/ ThreadLogs(t) \/ ThreadStep(t)
      PROVE  LevelOK'
  BY <1>3 DEF LevelOK, ThreadWakes, ThreadLogs, ThreadStep, LogStep, ThreadSleeps,
     ThreadCancelled, ServerOnly, programVars
<1>4. QED
  BY <1>1, <1>2, <1>3 DEF ProgramNext

(* LP is L with its proofs: the operations are the same.                   *)
LEMMA SameInit == L!Init => LP!Init
BY DEF L!Init, LP!Init, L!NewLine, LP!NewLine, L!WARN, LP!WARN

LEMMA SameSetters ==
    ASSUME NEW f PROVE /\ L!log_set_flags(f) => LP!log_set_flags(f)
                       /\ L!log_set_file(f) => LP!log_set_file(f)
BY DEF L!log_set_flags, LP!log_set_flags, L!log_set_file, LP!log_set_file,
   L!MayLock, LP!MayLock, L!locals, LP!locals

LEMMA SameLogMsg == ASSUME NEW t, NEW lvl PROVE L!LogMsg(t, lvl) => LP!LogMsg(t, lvl)
BY DEF L!LogMsg, LP!LogMsg, L!Go, LP!Go, L!NewLine, LP!NewLine, L!WARN, LP!WARN

LEMMA SameLogStep == ASSUME NEW t, L!LogStep(t) PROVE LP!LogStep(t)
<1>1. L!LogLock(t) => LP!LogLock(t)
  BY DEF L!LogLock, LP!LogLock, L!Lock, LP!Lock, L!MayLock, LP!MayLock, L!Go, LP!Go
<1>2. L!LogReadFlags(t) => LP!LogReadFlags(t)
  BY DEF L!LogReadFlags, LP!LogReadFlags, L!Go, LP!Go
<1>3. L!LogReadFile(t) => LP!LogReadFile(t)
  <2>1. L!TooLow(t) = LP!TooLow(t) /\ \A opts : L!Shown(opts) = LP!Shown(opts)
    BY DEF L!TooLow, LP!TooLow, L!Shown, LP!Shown, L!Unless, LP!Unless
  <2>2. QED
    BY <2>1 DEF L!LogReadFile, LP!LogReadFile, L!Go, LP!Go
<1>4. \A f, parts : L!Write(t, f, parts) => LP!Write(t, f, parts)
  BY DEF L!Write, LP!Write
<1>5. L!LogPart(t) => LP!LogPart(t)
  BY <1>4 DEF L!LogPart, LP!LogPart, L!Go, LP!Go
<1>6. L!LogOnce(t) => LP!LogOnce(t)
  <2>1. \A s, lvl : L!Copied(s, lvl) = LP!Copied(s, lvl)
    BY DEF L!Copied, LP!Copied, L!Left, LP!Left, L!Length, LP!Length, L!Buffer, LP!Buffer
  <2>2. QED
    BY <1>4, <2>1 DEF L!LogOnce, LP!LogOnce, L!Go, LP!Go
<1>7. L!LogUnlock(t) => LP!LogUnlock(t)
  BY DEF L!LogUnlock, LP!LogUnlock, L!Unlock, LP!Unlock, L!Go, LP!Go
<1>8. QED
  BY <1>1, <1>2, <1>3, <1>5, <1>6, <1>7 DEF L!LogStep, LP!LogStep

(* Every step of the program is one of the log or leaves it alone.         *)
LEMMA StepIsLogStep ==
    ASSUME LevelOK, [ProgramNext]_allVars PROVE [LP!Next]_(LP!logVars)
<1>. DEFINE LogStays == UNCHANGED logVars
<1>1. LogStays => UNCHANGED LP!logVars
  BY DEF logVars, LP!logVars, LP!locals
<1>2. CASE UNCHANGED allVars
  BY <1>1, <1>2 DEF allVars
<1>3. ASSUME NEW t \in ServerThreadSet \cup {Main},
             LogStep(t) \/ ThreadLogs(t) \/ \E lvl \in 0 .. 3 : \E m : Say(lvl, m)
      PROVE  LP!Next
  <2>1. CASE LogStep(t)
    BY <2>1, SameLogStep DEF LogStep, LP!Next
  <2>2. CASE ThreadLogs(t)
    BY <2>2, SameLogMsg DEF ThreadLogs, LP!Next
  <2>3. CASE \E lvl \in 0 .. 3 : \E m : Say(lvl, m)
    BY <2>3, SameLogMsg DEF Say, LP!Next
  <2>4. QED
    BY <1>3, <2>1, <2>2, <2>3
<1>4. CASE AnyCaller
  BY <1>1, <1>4 DEF AnyCaller
<1>5. CASE MainSignalled \/ MainLogsInServer \/ LogStep(Main)
  <2>1. 0 \in 0 .. 3 /\ 1 \in 0 .. 3 /\ 0 .. 2 \subseteq 0 .. 3
    OBVIOUS
  <2>2. QED
    BY <1>3, <1>5, <2>1 DEF MainSignalled, MainLogsInServer
<1>6. CASE MainLogSetUp \/ MainSetFlags
  BY <1>6, SameSetters DEF MainLogSetUp, MainSetFlags, LevelOK, LP!Next
<1>7. CASE MainCliCreate \/ MainAddOpts \/ MainInAddOpts \/ MainMatch \/ MainInMatch
             \/ MainReadArgs \/ MainRemoveOpt \/ MainCliDestroy \/ ServerCreate
             \/ ServerDestroyCancel \/ MainLeaves
  BY <1>1, <1>7 DEF MainCliCreate, MainAddOpts, MainInAddOpts, MainMatch, MainInMatch,
     MainReadArgs, MainRemoveOpt, MainCliDestroy, ServerCreate, ServerDestroyCancel,
     MainLeaves
<1>8. CASE MainAddPlot \/ MainExit
  <2>1. CASE \E lvl \in 0 .. 3 : \E m : Say(lvl, m)
    BY <1>3, <2>1
  <2>2. 1 \in 0 .. 3 /\ 3 \in 0 .. 3
    OBVIOUS
  <2>3. QED
    BY <1>1, <1>8, <2>1, <2>2 DEF MainAddPlot, MainExit
<1>9. CASE MainFails
  <2>1. L!LogMsg(Main, 3)
    BY <1>9 DEF MainFails
  <2>2. LP!LogMsg(Main, 3)
    BY <2>1, SameLogMsg
  <2>3. 3 \in 0 .. 3
    OBVIOUS
  <2>4. QED
    BY <2>2, <2>3 DEF LP!Next
<1>10. ASSUME NEW t \in ServerThreadSet, ThreadWakes(t) \/ ThreadLogs(t) \/ ThreadStep(t)
      PROVE  [LP!Next]_(LP!logVars)
  BY <1>1, <1>3, <1>10 DEF ThreadWakes, ThreadStep, ThreadSleeps, ThreadCancelled
<1>11. QED
  BY <1>2, <1>4, <1>5, <1>6, <1>7, <1>8, <1>9, <1>10 DEF ProgramNext, MainStep

-----------------------------------------------------------------------------
(* The log, as main and the server use it, is Log's: every step of the     *)
(* program is one that Log allows (main.c, server.c).                      *)
THEOREM ProgramLogs == ProgramSpec => LP!Spec
<1>1. ProgramInit => LP!Init /\ LevelOK
  BY SameInit, ProgramConstantsOK DEF ProgramInit, LevelOK
<1>2. LevelOK /\ [ProgramNext]_allVars => LevelOK' /\ [LP!Next]_(LP!logVars)
  BY LevelStaysOK, StepIsLogStep
<1>3. QED
  BY <1>1, <1>2, PTL DEF ProgramSpec, LP!Spec

(* However many threads the server has, no line of its log is torn where   *)
(* the build promises that.                                                *)
THEOREM ProgramLinesWhole == ProgramSpec => []LinesWhole
<1>1. LP!LogConstantsOK
  BY ProgramConstantsOK DEF L!LogConstantsOK, LP!LogConstantsOK
<1>2. LP!Spec => []LP!LinesWhole
  BY <1>1, LP!LinesStayWhole
<1>3. LP!LinesWhole => LinesWhole
  BY DEF LP!LinesWhole, LinesWhole, L!LinesWhole, LP!Whole, L!Whole
<1>4. QED
  BY <1>2, <1>3, ProgramLogs, PTL

(* A line written at once turns the colour off that it turns on, where a   *)
(* line may have 39 characters or more (1024 is what CMakeLists.txt gives) *)
(* (log.c:107-142, 228-246).                                               *)
THEOREM ProgramColoursCleared == ASSUME LineLen >= 39 PROVE ProgramSpec => []ColourCleared
<1>1. LP!LogConstantsOK
  BY ProgramConstantsOK DEF L!LogConstantsOK, LP!LogConstantsOK
<1>2. LP!Spec => []LP!ColourCleared
  BY <1>1, LP!ColoursCleared
<1>3. LP!ColourCleared => ColourCleared
  BY DEF LP!ColourCleared, ColourCleared, L!ColourCleared
<1>4. QED
  BY <1>2, <1>3, ProgramLogs, PTL

-----------------------------------------------------------------------------
(* The command line, used by main or by another caller: what one step does *)

Lists == OptionLists \cup {MainOpts}

CliNext ==
    \/ CliCreate \/ CliDestroy
    \/ \E l \in Lists : AddOptsBegin(l)
    \/ AddOptsStep \/ AddOptsUndo
    \/ \E id \in AllIds \cup {"port"} : RemoveOpt(id)
    \/ MatchStep

LEMMA StepIsCliStep == [ProgramNext]_allVars => [CliNext]_vars
<1>1. UNCHANGED allVars => UNCHANGED vars
  BY DEF allVars
<1>2. ASSUME NEW t \in ServerThreadSet, ThreadWakes(t) \/ ThreadLogs(t) \/ ThreadStep(t)
      PROVE  UNCHANGED vars
  BY <1>2 DEF ThreadWakes, ThreadLogs, ThreadStep, LogStep, ThreadSleeps,
     ThreadCancelled, ServerOnly
<1>3. AnyCaller => CliNext
  BY DEF AnyCaller, Next, CliNext, Lists
<1>4. MainSignalled \/ MainLogsInServer \/ LogStep(Main) => UNCHANGED vars
  BY DEF MainSignalled, MainLogsInServer, Say, LogStep
<1>5. /\ MainLogSetUp \/ MainSetFlags \/ ServerCreate \/ MainAddPlot \/ ServerDestroyCancel
           \/ MainExit \/ MainLeaves => UNCHANGED vars
      /\ MainFails => CliDestroy \/ UNCHANGED vars
  BY DEF MainLogSetUp, MainSetFlags, ServerCreate, MainAddPlot, ServerDestroyCancel,
     MainExit, MainLeaves, MainFails, Say
<1>6. MainCliCreate \/ MainAddOpts \/ MainInAddOpts \/ MainMatch \/ MainInMatch
         \/ MainReadArgs \/ MainRemoveOpt \/ MainCliDestroy => CliNext
  BY DEF MainCliCreate, MainAddOpts, MainInAddOpts, MainMatch, MainInMatch, MainReadArgs,
     MainRemoveOpt, MainCliDestroy, CliNext, Lists, MatchStep
<1>7. MainStep => CliNext \/ UNCHANGED vars
  BY <1>5, <1>6 DEF MainStep, CliNext
<1>8. ProgramNext => CliNext \/ UNCHANGED vars
  BY <1>2, <1>3, <1>4, <1>7 DEF ProgramNext
<1>9. QED
  BY <1>1, <1>8

-----------------------------------------------------------------------------
(* The arguments of a match                                                *)

(* The argument numbered k is in the match.                                *)
Held(k) == \E id \in DOMAIN match : match[id] = <<k>>

ArgsTyped ==
    /\ tokens \in Nat /\ parsed \in Nat /\ flagged \in BOOLEAN
    /\ parsed <= tokens /\ tokens <= MaxTokens
    /\ pc \notin {"matching", "matched"} => match = <<>>

(* Each argument of a match was parsed, is there once, and not released.   *)
ArgsOwned ==
    /\ \A id \in DOMAIN match : \E k \in 1 .. parsed : match[id] = <<k>>
    /\ \A i, j \in DOMAIN match : match[i] = match[j] => i = j
    /\ released \in [1 .. MaxTokens -> 0 .. 1]
    /\ \A k \in 1 .. MaxTokens :
          /\ released[k] = 1 => k <= parsed /\ ~Held(k)
          /\ strict /\ k <= parsed => released[k] = 1 \/ Held(k)

ArgsInv == ArgsTyped /\ (~flagged => ArgsOwned)

(* While the arguments are owned each is in the match once at most.        *)
LEMMA StoredOnce ==
    ASSUME ArgsInv, ~flagged, NEW k \in 1 .. MaxTokens
    PROVE  Cardinality(Stored(k)) = IF Held(k) THEN 1 ELSE 0
<1>. USE DEF ArgsInv
<1>1. \A p \in Stored(k) : p[1] \in DOMAIN match /\ match[p[1]] = <<k>> /\ p[2] = 1
  <2>. SUFFICES ASSUME NEW p \in Stored(k)
                PROVE  p[1] \in DOMAIN match /\ match[p[1]] = <<k>> /\ p[2] = 1
    OBVIOUS
  <2>1. /\ p[1] \in DOMAIN match /\ p[2] \in 1 .. MaxTokens
        /\ p[2] <= Len(match[p[1]]) /\ match[p[1]][p[2]] = k
    BY DEF Stored
  <2>2. PICK j \in 1 .. parsed : match[p[1]] = <<j>>
    BY <2>1 DEF ArgsOwned
  <2>3. Len(<<j>>) = 1 /\ <<j>>[1] = j
    OBVIOUS
  <2>4. p[2] = 1
    BY <2>1, <2>2, <2>3, CliConstantsOK
  <2>5. QED
    BY <2>1, <2>2, <2>3, <2>4
<1>2. CASE Held(k)
  <2>1. PICK id \in DOMAIN match : match[id] = <<k>>
    BY <1>2 DEF Held
  <2>2. <<id, 1>> \in Stored(k)
    BY <2>1, CliConstantsOK DEF Stored
  <2>3. ASSUME NEW p \in Stored(k) PROVE p = <<id, 1>>
    <3>1. p[1] \in DOMAIN match /\ match[p[1]] = <<k>> /\ p[2] = 1
      BY <1>1
    <3>2. p[1] = id
      BY <2>1, <3>1 DEF ArgsOwned
    <3>3. p = <<p[1], p[2]>>
      BY DEF Stored
    <3>4. QED
      BY <3>1, <3>2, <3>3
  <2>4. Stored(k) = {<<id, 1>>}
    BY <2>2, <2>3
  <2>5. QED
    BY <1>2, <2>4, FS_Singleton
<1>3. CASE ~Held(k)
  <2>1. Stored(k) = {}
    BY <1>1, <1>3 DEF Held
  <2>2. QED
    BY <1>3, <2>1, FS_EmptySet
<1>4. QED
  BY <1>2, <1>3

(* Destruction of the match releases what it holds.                        *)
LEMMA DestroyOwned ==
    ASSUME ArgsInv, ~flagged, NEW S, S = {} \/ S = {parsed + 1}, parsed < MaxTokens \/ S = {},
           MatchDestroyed(S), UNCHANGED strict,
           parsed' = IF S = {} THEN parsed ELSE parsed + 1
    PROVE  ArgsOwned'
<1>1. /\ match' = <<>> /\ DOMAIN match' = {}
      /\ released' = [k \in 1 .. MaxTokens |->
                        released[k] + Cardinality(Stored(k)) + (IF k \in S THEN 1 ELSE 0)]
  BY DEF MatchDestroyed
<1>2. parsed \in Nat /\ parsed <= MaxTokens /\ ArgsOwned
  BY CliConstantsOK DEF ArgsInv, ArgsTyped
<1>3. \A k : ~Held(k)'
  BY <1>1 DEF Held
<1>4. ASSUME NEW k \in 1 .. MaxTokens
      PROVE  /\ released'[k] \in 0 .. 1
             /\ released'[k] = 1 => k <= parsed'
             /\ strict /\ k <= parsed' => released'[k] = 1
  <2>1. released'[k] = released[k] + (IF Held(k) THEN 1 ELSE 0) + (IF k \in S THEN 1 ELSE 0)
    BY <1>1, StoredOnce
  <2>2. released[k] \in 0 .. 1 /\ (released[k] = 1 => k <= parsed /\ ~Held(k))
        /\ (strict /\ k <= parsed => released[k] = 1 \/ Held(k))
    BY <1>2 DEF ArgsOwned
  <2>3. Held(k) => k <= parsed
    BY <1>2 DEF Held, ArgsOwned
  <2>4. k \in S => ~(k <= parsed) /\ k <= parsed'
    BY <1>2
  <2>5. k <= parsed' /\ ~(k \in S) => k <= parsed
    BY <1>2
  <2>6. k <= parsed => k <= parsed'
    BY <1>2
  <2>7. CASE k \in S
    BY <2>1, <2>2, <2>3, <2>4, <2>7
  <2>8. CASE k \notin S
    BY <2>1, <2>2, <2>3, <2>5, <2>6, <2>8
  <2>9. QED
    BY <2>7, <2>8
<1>5. released' \in [1 .. MaxTokens -> 0 .. 1]
  BY <1>1, <1>4
<1>6. QED
  BY <1>1, <1>3, <1>4, <1>5 DEF ArgsOwned

(* An argument was parsed; it is in the match now, or nobody's.            *)
LEMMA ParsedOwned ==
    ASSUME ArgsInv, ~flagged, NEW k, k = parsed + 1, parsed' = k, k <= MaxTokens,
           UNCHANGED <<strict, released>>,
           \/ UNCHANGED match /\ ~strict
           \/ \E x : /\ x \notin DOMAIN match
                     /\ match' = [id \in DOMAIN match \cup {x} |->
                                    IF id = x THEN <<k>> ELSE match[id]]
    PROVE  ArgsOwned'
<1>1. parsed \in Nat /\ ArgsOwned /\ k \in 1 .. MaxTokens /\ ~Held(k)
  <2>1. parsed \in Nat /\ ArgsOwned
    BY DEF ArgsInv, ArgsTyped
  <2>2. QED
    BY <2>1, CliConstantsOK DEF Held, ArgsOwned
<1>2. \A i \in 1 .. MaxTokens : released[i] \in 0 .. 1 /\ (released[i] = 1 => i < k)
  BY <1>1 DEF ArgsOwned
<1>3. CASE UNCHANGED match /\ ~strict
  <2>1. \A i : Held(i)' <=> Held(i)
    BY <1>3 DEF Held
  <2>2. QED
    BY <1>1, <1>3, <2>1 DEF ArgsOwned
<1>4. ASSUME NEW x, x \notin DOMAIN match,
             match' = [id \in DOMAIN match \cup {x} |-> IF id = x THEN <<k>> ELSE match[id]]
      PROVE  ArgsOwned'
  <2>1. /\ DOMAIN match' = DOMAIN match \cup {x} /\ match'[x] = <<k>>
        /\ \A id \in DOMAIN match : match'[id] = match[id]
    BY <1>4
  <2>2. \A i : Held(i)' <=> Held(i) \/ i = k
    <3>1. \A i : <<i>> = <<k>> => i = k
      OBVIOUS
    <3>2. QED
      BY <2>1, <3>1 DEF Held
  <2>3. \A id \in DOMAIN match : match[id] # <<k>>
    BY <1>1 DEF Held
  <2>4. \A id \in DOMAIN match' : \E i \in 1 .. parsed' : match'[id] = <<i>>
    BY <1>1, <2>1 DEF ArgsOwned
  <2>5. \A i, j \in DOMAIN match' : match'[i] = match'[j] => i = j
    BY <1>1, <2>1, <2>3 DEF ArgsOwned
  <2>6. \A i \in 1 .. MaxTokens :
           /\ released[i] = 1 => i <= k /\ ~Held(i)'
           /\ strict /\ i <= k => released[i] = 1 \/ Held(i)'
    BY <1>1, <1>2, <2>2 DEF ArgsOwned
  <2>7. QED
    BY <1>1, <2>4, <2>5, <2>6 DEF ArgsOwned
<1>5. QED
  BY <1>3, <1>4

LEMMA ArgsInit == Init => ArgsInv
<1>. SUFFICES ASSUME Init PROVE ArgsInv
  OBVIOUS
<1>1. DOMAIN match = {}
  BY DEF Init
<1>2. ArgsTyped
  <2>1. tokens = 0 /\ parsed = 0 /\ flagged = FALSE /\ match = <<>>
    BY DEF Init
  <2>2. MaxTokens \in Nat
    BY CliConstantsOK
  <2>3. /\ tokens \in Nat /\ parsed \in Nat
        /\ parsed <= tokens /\ tokens <= MaxTokens
    BY <2>1, <2>2
  <2>4. flagged \in BOOLEAN
    BY <2>1
  <2>5. QED
    BY <2>1, <2>3, <2>4 DEF ArgsTyped
<1>3. ArgsOwned
  BY <1>1, CliConstantsOK DEF Init, ArgsOwned, Held
<1>4. QED
  BY <1>2, <1>3 DEF ArgsInv

(* Nothing is matched, or nothing of the match and its arguments changes.  *)
LEMMA ArgsStay ==
    ASSUME ArgsInv, UNCHANGED <<strict, match, parsed, released, flagged>>,
           tokens' \in Nat, tokens <= tokens', tokens' <= MaxTokens,
           pc' \in {"matching", "matched"} \/ match = <<>>
    PROVE  ArgsInv'
<1>1. \A k : Held(k)' <=> Held(k)
  BY DEF Held
<1>2. QED
  BY <1>1, CliConstantsOK DEF ArgsInv, ArgsTyped, ArgsOwned

LEMMA RefuseKeeps ==
    ASSUME ArgsInv, Refuse({}), UNCHANGED <<strict, parsed, flagged>>,
           tokens' \in Nat, tokens <= tokens', tokens' <= MaxTokens
    PROVE  ArgsInv'
<1>1. match' = <<>>
  BY DEF Refuse, MatchDestroyed
<1>2. ArgsTyped'
  BY <1>1, CliConstantsOK DEF ArgsInv, ArgsTyped
<1>3. ~flagged => ArgsOwned'
  BY DestroyOwned DEF Refuse, ArgsInv, ArgsTyped
<1>4. QED
  BY <1>2, <1>3 DEF ArgsInv

(* An option with its argument, or a flag.                                 *)
LEMMA ArgumentKeeps ==
    ASSUME ArgsInv, NEW tok, NEW k, Argument(tok, k), pc = "matching", UNCHANGED strict,
           \/ Refuse(Own(tok, k))
           \/ ~strict /\ UNCHANGED <<pc, match, released>>
           \/ /\ UNCHANGED <<pc, released>>
              /\ \E x : /\ x \notin DOMAIN match
                        /\ match' = [id \in DOMAIN match \cup {x} |->
                                       IF id = x THEN <<k>> ELSE match[id]]
    PROVE  ArgsInv'
<1>1. /\ parsed \in Nat /\ tokens \in Nat /\ parsed <= tokens /\ MaxTokens \in Nat
      /\ flagged \in BOOLEAN
  BY CliConstantsOK DEF ArgsInv, ArgsTyped
<1>2. pc' \notin {"matching", "matched"} => match' = <<>>
  BY DEF Refuse, MatchDestroyed
<1>3. CASE Option(tok).arg
  <2>1. /\ k = parsed + 1 /\ parsed' = k /\ tokens' = tokens + 2 /\ tokens + 2 <= MaxTokens
        /\ UNCHANGED flagged
    BY <1>3 DEF Argument, Consume
  <2>2. k <= MaxTokens /\ parsed < MaxTokens
    BY <1>1, <2>1
  <2>3. ArgsTyped'
    BY <1>1, <1>2, <2>1 DEF ArgsTyped
  <2>4. ASSUME ~flagged PROVE ArgsOwned'
    <3>1. CASE Refuse(Own(tok, k))
      <4>1. MatchDestroyed({k})
        BY <1>3, <3>1 DEF Refuse, Own
      <4>2. parsed' = IF {k} = {} THEN parsed ELSE parsed + 1
        BY <2>1
      <4>3. QED
        BY <2>1, <2>2, <2>4, <4>1, <4>2, DestroyOwned
    <3>2. CASE ~Refuse(Own(tok, k))
      BY <2>1, <2>2, <2>4, <3>2, ParsedOwned
    <3>3. QED
      BY <3>1, <3>2
  <2>5. QED
    BY <2>1, <2>3, <2>4 DEF ArgsInv
<1>4. CASE ~Option(tok).arg
  <2>1. flagged' = TRUE /\ UNCHANGED parsed /\ tokens' = tokens + 1 /\ tokens + 1 <= MaxTokens
    BY <1>4 DEF Argument, Consume
  <2>2. ArgsTyped'
    BY <1>1, <1>2, <2>1 DEF ArgsTyped
  <2>3. QED
    BY <2>1, <2>2 DEF ArgsInv
<1>5. QED
  BY <1>3, <1>4

LEMMA ArgsKept == ASSUME ArgsInv, [CliNext]_vars PROVE ArgsInv'
<1>1. /\ tokens \in Nat /\ tokens <= MaxTokens /\ MaxTokens \in Nat
      /\ pc \notin {"matching", "matched"} => match = <<>>
  BY CliConstantsOK DEF ArgsInv, ArgsTyped
<1>2. CASE UNCHANGED vars
  BY <1>1, <1>2, ArgsStay DEF vars, registry, matching
<1>3. CASE CliCreate \/ (\E l \in Lists : AddOptsBegin(l)) \/ AddOptsStep \/ AddOptsUndo
           \/ (\E id : RemoveOpt(id))
  <2>1. UNCHANGED <<strict, match, parsed, released, flagged, tokens>>
        /\ (pc' = pc \/ pc \notin {"matching", "matched"})
    BY <1>3 DEF CliCreate, AddOptsBegin, AddOptsStep, AddOptsUndo, RemoveOpt, matching, Idle
  <2>2. QED
    BY <1>1, <2>1, ArgsStay
<1>4. CASE CliDestroy
  <2>1. /\ match = <<>> /\ match' = <<>> /\ tokens' = 0 /\ parsed' = 0
        /\ released' = [k \in 1 .. MaxTokens |-> 0] /\ UNCHANGED <<flagged, pc>>
    BY <1>1, <1>4 DEF CliDestroy, Idle
  <2>2. DOMAIN match' = {}
    BY <2>1
  <2>3. ArgsTyped'
    BY <1>1, <2>1 DEF ArgsTyped, ArgsInv
  <2>4. ArgsOwned'
    BY <1>1, <2>1, <2>2 DEF ArgsOwned, Held
  <2>5. QED
    BY <2>3, <2>4 DEF ArgsInv
<1>5. ASSUME NEW tok, MatchOutside(tok) \/ MatchUnknown(tok) \/ MatchFreed(tok)
                       \/ MatchHelp(tok) \/ MatchNoArg(tok) \/ MatchBadArg(tok)
      PROVE  ArgsInv'
  <2>1. /\ UNCHANGED <<strict, parsed, flagged>>
        /\ tokens' \in Nat /\ tokens <= tokens' /\ tokens' <= MaxTokens
        /\ Refuse({}) \/ (UNCHANGED <<match, released>> /\ pc' = "matching")
    BY <1>1, <1>5 DEF MatchOutside, MatchUnknown, MatchFreed, MatchHelp, MatchNoArg,
       MatchBadArg, ReportError, Consume, registry, Matching_
  <2>2. QED
    BY <2>1, RefuseKeeps, ArgsStay
<1>6. ASSUME NEW tok, NEW k, MatchRepeated(tok, k) \/ MatchNew(tok, k) \/ MatchNewFails(tok, k)
      PROVE  ArgsInv'
  <2>1. pc = "matching" /\ UNCHANGED strict /\ Argument(tok, k)
    BY <1>6 DEF MatchRepeated, MatchNew, MatchNewFails, registry, Matching_
  <2>2. CASE MatchNew(tok, k)
    BY <2>1, <2>2, ArgumentKeeps DEF MatchNew
  <2>3. CASE MatchRepeated(tok, k) \/ MatchNewFails(tok, k)
    BY <2>1, <2>3, ArgumentKeeps DEF MatchRepeated, MatchNewFails
  <2>4. QED
    BY <1>6, <2>2, <2>3
<1>7. CASE MatchBegin
  BY <1>1, <1>7, ArgsStay DEF MatchBegin, matching, registry, Idle
<1>8. CASE MatchEnd
  <2>1. /\ UNCHANGED <<strict, parsed, flagged, tokens>>
        /\ Refuse({}) \/ (UNCHANGED <<match, released>> /\ pc' = "matched")
    BY <1>8 DEF MatchEnd, registry
  <2>2. QED
    BY <1>1, <2>1, RefuseKeeps, ArgsStay
<1>9. CASE MatchDestroy
  BY <1>1, <1>9, RefuseKeeps DEF MatchDestroy, Refuse, registry
<1>10. QED
  BY <1>2, <1>3, <1>4, <1>5, <1>6, <1>7, <1>8, <1>9 DEF CliNext, MatchStep

(* Whatever is added, removed and matched, by main or another caller and   *)
(* for any options and arguments: as long as only options with an argument *)
(* are matched, data_free is called once at most for each, never while it  *)
(* is in a match, and strict matching forgets none (cli.c:687-803).        *)
THEOREM ArgumentsReleasedOnce == ProgramSpec => []ArgsReleasedOnce
<1>1. ProgramInit => ArgsInv
  BY ArgsInit DEF ProgramInit
<1>2. ArgsInv /\ [ProgramNext]_allVars => ArgsInv'
  BY StepIsCliStep, ArgsKept
<1>3. ArgsInv => ArgsReleasedOnce
  <2>. SUFFICES ASSUME ArgsInv, ~flagged, NEW k \in 1 .. MaxTokens
                PROVE  /\ released[k] + Cardinality(Stored(k)) <= 1
                       /\ strict => (k <= parsed
                                       <=> released[k] + Cardinality(Stored(k)) = 1)
    BY DEF ArgsReleasedOnce
  <2>1. Cardinality(Stored(k)) = IF Held(k) THEN 1 ELSE 0
    BY StoredOnce
  <2>2. /\ released[k] \in 0 .. 1 /\ parsed \in Nat
        /\ released[k] = 1 => k <= parsed /\ ~Held(k)
        /\ strict /\ k <= parsed => released[k] = 1 \/ Held(k)
    BY DEF ArgsInv, ArgsTyped, ArgsOwned
  <2>3. Held(k) => k <= parsed
    BY <2>2 DEF Held, ArgsInv, ArgsOwned
  <2>4. QED
    BY <2>1, <2>2, <2>3
<1>4. QED
  BY <1>1, <1>2, <1>3, PTL DEF ProgramSpec

-----------------------------------------------------------------------------
(* Rings of pointers: adding an item at the back and removing one wherever *)
(* it is keep a ring of any length closed and its other items in their     *)
(* order, and lead the head to the first one.                              *)

(* The ring members of the items at the addresses in A.                    *)
Memory(A) == [next : [A -> A], prev : [A -> A]]

(* The sequence s without its item k.                                      *)
Without(s, k) == [i \in 1 .. Len(s) - 1 |-> IF i < k THEN s[i] ELSE s[i + 1]]

(* listc_add_item_back of an item that listc_init made a ring of its own   *)
(* (listc.h:31-48, 71-78).                                                 *)
THEOREM AddKeepsRing ==
    ASSUME NEW A, Null \notin A, NEW links \in Memory(A), NEW head,
           NEW s \in Seq(A), IsRing(links, head, s),
           NEW x \in A, \A i \in 1 .. Len(s) : s[i] # x,
           links.next[x] = x, links.prev[x] = x
    PROVE  IsRing(BackLinks(links, head, x), BackHead(head, x), Append(s, x))
<1>. DEFINE r == Append(s, x)
            n == Len(s)
            new == BackLinks(links, head, x)
<1>1. n \in Nat /\ s # <<>> <=> n # 0
  OBVIOUS
<1>2. /\ Len(r) = n + 1 /\ r[n + 1] = x /\ r # <<>>
      /\ \A i \in 1 .. n : r[i] = s[i] /\ s[i] \in A
  OBVIOUS
<1>3. Distinct(r)
  BY <1>1, <1>2 DEF Distinct, IsRing
<1>. HIDE DEF r
<1>4. CASE s = <<>>
  <2>1. head = Null /\ new = links /\ BackHead(head, x) = x /\ n = 0
    BY <1>4 DEF IsRing, BackLinks, BackHead
  <2>2. QED
    BY <1>2, <1>3, <2>1 DEF IsRing, NextPlace, r
<1>5. CASE s # <<>>
  <2>1. /\ head = s[1] /\ s[1] \in A /\ s[n] \in A /\ n >= 1
        /\ links.prev[s[1]] = s[n]
    BY <1>1, <1>2, <1>5 DEF IsRing, NextPlace
  <2>2. head # Null /\ BackHead(head, x) = r[1]
    BY <1>2, <2>1 DEF BackHead
  <2>3. /\ new.next = [links.next EXCEPT ![x] = s[1], ![s[n]] = x]
        /\ new.prev = [links.prev EXCEPT ![x] = s[n], ![s[1]] = x]
    BY <2>1, <2>2 DEF BackLinks, listc_add_before
  <2>. HIDE DEF new
  <2>4. /\ links.next \in [A -> A] /\ links.prev \in [A -> A]
        /\ s[1] # x /\ s[n] # x
    BY <2>1 DEF Memory
  <2>5. /\ \A a \in A : new.next[a] =
               IF a = s[n] THEN x ELSE IF a = x THEN s[1] ELSE links.next[a]
        /\ \A a \in A : new.prev[a] =
               IF a = s[1] THEN x ELSE IF a = x THEN s[n] ELSE links.prev[a]
    BY <2>3, <2>4
  <2>6. ASSUME NEW i \in 1 .. n + 1
        PROVE  /\ new.next[r[i]] = r[NextPlace(r, i)]
               /\ new.prev[r[NextPlace(r, i)]] = r[i]
    <3>1. CASE i = n + 1
      BY <1>2, <2>1, <2>4, <2>5, <3>1 DEF NextPlace
    <3>2. CASE i = n
      BY <1>1, <1>2, <2>1, <2>4, <2>5, <3>2 DEF NextPlace
    <3>3. CASE i \in 1 .. n - 1
      <4>1. /\ i \in 1 .. n /\ i + 1 \in 1 .. n /\ NextPlace(r, i) = i + 1
            /\ NextPlace(s, i) = i + 1 /\ i # n /\ i + 1 # 1
        BY <1>1, <1>2, <3>3 DEF NextPlace
      <4>2. links.next[s[i]] = s[i + 1] /\ links.prev[s[i + 1]] = s[i]
        BY <4>1 DEF IsRing
      <4>3. s[i] # s[n] /\ s[i + 1] # s[1] /\ s[i] # x /\ s[i + 1] # x
        BY <1>1, <2>1, <4>1 DEF IsRing, Distinct
      <4>4. QED
        BY <1>2, <2>5, <4>1, <4>2, <4>3
    <3>4. QED
      BY <1>1, <3>1, <3>2, <3>3
  <2>7. QED
    BY <1>2, <1>3, <2>2, <2>6 DEF IsRing, r, new
<1>6. QED
  BY <1>4, <1>5

(* listc_remove_item of any item, the first and the only one included      *)
(* (listc.h:80-107).                                                       *)
THEOREM RemoveKeepsRing ==
    ASSUME NEW A, Null \notin A, NEW links \in Memory(A), NEW head,
           NEW s \in Seq(A), IsRing(links, head, s), NEW k \in 1 .. Len(s)
    PROVE  IsRing(RemoveLinks(links, head, s[k]), RemoveHead(links, head, s[k]),
                  Without(s, k))
<1>. DEFINE r == Without(s, k)
            n == Len(s)
            x == s[k]
            new == RemoveLinks(links, head, x)
            y == s[NextPlace(s, k)]      \* the item behind x
            p == IF k = 1 THEN n ELSE k - 1
            z == s[p]                    \* the item before x
<1>1. /\ n \in Nat /\ n >= 1 /\ k \in 1 .. n /\ p \in 1 .. n /\ NextPlace(s, k) \in 1 .. n
      /\ NextPlace(s, p) = k
      /\ \A i \in 1 .. n : s[i] \in A
  BY DEF NextPlace
<1>2. /\ head = s[1] /\ head # Null
      /\ links.next[x] = y /\ links.prev[y] = x
      /\ links.next[z] = x /\ links.prev[x] = z
      /\ x \in A /\ y \in A /\ z \in A
  <2>1. s # <<>>
    BY <1>1
  <2>2. QED
    BY <1>1, <2>1 DEF IsRing
<1>3. /\ Len(r) = n - 1
      /\ \A i \in 1 .. n - 1 : r[i] = IF i < k THEN s[i] ELSE s[i + 1]
      /\ n = 1 => r = <<>>
      /\ n # 1 => r # <<>>
  <2>1. /\ DOMAIN r = 1 .. n - 1 /\ r \in Seq(A)
        /\ \A i \in 1 .. n - 1 : r[i] = IF i < k THEN s[i] ELSE s[i + 1]
    BY <1>1 DEF Without
  <2>. HIDE DEF r
  <2>2. Len(r) \in Nat /\ DOMAIN r = 1 .. Len(r)
    BY <2>1
  <2>3. Len(r) = n - 1
    BY <1>1, <2>1, <2>2
  <2>4. QED
    BY <1>1, <2>1, <2>3
<1>. HIDE DEF r
<1>4. Distinct(r)
  BY <1>1, <1>3 DEF Distinct, IsRing
<1>5. /\ new.next = [links.next EXCEPT ![z] = y, ![x] = x]
      /\ new.prev = [links.prev EXCEPT ![y] = z, ![x] = x]
  BY <1>2 DEF RemoveLinks, listc_unlink
<1>6. /\ \A a \in A : new.next[a] = IF a = x THEN x ELSE IF a = z THEN y ELSE links.next[a]
      /\ \A a \in A : new.prev[a] = IF a = x THEN x ELSE IF a = y THEN z ELSE links.prev[a]
  BY <1>2, <1>5 DEF Memory
<1>. HIDE DEF new
<1>7. CASE n = 1
  <2>1. RemoveHead(links, head, x) = Null
    BY <1>1, <1>2, <1>7 DEF RemoveHead, listc_is_empty
  <2>2. QED
    BY <1>3, <1>4, <1>7, <2>1 DEF IsRing, r
<1>8. CASE n # 1
  <2>1. RemoveHead(links, head, x) = r[1]
    <3>1. CASE k = 1
      <4>1. p # 1
        BY <1>1, <1>8, <3>1
      <4>2. z # x
        BY <1>1, <3>1, <4>1 DEF IsRing, Distinct
      <4>3. RemoveHead(links, head, x) = y
        BY <1>2, <3>1, <4>2 DEF RemoveHead, listc_is_empty
      <4>4. r[1] = y
        BY <1>1, <1>3, <1>8, <3>1 DEF NextPlace
      <4>5. QED
        BY <4>3, <4>4
    <3>2. CASE k # 1
      <4>1. head # x
        BY <1>1, <1>2, <3>2 DEF IsRing, Distinct
      <4>2. QED
        BY <1>1, <1>2, <1>3, <1>8, <3>2, <4>1 DEF RemoveHead
    <3>3. QED
      BY <3>1, <3>2
  <2>2. ASSUME NEW i \in 1 .. n - 1
        PROVE  /\ new.next[r[i]] = r[NextPlace(r, i)]
               /\ new.prev[r[NextPlace(r, i)]] = r[i]
    <3>. DEFINE j == IF i < k THEN i ELSE i + 1
    <3>1. /\ j \in 1 .. n /\ j # k /\ r[i] = s[j] /\ NextPlace(s, j) \in 1 .. n
          /\ links.next[s[j]] = s[NextPlace(s, j)] /\ links.prev[s[NextPlace(s, j)]] = s[j]
      BY <1>1, <1>3 DEF IsRing, NextPlace
    <3>2. s[j] # x
      BY <1>1, <3>1 DEF IsRing, Distinct
    <3>3. CASE j = p
      <4>1. r[NextPlace(r, i)] = y
        <5>. DEFINE q == NextPlace(r, i)
        <5>1. q \in 1 .. n - 1 /\ NextPlace(s, k) = IF q < k THEN q ELSE q + 1
          BY <1>1, <1>3, <1>8, <3>3 DEF NextPlace
        <5>. HIDE DEF q
        <5>2. QED
          BY <1>3, <5>1 DEF q
      <4>2. NextPlace(s, k) # k
        BY <1>1, <1>8 DEF NextPlace
      <4>3. y # x
        BY <1>1, <4>2 DEF IsRing, Distinct
      <4>4. QED
        BY <1>2, <1>6, <3>1, <3>2, <3>3, <4>1, <4>3
    <3>4. CASE j # p
      <4>1. r[NextPlace(r, i)] = s[NextPlace(s, j)]
        <5>. DEFINE q == NextPlace(r, i)
        <5>1. q \in 1 .. n - 1 /\ NextPlace(s, j) = IF q < k THEN q ELSE q + 1
          BY <1>1, <1>3, <1>8, <3>4 DEF NextPlace
        <5>. HIDE DEF q
        <5>2. QED
          BY <1>3, <5>1 DEF q
      <4>2. NextPlace(s, j) # k /\ NextPlace(s, j) # NextPlace(s, k)
        BY <1>1, <1>8, <3>1, <3>4 DEF NextPlace
      <4>3. s[j] # z /\ s[NextPlace(s, j)] # x /\ s[NextPlace(s, j)] # y
        BY <1>1, <3>1, <3>4, <4>2 DEF IsRing, Distinct
      <4>4. QED
        BY <1>1, <1>6, <3>1, <3>2, <4>1, <4>3
    <3>5. QED
      BY <3>3, <3>4
  <2>3. QED
    BY <1>3, <1>4, <1>8, <2>1, <2>2 DEF IsRing, r, new
<1>9. QED
  BY <1>7, <1>8

-----------------------------------------------------------------------------
(* A ring as the set of its items                                          *)

Ring(links, head, S, A) ==
    \E s \in Seq(A) : IsRing(links, head, s) /\ S = {s[i] : i \in 1 .. Len(s)}

LEMMA LeastNumber ==
    ASSUME NEW T \in SUBSET Nat, T # {}
    PROVE  \E n \in T : \A m \in T : n <= m
<1>1. \E n \in T : \A m \in T : <<m, n>> \notin OpToRel(<, Nat)
  BY NatLessThanWellFounded, WFMin, Zenon
<1>2. \A m, n \in Nat : m < n => <<m, n>> \in OpToRel(<, Nat)
  BY DEF OpToRel
<1>3. PICK n \in T : \A m \in T : ~(m < n)
  BY <1>1, <1>2
<1>4. QED
  BY <1>3

(* d times around a ring of k items.                                       *)
Rounds(d, k) == d * k

LEMMA Remainder ==
    ASSUME NEW k \in Nat \ {0}, NEW n \in Nat
    PROVE  /\ n \div k \in Nat /\ Rounds(n \div k, k) \in Nat
           /\ n - Rounds(n \div k, k) \in 0 .. k - 1
<1>1. n \div k \in Nat /\ (n \div k) * k <= n /\ n < (n \div k) * k + k
  OBVIOUS
<1>2. (n \div k) * k \in Nat
  BY <1>1
<1>3. QED
  BY <1>1, <1>2 DEF Rounds

LEMMA RoundsRemain ==
    ASSUME NEW k \in Nat \ {0}, NEW d \in Nat, NEW q \in 0 .. k - 1
    PROVE  (Rounds(d, k) + q) % k = q /\ Rounds(d + 1, k) = Rounds(d, k) + k
BY DEF Rounds

(* The remainders of n - 1 and n follow each other.                        *)
LEMMA NextRemainder ==
    ASSUME NEW k \in Nat \ {0}, NEW n \in Nat \ {0}
    PROVE  \E q \in 0 .. k - 1 : (n - 1) % k = q /\ n % k = IF q = k - 1 THEN 0 ELSE q + 1
<1>. DEFINE d == (n - 1) \div k
            q == n - 1 - Rounds(d, k)
<1>1. d \in Nat /\ Rounds(d, k) \in Nat /\ q \in 0 .. k - 1
  <2>1. n - 1 \in Nat
    OBVIOUS
  <2>2. QED
    BY <2>1, Remainder
<1>. HIDE DEF d
<1>2. n = Rounds(d, k) + (q + 1) /\ n - 1 = Rounds(d, k) + q
  BY <1>1
<1>. HIDE DEF q
<1>3. (n - 1) % k = q
  BY <1>1, <1>2, RoundsRemain
<1>4. CASE q = k - 1
  <2>1. n = Rounds(d + 1, k) + 0
    BY <1>1, <1>2, <1>4, RoundsRemain
  <2>2. (Rounds(d + 1, k) + 0) % k = 0
    <3>1. d + 1 \in Nat /\ 0 \in 0 .. k - 1
      BY <1>1
    <3>2. QED
      BY <3>1, RoundsRemain
  <2>3. QED
    BY <1>1, <1>3, <1>4, <2>1, <2>2
<1>5. CASE q # k - 1
  <2>1. q + 1 \in 0 .. k - 1
    BY <1>1, <1>5
  <2>2. (Rounds(d, k) + (q + 1)) % k = q + 1
    BY <1>1, <2>1, RoundsRemain
  <2>3. QED
    BY <1>1, <1>2, <1>3, <1>5, <2>2
<1>6. QED
  BY <1>4, <1>5

LEMMA SmallRemainder == ASSUME NEW k \in Nat, NEW n \in Nat, n < k PROVE n % k = n
  OBVIOUS

(* LISTC_FOREACH visits the items of the ring, however often it goes       *)
(* around.                                                                 *)
LEMMA RingVisited ==
    ASSUME NEW A, IsFiniteSet(A), Null \notin A, NEW links \in Memory(A), NEW head, NEW S,
           Ring(links, head, S, A)
    PROVE  Visited(links, head) = S /\ Closed(links, head)
<1>1. PICK s \in Seq(A) : IsRing(links, head, s) /\ S = {s[i] : i \in 1 .. Len(s)}
  BY DEF Ring
<1>. DEFINE k == Len(s)
            item == CHOOSE f : f = [n \in Nat |-> IF n = 0 THEN head ELSE links.next[f[n - 1]]]
            g == [n \in Nat |-> s[(n % k) + 1]]
<1>2. CASE s = <<>>
  <2>1. head = Null /\ S = {}
    BY <1>1, <1>2 DEF IsRing
  <2>2. Visited(links, head) = {}
    BY <2>1 DEF Visited
  <2>3. QED
    BY <2>1, <2>2 DEF Closed
<1>3. CASE s # <<>>
  <2>1. k \in Nat \ {0} /\ head = s[1] /\ head # Null /\ \A i \in 1 .. k : s[i] \in A
    BY <1>1, <1>3 DEF IsRing
  <2>2. /\ \A i \in 1 .. k : links.next[s[i]] = s[IF i = k THEN 1 ELSE i + 1]
        /\ \A i \in 1 .. k : links.prev[s[IF i = k THEN 1 ELSE i + 1]] = s[i]
    BY <1>1 DEF IsRing, NextPlace
  <2>. HIDE DEF k
  <2>3. ASSUME NEW n \in Nat
        PROVE  g[n] = IF n = 0 THEN head ELSE links.next[g[n - 1]]
    <3>1. CASE n = 0
      BY <2>1, <3>1, SmallRemainder
    <3>2. CASE n # 0
      <4>1. PICK q \in 0 .. k - 1 : q = (n - 1) % k /\ n % k = IF q = k - 1 THEN 0 ELSE q + 1
        BY <2>1, <3>2, NextRemainder
      <4>2. g[n] = s[IF q = k - 1 THEN 1 ELSE q + 2] /\ g[n - 1] = s[q + 1]
        <5>1. (n % k) + 1 = IF q = k - 1 THEN 1 ELSE q + 2
          BY <2>1, <4>1
        <5>2. g[n] = s[(n % k) + 1] /\ n - 1 \in Nat
          BY <3>2
        <5>3. g[n - 1] = s[((n - 1) % k) + 1]
          BY <5>2
        <5>4. QED
          BY <4>1, <5>1, <5>2, <5>3
      <4>3. links.next[s[q + 1]] = s[IF q + 1 = k THEN 1 ELSE q + 2]
        BY <2>1, <2>2, <4>1
      <4>4. (q = k - 1) <=> (q + 1 = k)
        BY <2>1, <4>1
      <4>. HIDE DEF g
      <4>5. QED
        BY <3>2, <4>2, <4>3, <4>4
    <3>3. QED
      BY <3>1, <3>2
  <2>4. g = [n \in Nat |-> IF n = 0 THEN head ELSE links.next[g[n - 1]]]
    BY <2>3
  <2>5. item = [n \in Nat |-> IF n = 0 THEN head ELSE links.next[item[n - 1]]]
    BY <2>4, Zenon
  <2>6. Visited(links, head) = {item[n] : n \in 0 .. Cardinality(DOMAIN links.next) - 1}
    BY <2>1, Zenon DEF Visited
  <2>. HIDE DEF item
  <2>7. \A n \in Nat : item[n] = IF n = 0 THEN head ELSE links.next[item[n - 1]]
    BY <2>5, Zenon
  <2>. HIDE DEF g
  <2>8. \A n \in Nat : item[n] = g[n]
    <3>. DEFINE T == {n \in Nat : item[n] # g[n]}
    <3>. SUFFICES ASSUME T # {} PROVE FALSE
      OBVIOUS
    <3>1. PICK n \in T : \A m \in T : n <= m
      BY LeastNumber
    <3>2. n # 0
      BY <2>3, <2>7
    <3>3. n - 1 \in Nat /\ n - 1 \notin T
      BY <3>1, <3>2
    <3>4. QED
      BY <2>3, <2>7, <3>2, <3>3
  <2>9. \A n \in Nat : item[n] = s[(n % k) + 1]
    BY <2>8 DEF g
  <2>10. DOMAIN links.next = A /\ Cardinality(A) \in Nat /\ k <= Cardinality(A)
    <3>1. DOMAIN links.next = A
      BY DEF Memory
    <3>2. s \in [1 .. k -> A] /\ \A i, j \in 1 .. k : s[i] = s[j] => i = j
      BY <1>1 DEF IsRing, Distinct, k
    <3>3. IsFiniteSet(1 .. k) /\ Cardinality(1 .. k) = k
      BY <2>1, FS_Interval
    <3>4. s \in Injection(1 .. k, A)
      BY <3>2 DEF Injection, IsInjective
    <3>5. Cardinality(1 .. k) <= Cardinality(A)
      BY <3>4, FS_Injection
    <3>6. Cardinality(A) \in Nat
      BY FS_CardinalityType
    <3>7. QED
      BY <3>1, <3>3, <3>5, <3>6
  <2>11. Visited(links, head) = S
    <3>1. ASSUME NEW n \in 0 .. Cardinality(A) - 1 PROVE item[n] \in S
      <4>1. PICK q \in 0 .. k - 1 : n % k = q
        <5>1. CASE n = 0
          BY <2>1, <5>1, SmallRemainder
        <5>2. CASE n # 0
          BY <2>1, <2>10, <5>2, NextRemainder
        <5>3. QED
          BY <5>1, <5>2
      <4>2. item[n] = s[q + 1] /\ q + 1 \in 1 .. k
        <5>1. n \in Nat /\ q + 1 \in 1 .. k
          BY <2>1, <2>10
        <5>2. item[n] = s[(n % k) + 1]
          BY <2>9, <5>1
        <5>3. QED
          BY <4>1, <5>1, <5>2
      <4>3. QED
        BY <1>1, <4>2 DEF k
    <3>2. ASSUME NEW i \in 1 .. k PROVE \E n \in 0 .. Cardinality(A) - 1 : item[n] = s[i]
      <4>1. i - 1 \in 0 .. Cardinality(A) - 1 /\ i - 1 \in Nat /\ (i - 1) % k = i - 1
        BY <2>1, <2>10, SmallRemainder
      <4>2. item[i - 1] = s[((i - 1) % k) + 1] /\ i - 1 + 1 = i
        BY <2>9, <4>1
      <4>3. item[i - 1] = s[i]
        BY <4>1, <4>2
      <4>4. QED
        BY <4>1, <4>3
    <3>3. QED
      BY <1>1, <2>6, <2>10, <3>1, <3>2 DEF k
  <2>12. \A x \in S : links.prev[links.next[x]] = x /\ links.next[links.prev[x]] = x
    <3>1. ASSUME NEW i \in 1 .. k
          PROVE  links.prev[links.next[s[i]]] = s[i] /\ links.next[links.prev[s[i]]] = s[i]
      <4>1. PICK j \in 1 .. k : i = IF j = k THEN 1 ELSE j + 1
        <5>1. CASE i = 1
          BY <2>1, <5>1
        <5>2. CASE i # 1
          BY <2>1, <5>2
        <5>3. QED
          BY <5>1, <5>2
      <4>2. QED
        BY <2>2, <4>1
    <3>2. QED
      BY <1>1, <3>1 DEF k
  <2>13. QED
    BY <2>11, <2>12 DEF Closed
<1>4. QED
  BY <1>2, <1>3

(* Only the pointers of its own items matter to a ring.                    *)
LEMMA RingElsewhere ==
    ASSUME NEW A, NEW links, NEW head, NEW S, Ring(links, head, S, A), NEW new,
           \A x \in S : new.next[x] = links.next[x] /\ new.prev[x] = links.prev[x]
    PROVE  Ring(new, head, S, A)
<1>1. PICK s \in Seq(A) : IsRing(links, head, s) /\ S = {s[i] : i \in 1 .. Len(s)}
  BY DEF Ring
<1>2. \A i \in 1 .. Len(s) : s[i] \in S
  BY <1>1
<1>3. \A i \in 1 .. Len(s) : NextPlace(s, i) \in 1 .. Len(s)
  BY DEF NextPlace
<1>4. IsRing(new, head, s)
  BY <1>1, <1>2, <1>3 DEF IsRing
<1>5. QED
  BY <1>1, <1>4 DEF Ring

LEMMA RingItems ==
    ASSUME NEW A, NEW links, NEW head, NEW S, Ring(links, head, S, A)
    PROVE  /\ S \subseteq A /\ (S = {} => head = Null) /\ (S # {} => head \in S)
           /\ \A x \in S : links.next[x] \in S /\ links.prev[x] \in S
<1>1. PICK s \in Seq(A) : IsRing(links, head, s) /\ S = {s[i] : i \in 1 .. Len(s)}
  BY DEF Ring
<1>2. \A i \in 1 .. Len(s) : s[i] \in A /\ s[i] \in S /\ NextPlace(s, i) \in 1 .. Len(s)
  BY <1>1 DEF NextPlace
<1>3. ASSUME NEW i \in 1 .. Len(s) PROVE links.next[s[i]] \in S /\ links.prev[s[i]] \in S
  <2>1. PICK j \in 1 .. Len(s) : i = NextPlace(s, j)
    <3>1. CASE i = 1
      BY <3>1 DEF NextPlace
    <3>2. CASE i # 1
      BY <3>2 DEF NextPlace
    <3>3. QED
      BY <3>1, <3>2
  <2>2. QED
    BY <1>1, <1>2, <2>1 DEF IsRing
<1>4. (S = {} => s = <<>>) /\ (S # {} => s # <<>> /\ 1 \in 1 .. Len(s))
  BY <1>1
<1>5. QED
  BY <1>1, <1>2, <1>3, <1>4 DEF IsRing

LEMMA RingAdd ==
    ASSUME NEW A, Null \notin A, NEW links \in Memory(A), NEW head, NEW S,
           Ring(links, head, S, A), NEW x \in A, x \notin S,
           links.next[x] = x, links.prev[x] = x
    PROVE  /\ Ring(BackLinks(links, head, x), BackHead(head, x), S \cup {x}, A)
           /\ BackLinks(links, head, x) \in Memory(A) /\ BackHead(head, x) \in A
           /\ \A y \in A : y \notin S /\ y # x =>
                 /\ BackLinks(links, head, x).next[y] = links.next[y]
                 /\ BackLinks(links, head, x).prev[y] = links.prev[y]
<1>1. PICK s \in Seq(A) : IsRing(links, head, s) /\ S = {s[i] : i \in 1 .. Len(s)}
  BY DEF Ring
<1>2. IsRing(BackLinks(links, head, x), BackHead(head, x), Append(s, x))
  <2>1. \A i \in 1 .. Len(s) : s[i] # x
    BY <1>1
  <2>2. QED
    BY <1>1, <2>1, AddKeepsRing
<1>3. Append(s, x) \in Seq(A) /\ S \cup {x} = {Append(s, x)[i] : i \in 1 .. Len(Append(s, x))}
  <2>. DEFINE r == Append(s, x)
  <2>1. /\ r \in Seq(A) /\ Len(r) = Len(s) + 1 /\ r[Len(s) + 1] = x
        /\ \A i \in 1 .. Len(s) : r[i] = s[i]
    OBVIOUS
  <2>. HIDE DEF r
  <2>2. QED
    BY <1>1, <2>1
<1>4. CASE head = Null
  BY <1>2, <1>3, <1>4 DEF Ring, BackLinks, BackHead
<1>5. CASE head # Null
  <2>1. head \in S /\ links.prev[head] \in S /\ S \subseteq A
    BY <1>5, RingItems
  <2>2. /\ links.next \in [A -> A] /\ links.prev \in [A -> A]
        /\ links = [next |-> links.next, prev |-> links.prev]
    BY DEF Memory
  <2>3. /\ BackLinks(links, head, x).next = [links.next EXCEPT ![x] = head, ![links.prev[head]] = x]
        /\ BackLinks(links, head, x).prev = [links.prev EXCEPT ![x] = links.prev[head], ![head] = x]
        /\ BackLinks(links, head, x) \in Memory(A)
    BY <1>5, <2>1, <2>2 DEF BackLinks, listc_add_before, Memory
  <2>4. \A y \in A : y \notin S /\ y # x =>
           /\ BackLinks(links, head, x).next[y] = links.next[y]
           /\ BackLinks(links, head, x).prev[y] = links.prev[y]
    BY <2>1, <2>2, <2>3
  <2>5. BackHead(head, x) \in A
    BY <2>1 DEF BackHead
  <2>6. QED
    BY <1>2, <1>3, <2>3, <2>4, <2>5 DEF Ring
<1>6. QED
  BY <1>4, <1>5

(* The pointers of the items that are not in S.                            *)
SameBut(new, old, S, A) ==
    \A y \in A : y \notin S => new.next[y] = old.next[y] /\ new.prev[y] = old.prev[y]

LEMMA RingRemove ==
    ASSUME NEW A, Null \notin A, NEW links \in Memory(A), NEW head, NEW S,
           Ring(links, head, S, A), NEW x \in S
    PROVE  /\ Ring(RemoveLinks(links, head, x), RemoveHead(links, head, x), S \ {x}, A)
           /\ RemoveLinks(links, head, x) \in Memory(A)
           /\ RemoveHead(links, head, x) \in A \cup {Null}
           /\ SameBut(RemoveLinks(links, head, x), links, S, A)
<1>1. PICK s \in Seq(A) : IsRing(links, head, s) /\ S = {s[i] : i \in 1 .. Len(s)}
  BY DEF Ring
<1>2. PICK k \in 1 .. Len(s) : s[k] = x
  BY <1>1
<1>. DEFINE r == Without(s, k)
<1>3. IsRing(RemoveLinks(links, head, x), RemoveHead(links, head, x), r)
  BY <1>1, <1>2, RemoveKeepsRing
<1>4. /\ Len(s) \in Nat /\ Len(s) >= 1 /\ Len(r) = Len(s) - 1
      /\ \A i \in 1 .. Len(s) - 1 : r[i] = IF i < k THEN s[i] ELSE s[i + 1]
      /\ r \in Seq(A)
  <2>1. Len(s) - 1 \in Nat /\ Len(s) \in Nat /\ Len(s) >= 1
    BY <1>2
  <2>2. r \in [1 .. Len(s) - 1 -> A]
    BY <2>1, <1>2 DEF Without
  <2>3. r \in Seq(A) /\ Len(r) = Len(s) - 1
    <3>. HIDE DEF r
    <3>1. QED
      BY <2>1, <2>2
  <2>4. QED
    BY <2>1, <2>3 DEF Without
<1>. HIDE DEF r
<1>5. S \ {x} = {r[i] : i \in 1 .. Len(r)}
  <2>1. ASSUME NEW i \in 1 .. Len(r) PROVE r[i] \in S \ {x}
    <3>1. \A j \in 1 .. Len(s) : j # k => s[j] \in S /\ s[j] # x
      BY <1>1, <1>2 DEF IsRing, Distinct
    <3>2. CASE i < k
      BY <1>4, <3>1, <3>2
    <3>3. CASE ~(i < k)
      BY <1>4, <3>1, <3>3
    <3>4. QED
      BY <3>2, <3>3
  <2>2. ASSUME NEW y \in S \ {x} PROVE \E i \in 1 .. Len(r) : r[i] = y
    <3>1. PICK j \in 1 .. Len(s) : s[j] = y
      BY <1>1
    <3>2. j # k
      BY <1>2, <3>1
    <3>3. CASE j < k
      BY <1>4, <3>1, <3>3
    <3>4. CASE j > k
      <4>1. j - 1 \in 1 .. Len(r) /\ ~(j - 1 < k) /\ j - 1 + 1 = j
        BY <1>2, <1>4, <3>4
      <4>2. QED
        BY <1>4, <3>1, <4>1
    <3>5. QED
      BY <1>2, <3>2, <3>3, <3>4
  <2>3. QED
    BY <2>1, <2>2
<1>6. /\ S \subseteq A /\ head # Null /\ head \in S
      /\ links.next[x] \in S /\ links.prev[x] \in S /\ x \in A
  BY RingItems
<1>7. /\ links.next \in [A -> A] /\ links.prev \in [A -> A]
      /\ links = [next |-> links.next, prev |-> links.prev]
  BY DEF Memory
<1>8. /\ RemoveLinks(links, head, x).next = [links.next EXCEPT ![links.prev[x]] = links.next[x], ![x] = x]
      /\ RemoveLinks(links, head, x).prev = [links.prev EXCEPT ![links.next[x]] = links.prev[x], ![x] = x]
      /\ RemoveLinks(links, head, x) \in Memory(A)
  BY <1>6, <1>7 DEF RemoveLinks, listc_unlink, Memory
<1>9. \A y \in A : y \notin S =>
         /\ RemoveLinks(links, head, x).next[y] = links.next[y]
         /\ RemoveLinks(links, head, x).prev[y] = links.prev[y]
  BY <1>6, <1>7, <1>8
<1>10. RemoveHead(links, head, x) \in A \cup {Null}
  BY <1>6 DEF RemoveHead
<1>11. SameBut(RemoveLinks(links, head, x), links, S, A)
  BY <1>9 DEF SameBut
<1>12. QED
  BY <1>3, <1>4, <1>5, <1>8, <1>10, <1>11 DEF Ring

(* listc_init of an item that is in no ring.                               *)
LEMMA InitItem ==
    ASSUME NEW A, NEW links \in Memory(A), NEW x \in A
    PROVE  /\ listc_init(links, x) \in Memory(A)
           /\ listc_init(links, x).next[x] = x /\ listc_init(links, x).prev[x] = x
           /\ \A y \in A : y # x => /\ listc_init(links, x).next[y] = links.next[y]
                                    /\ listc_init(links, x).prev[y] = links.prev[y]
BY DEF listc_init, Memory

-----------------------------------------------------------------------------
(* The hash tables                                                         *)

TableType ==
    [heads : [Buckets -> Nodes \cup {Null}], links : Memory(Nodes),
     key : [Nodes -> DOMAIN Hash \cup {Null}], data : [Nodes -> Addresses \cup {Null}],
     used : SUBSET Nodes]

Bucket(t, b) == Visited(t.links, t.heads[b])

(* Each bucket is a ring of nodes in use whose keys belong to the bucket,  *)
(* and no two nodes have the same key.                                     *)
TableInv(t) ==
    /\ t \in TableType
    /\ \A b \in Buckets :
          /\ Ring(t.links, t.heads[b], Bucket(t, b), Nodes)
          /\ \A n \in Bucket(t, b) :
                /\ n \in t.used /\ t.key[n] \in DOMAIN Hash /\ Hash[t.key[n]] = b
                /\ t.data[n] \in Addresses
    /\ \A m, n \in Linked(t) : t.key[m] = t.key[n] => m = n

(* A map with one entry more, or without one.                              *)
With(f, k, d) == [i \in DOMAIN f \cup {k} |-> IF i = k THEN d ELSE f[i]]
Less(f, k) == [i \in DOMAIN f \ {k} |-> f[i]]

LEMMA InBuckets ==
    ASSUME NEW t PROVE \A n : n \in Linked(t) <=> \E b \in Buckets : n \in Bucket(t, b)
BY DEF Linked, Bucket

LEMMA LinkedInUse ==
    ASSUME NEW t, TableInv(t), NEW n \in Linked(t)
    PROVE  /\ n \in t.used /\ n \in Nodes /\ t.key[n] \in DOMAIN Hash
           /\ n \in Bucket(t, Hash[t.key[n]]) /\ Hash[t.key[n]] \in Buckets
           /\ t.data[n] \in Addresses
<1>1. PICK b \in Buckets : n \in Bucket(t, b)
  BY InBuckets
<1>2. QED
  BY <1>1 DEF TableInv, TableType

LEMMA SoundTable == ASSUME NEW t, TableInv(t) PROVE TableSound(t)
<1>1. t.links \in Memory(Nodes)
  BY DEF TableInv, TableType
<1>2. ASSUME NEW b \in Buckets PROVE Closed(t.links, t.heads[b])
  <2>1. Ring(t.links, t.heads[b], Bucket(t, b), Nodes)
    BY DEF TableInv
  <2>2. QED
    BY <1>1, <2>1, RingVisited, HashOK
<1>3. QED
  BY <1>2 DEF TableSound, TableInv, Bucket

(* The map of a table without mention of which node is chosen.             *)
LEMMA MapOf ==
    ASSUME NEW t, TableInv(t)
    PROVE  /\ DOMAIN AsMap(t) = {t.key[n] : n \in Linked(t)}
           /\ \A n \in Linked(t) : AsMap(t)[t.key[n]] = t.data[n]
           /\ AsMap(t) = [k \in DOMAIN AsMap(t) |-> AsMap(t)[k]]
<1>1. ASSUME NEW n \in Linked(t) PROVE AsMap(t)[t.key[n]] = t.data[n]
  <2>1. t.key[n] \in {t.key[m] : m \in Linked(t)}
    OBVIOUS
  <2>2. AsMap(t)[t.key[n]] = t.data[CHOOSE m \in Linked(t) : t.key[m] = t.key[n]]
    BY <2>1 DEF AsMap
  <2>3. (CHOOSE m \in Linked(t) : t.key[m] = t.key[n]) = n
    BY DEF TableInv
  <2>4. QED
    BY <2>2, <2>3
<1>2. QED
  BY <1>1 DEF AsMap

Reads(f, t) ==
    /\ f = [k \in DOMAIN f |-> f[k]]
    /\ DOMAIN f = {t.key[n] : n \in Linked(t)}
    /\ \A n \in Linked(t) : f[t.key[n]] = t.data[n]

LEMMA MapIs == ASSUME NEW t, TableInv(t), NEW f, Reads(f, t) PROVE AsMap(t) = f
<1>. USE DEF Reads
<1>1. DOMAIN AsMap(t) = DOMAIN f /\ AsMap(t) = [k \in DOMAIN f |-> AsMap(t)[k]]
  BY MapOf
<1>2. ASSUME NEW k \in DOMAIN f PROVE AsMap(t)[k] = f[k]
  <2>1. PICK n \in Linked(t) : k = t.key[n]
    OBVIOUS
  <2>2. AsMap(t)[t.key[n]] = t.data[n]
    BY MapOf
  <2>3. QED
    BY <2>1, <2>2
<1>3. QED
  BY <1>1, <1>2

(* The loops over the ring of a bucket find the node of a key.             *)
LEMMA MatchingIs ==
    ASSUME NEW t, TableInv(t), NEW k \in DOMAIN Hash
    PROVE  /\ Matching(t, k) = {n \in Linked(t) : t.key[n] = k}
           /\ Matching(t, k) # {} <=> k \in DOMAIN AsMap(t)
           /\ \A n \in Matching(t, k) : Matching(t, k) = {n}
<1>1. Matching(t, k) = {n \in Bucket(t, Hash[k]) : t.key[n] = k} /\ Hash[k] \in Buckets
  BY HashOK DEF Matching, Bucket
<1>2. Matching(t, k) = {n \in Linked(t) : t.key[n] = k}
  <2>1. \A n \in Bucket(t, Hash[k]) : n \in Linked(t)
    BY <1>1, InBuckets
  <2>2. \A n \in Linked(t) : t.key[n] = k => n \in Bucket(t, Hash[k])
    BY LinkedInUse
  <2>3. QED
    BY <1>1, <2>1, <2>2
<1>3. \A m, n \in Linked(t) : t.key[m] = t.key[n] => m = n
  BY DEF TableInv
<1>4. Matching(t, k) # {} <=> k \in DOMAIN AsMap(t)
  <2>1. DOMAIN AsMap(t) = {t.key[n] : n \in Linked(t)}
    BY MapOf
  <2>2. QED
    BY <1>2, <2>1
<1>5. QED
  BY <1>2, <1>3, <1>4

LEMMA GetIs ==
    ASSUME NEW t, TableInv(t), NEW k \in DOMAIN Hash
    PROVE  cli_hash_table_get(t, k) = IF k \in DOMAIN AsMap(t) THEN AsMap(t)[k] ELSE Null
<1>1. CASE Matching(t, k) = {}
  BY <1>1, MatchingIs DEF cli_hash_table_get
<1>2. CASE Matching(t, k) # {}
  <2>1. PICK n \in Matching(t, k) : TRUE
    BY <1>2
  <2>2. Matching(t, k) = {n} /\ n \in Linked(t) /\ t.key[n] = k /\ k \in DOMAIN AsMap(t)
    BY <2>1, MatchingIs
  <2>3. (CHOOSE m \in Matching(t, k) : TRUE) = n
    BY <2>2
  <2>4. cli_hash_table_get(t, k) = t.data[n]
    BY <1>2, <2>3 DEF cli_hash_table_get
  <2>5. QED
    BY <2>2, <2>4, MapOf
<1>3. QED
  BY <1>1, <1>2

LEMMA MapTyped ==
    ASSUME NEW t, TableInv(t)
    PROVE  /\ DOMAIN AsMap(t) \subseteq DOMAIN Hash
           /\ \A k \in DOMAIN AsMap(t) : AsMap(t)[k] \in Addresses
<1>1. DOMAIN AsMap(t) = {t.key[n] : n \in Linked(t)}
  BY MapOf
<1>2. ASSUME NEW n \in Linked(t)
      PROVE  t.key[n] \in DOMAIN Hash /\ AsMap(t)[t.key[n]] \in Addresses
  <2>1. AsMap(t)[t.key[n]] = t.data[n]
    BY MapOf
  <2>2. QED
    BY <2>1, LinkedInUse
<1>3. QED
  BY <1>1, <1>2

(* A table whose buckets are known.                                        *)
Holds(t, R) ==
    /\ t \in TableType
    /\ \A b \in Buckets :
          /\ Ring(t.links, t.heads[b], R[b], Nodes)
          /\ \A n \in R[b] :
                /\ n \in t.used /\ t.key[n] \in DOMAIN Hash /\ Hash[t.key[n]] = b
                /\ t.data[n] \in Addresses
          /\ \A m, n \in R[b] : t.key[m] = t.key[n] => m = n

LEMMA TableFrom ==
    ASSUME NEW t, NEW R, Holds(t, R)
    PROVE  TableInv(t) /\ \A b \in Buckets : Bucket(t, b) = R[b]
<1>. USE DEF Holds
<1>1. ASSUME NEW b \in Buckets PROVE Bucket(t, b) = R[b]
  <2>1. t.links \in Memory(Nodes)
    BY DEF TableType
  <2>2. Ring(t.links, t.heads[b], R[b], Nodes)
    OBVIOUS
  <2>3. QED
    BY <2>1, <2>2, RingVisited, HashOK DEF Bucket
<1>2. ASSUME NEW m \in Linked(t), NEW n \in Linked(t), t.key[m] = t.key[n] PROVE m = n
  <2>1. PICK b \in Buckets : m \in R[b]
    BY <1>1, InBuckets
  <2>2. PICK c \in Buckets : n \in R[c]
    BY <1>1, InBuckets
  <2>3. b = c
    BY <1>2, <2>1, <2>2
  <2>4. QED
    BY <1>2, <2>1, <2>2, <2>3
<1>3. QED
  BY <1>1, <1>2 DEF TableInv

LEMMA EmptyTable == TableInv(cli_hash_table_create) /\ AsMap(cli_hash_table_create) = <<>>
<1>. DEFINE t == cli_hash_table_create
            R == [b \in Buckets |-> {}]
<1>1. t \in TableType /\ t.heads = [b \in Buckets |-> Null]
  BY DEF cli_hash_table_create, TableType, Memory
<1>2. \A l : Ring(l, Null, {}, Nodes)
  <2>1. <<>> \in Seq(Nodes) /\ Len(<<>>) = 0
    OBVIOUS
  <2>2. \A l : IsRing(l, Null, <<>>)
    BY <2>1 DEF IsRing, Distinct
  <2>3. {<<>>[i] : i \in 1 .. Len(<<>>)} = {}
    BY <2>1
  <2>4. QED
    BY <2>1, <2>2, <2>3 DEF Ring
<1>. HIDE DEF t
<1>3. TableInv(t) /\ \A b \in Buckets : Bucket(t, b) = {}
  <2>1. \A b \in Buckets : Ring(t.links, t.heads[b], R[b], Nodes) /\ R[b] = {}
    BY <1>1, <1>2
  <2>. HIDE DEF R
  <2>2. Holds(t, R)
    BY <1>1, <2>1 DEF Holds
  <2>3. QED
    BY <2>1, <2>2, TableFrom
<1>4. Linked(t) = {}
  BY <1>3, InBuckets
<1>5. AsMap(t) = <<>>
  <2>1. DOMAIN AsMap(t) = {t.key[n] : n \in Linked(t)}
    BY <1>3, MapOf
  <2>2. DOMAIN AsMap(t) = {}
    BY <1>4, <2>1
  <2>3. AsMap(t) = [k \in DOMAIN AsMap(t) |-> AsMap(t)[k]]
    BY <1>3, MapOf
  <2>4. QED
    BY <2>2, <2>3
<1>6. QED
  BY <1>3, <1>5 DEF t

(* A node is allocated and filled; no bucket knows of it.                  *)
LEMMA FilledTable ==
    ASSUME NEW t, TableInv(t), NEW n \in Nodes, n \notin t.used,
           NEW k \in DOMAIN Hash, NEW d \in Addresses
    PROVE  /\ TableInv(Filled(t, n, k, d)) /\ AsMap(Filled(t, n, k, d)) = AsMap(t)
           /\ n \in Filled(t, n, k, d).used /\ n \notin Linked(Filled(t, n, k, d))
           /\ Filled(t, n, k, d).key[n] = k /\ Filled(t, n, k, d).data[n] = d
           /\ Filled(t, n, k, d).links.next[n] = n /\ Filled(t, n, k, d).links.prev[n] = n
<1>. DEFINE u == Filled(t, n, k, d)
<1>1. /\ t \in TableType /\ t.links \in Memory(Nodes) /\ t.key \in [Nodes -> DOMAIN Hash \cup {Null}]
      /\ t.data \in [Nodes -> Addresses \cup {Null}] /\ t.used \subseteq Nodes
  BY DEF TableInv, TableType
<1>2. /\ listc_init(t.links, n) \in Memory(Nodes)
      /\ listc_init(t.links, n).next[n] = n /\ listc_init(t.links, n).prev[n] = n
      /\ \A y \in Nodes : y # n => /\ listc_init(t.links, n).next[y] = t.links.next[y]
                                   /\ listc_init(t.links, n).prev[y] = t.links.prev[y]
  BY <1>1, InitItem
<1>3. /\ u \in TableType /\ u.heads = t.heads /\ u.links = listc_init(t.links, n)
      /\ u.key = [t.key EXCEPT ![n] = k] /\ u.data = [t.data EXCEPT ![n] = d]
      /\ u.used = t.used \cup {n}
  BY <1>1, <1>2 DEF Filled, TableType
<1>4. \A b \in Buckets : n \notin Bucket(t, b) /\ Bucket(t, b) \subseteq Nodes
  BY <1>1 DEF TableInv
<1>. HIDE DEF u
<1>5. ASSUME NEW b \in Buckets
      PROVE  /\ Ring(u.links, u.heads[b], Bucket(t, b), Nodes)
             /\ \A m \in Bucket(t, b) : /\ m \in u.used /\ u.key[m] = t.key[m]
                                        /\ u.data[m] = t.data[m]
                                        /\ m \in t.used /\ t.key[m] \in DOMAIN Hash
                                        /\ Hash[t.key[m]] = b /\ t.data[m] \in Addresses
  <2>1. /\ Ring(t.links, t.heads[b], Bucket(t, b), Nodes)
        /\ \A m \in Bucket(t, b) : /\ m \in t.used /\ t.key[m] \in DOMAIN Hash
                                   /\ Hash[t.key[m]] = b /\ t.data[m] \in Addresses
    BY DEF TableInv
  <2>2. \A m \in Bucket(t, b) : m \in Nodes /\ m # n
    BY <1>4
  <2>3. \A m \in Bucket(t, b) : /\ u.links.next[m] = t.links.next[m]
                                /\ u.links.prev[m] = t.links.prev[m]
    BY <1>2, <1>3, <2>2
  <2>4. Ring(u.links, u.heads[b], Bucket(t, b), Nodes)
    BY <1>3, <2>1, <2>3, RingElsewhere
  <2>5. QED
    BY <1>1, <1>3, <2>1, <2>2, <2>4
<1>6. \A b \in Buckets : \A m, o \in Bucket(t, b) : t.key[m] = t.key[o] => m = o
  BY InBuckets DEF TableInv
<1>. DEFINE R == [b \in Buckets |-> Bucket(t, b)]
<1>7. TableInv(u) /\ \A b \in Buckets : Bucket(u, b) = Bucket(t, b)
  <2>1. \A b \in Buckets : R[b] = Bucket(t, b)
    OBVIOUS
  <2>. HIDE DEF R
  <2>2. \A b \in Buckets : /\ Ring(u.links, u.heads[b], R[b], Nodes)
                           /\ \A m \in R[b] : /\ m \in u.used /\ u.key[m] \in DOMAIN Hash
                                              /\ Hash[u.key[m]] = b /\ u.data[m] \in Addresses
    BY <1>5, <2>1
  <2>3. \A b \in Buckets : \A m, o \in R[b] : u.key[m] = u.key[o] => m = o
    BY <1>5, <1>6, <2>1
  <2>4. Holds(u, R)
    BY <1>3, <2>2, <2>3 DEF Holds
  <2>4a. TableInv(u) /\ \A b \in Buckets : Bucket(u, b) = R[b]
    BY <2>4, TableFrom
  <2>5. QED
    BY <2>1, <2>4a
<1>8. Linked(u) = Linked(t) /\ n \notin Linked(t)
  BY <1>4, <1>7, InBuckets
<1>9. \A m \in Linked(t) : u.key[m] = t.key[m] /\ u.data[m] = t.data[m]
  BY <1>5, InBuckets
<1>10. AsMap(u) = AsMap(t)
  <2>1. /\ DOMAIN AsMap(t) = {t.key[m] : m \in Linked(t)}
        /\ \A m \in Linked(t) : AsMap(t)[t.key[m]] = t.data[m]
        /\ AsMap(t) = [i \in DOMAIN AsMap(t) |-> AsMap(t)[i]]
    BY MapOf
  <2>2. Reads(AsMap(t), u)
    BY <1>8, <1>9, <2>1 DEF Reads
  <2>3. QED
    BY <1>7, <2>2, MapIs
<1>11. QED
  BY <1>1, <1>2, <1>3, <1>7, <1>8, <1>10 DEF u

(* A filled node gets into its bucket.                                     *)
InBucket(t, k, n) == [t EXCEPT !.heads[Hash[k]] = BackHead(@, n),
                               !.links = BackLinks(@, t.heads[Hash[k]], n)]

LEMMA LinkedTable ==
    ASSUME NEW t, TableInv(t), NEW n \in t.used, n \notin Linked(t),
           NEW k \in DOMAIN Hash, k \notin DOMAIN AsMap(t),
           t.key[n] = k, t.data[n] \in Addresses,
           t.links.next[n] = n, t.links.prev[n] = n
    PROVE  TableInv(InBucket(t, k, n)) /\ AsMap(InBucket(t, k, n)) = With(AsMap(t), k, t.data[n])
<1>. DEFINE u == InBucket(t, k, n)
            c == Hash[k]
            head == t.heads[c]
<1>1. /\ t \in TableType /\ t.links \in Memory(Nodes) /\ t.used \subseteq Nodes /\ n \in Nodes
      /\ t.heads \in [Buckets -> Nodes \cup {Null}] /\ c \in Buckets
  BY HashOK DEF TableInv, TableType
<1>2. \A b \in Buckets : n \notin Bucket(t, b)
  BY InBuckets
<1>3. /\ Ring(BackLinks(t.links, head, n), BackHead(head, n), Bucket(t, c) \cup {n}, Nodes)
      /\ BackLinks(t.links, head, n) \in Memory(Nodes) /\ BackHead(head, n) \in Nodes
      /\ \A y \in Nodes : y \notin Bucket(t, c) /\ y # n =>
            /\ BackLinks(t.links, head, n).next[y] = t.links.next[y]
            /\ BackLinks(t.links, head, n).prev[y] = t.links.prev[y]
  <2>1. Ring(t.links, head, Bucket(t, c), Nodes) /\ n \notin Bucket(t, c) /\ Null \notin Nodes
    BY <1>1, <1>2, HashOK DEF TableInv
  <2>2. t.links \in Memory(Nodes) /\ n \in Nodes /\ t.links.next[n] = n /\ t.links.prev[n] = n
    BY <1>1
  <2>. HIDE DEF head, c, u
  <2>3. QED
    BY ONLY <2>1, <2>2, RingAdd
<1>4. /\ u \in TableType /\ u.heads = [t.heads EXCEPT ![c] = BackHead(head, n)]
      /\ u.links = BackLinks(t.links, head, n)
      /\ u.key = t.key /\ u.data = t.data /\ u.used = t.used
  BY <1>1, <1>3 DEF TableType, InBucket
<1>. HIDE DEF c, head, u
<1>. DEFINE R == [b \in Buckets |-> IF b = c THEN Bucket(t, b) \cup {n} ELSE Bucket(t, b)]
<1>5. ASSUME NEW b \in Buckets
      PROVE  /\ Ring(u.links, u.heads[b], R[b], Nodes)
             /\ \A m \in R[b] : /\ m \in u.used /\ u.key[m] \in DOMAIN Hash
                                /\ Hash[u.key[m]] = b /\ u.data[m] \in Addresses
             /\ \A m, o \in R[b] : u.key[m] = u.key[o] => m = o
  <2>1. /\ Ring(t.links, t.heads[b], Bucket(t, b), Nodes)
        /\ \A m \in Bucket(t, b) : /\ m \in t.used /\ t.key[m] \in DOMAIN Hash
                                   /\ Hash[t.key[m]] = b /\ t.data[m] \in Addresses
        /\ \A m \in Bucket(t, b) : m \in Linked(t)
    BY InBuckets DEF TableInv
  <2>2. \A m, o \in Bucket(t, b) : t.key[m] = t.key[o] => m = o
    BY <2>1 DEF TableInv
  <2>3. CASE b = c
    <3>1. \A m \in Bucket(t, b) : t.key[m] # k
      <4>1. \A m \in Linked(t) : t.key[m] \in DOMAIN AsMap(t)
        BY MapOf
      <4>2. QED
        BY <2>1, <4>1
    <3>2. R[b] = Bucket(t, b) \cup {n} /\ u.heads[b] = BackHead(head, n)
      BY <1>1, <1>4, <2>3
    <3>3. QED
      BY <1>3, <1>4, <2>1, <2>2, <2>3, <3>1, <3>2 DEF c
  <2>4. CASE b # c
    <3>1. R[b] = Bucket(t, b) /\ u.heads[b] = t.heads[b]
      BY <1>1, <1>4, <2>4
    <3>2. ASSUME NEW m \in Bucket(t, b)
          PROVE  u.links.next[m] = t.links.next[m] /\ u.links.prev[m] = t.links.prev[m]
      <4>1. m \notin Bucket(t, c)
        BY <1>1, <2>1, <2>4 DEF TableInv
      <4>2. m # n /\ m \in Nodes
        BY <1>1, <1>2, <2>1
      <4>3. QED
        BY <1>3, <1>4, <4>1, <4>2
    <3>3. Ring(u.links, u.heads[b], R[b], Nodes)
      BY <2>1, <3>1, <3>2, RingElsewhere
    <3>4. QED
      BY <1>4, <2>1, <2>2, <3>1, <3>3
  <2>5. QED
    BY <2>3, <2>4
<1>6. TableInv(u) /\ \A b \in Buckets : Bucket(u, b) = R[b]
  <2>. HIDE DEF R
  <2>1. Holds(u, R)
    BY <1>4, <1>5 DEF Holds
  <2>2. QED
    BY <2>1, TableFrom
<1>7. Linked(u) = Linked(t) \cup {n}
  <2>1. \A b \in Buckets :
           Bucket(u, b) = IF b = c THEN Bucket(t, b) \cup {n} ELSE Bucket(t, b)
    BY <1>6
  <2>. HIDE DEF R
  <2>2. \A m : m \in Linked(u) <=> m \in Linked(t) \/ m = n
    BY <1>1, <2>1, InBuckets
  <2>3. QED
    BY <2>2
<1>. DEFINE f == With(AsMap(t), k, t.data[n])
<1>8. DOMAIN f = DOMAIN AsMap(t) \cup {k} /\ f[k] = t.data[n] /\ f = [i \in DOMAIN f |-> f[i]]
      /\ \A i \in DOMAIN AsMap(t) : f[i] = AsMap(t)[i]
  BY DEF With
<1>. HIDE DEF f
<1>9. DOMAIN AsMap(t) = {t.key[m] : m \in Linked(t)} /\ \A m \in Linked(t) : AsMap(t)[t.key[m]] = t.data[m]
  BY MapOf
<1>10. DOMAIN f = {u.key[m] : m \in Linked(u)}
  BY <1>4, <1>7, <1>8, <1>9
<1>11. \A m \in Linked(u) : f[u.key[m]] = u.data[m]
  BY <1>4, <1>7, <1>8, <1>9
<1>12. Reads(f, u)
  BY <1>8, <1>10, <1>11 DEF Reads
<1>13. AsMap(u) = f
  BY <1>6, <1>12, MapIs
<1>14. QED
  BY <1>6, <1>13 DEF f, u

(* cli_hash_table_insert (cli_hash.c:58-85).                               *)
LEMMA InsertKeeps ==
    ASSUME NEW t, TableInv(t), NEW d \in Addresses, NEW k \in DOMAIN Hash,
           NEW r \in cli_hash_table_insert(t, d, k)
    PROVE  /\ TableInv(r[1]) /\ r[2] \in BOOLEAN
           /\ IF r[2] THEN k \notin DOMAIN AsMap(t) /\ AsMap(r[1]) = With(AsMap(t), k, d)
              ELSE AsMap(r[1]) = AsMap(t)
<1>1. CASE r = <<t, FALSE>>
  BY <1>1
<1>2. CASE FreeNodes(t) # {} /\ r \in Inserted(Filled(t, NewNode(t), k, d), NewNode(t), k)
  <2>. DEFINE n == NewNode(t)
              u == Filled(t, n, k, d)
  <2>1. n \in Nodes /\ n \notin t.used
    <3>1. FreeNodes(t) \in SUBSET Nat /\ FreeNodes(t) # {}
      BY <1>2, HashOK DEF FreeNodes
    <3>2. \E m \in FreeNodes(t) : \A o \in FreeNodes(t) : m <= o
      BY <3>1, LeastNumber
    <3>3. n \in FreeNodes(t)
      BY <3>2 DEF NewNode
    <3>4. QED
      BY <3>3 DEF FreeNodes
  <2>. HIDE DEF n
  <2>2. /\ TableInv(u) /\ AsMap(u) = AsMap(t) /\ n \in u.used /\ n \notin Linked(u)
        /\ u.key[n] = k /\ u.data[n] = d /\ u.links.next[n] = n /\ u.links.prev[n] = n
    BY <2>1, FilledTable
  <2>. HIDE DEF u
  <2>3. r \in Inserted(u, n, k)
    BY <1>2 DEF u, n
  <2>4. CASE Matching(u, k) # {}
    <3>1. r = <<u, FALSE>>
      BY <2>3, <2>4 DEF Inserted
    <3>2. QED
      BY <2>2, <3>1
  <2>5. CASE Matching(u, k) = {}
    <3>1. k \notin DOMAIN AsMap(u)
      BY <2>2, <2>5, MatchingIs
    <3>2. TableInv(InBucket(u, k, n)) /\ AsMap(InBucket(u, k, n)) = With(AsMap(u), k, u.data[n])
      BY <2>2, <3>1, LinkedTable
    <3>3. r = <<InBucket(u, k, n), TRUE>>
      BY <2>3, <2>5 DEF Inserted, InBucket
    <3>4. QED
      BY <2>2, <3>1, <3>2, <3>3
  <2>6. QED
    BY <2>4, <2>5
<1>3. QED
  BY <1>1, <1>2 DEF cli_hash_table_insert

(* cli_hash_table_remove (cli_hash.c:87-112).                              *)
LEMMA RemoveKeeps ==
    ASSUME NEW t, TableInv(t), NEW k \in DOMAIN Hash
    PROVE  /\ TableInv(cli_hash_table_remove(t, k))
           /\ AsMap(cli_hash_table_remove(t, k)) = Less(AsMap(t), k)
<1>. DEFINE u == cli_hash_table_remove(t, k)
            c == Hash[k]
            head == t.heads[c]
<1>1. CASE Matching(t, k) = {}
  <2>1. u = t /\ k \notin DOMAIN AsMap(t)
    BY <1>1, MatchingIs DEF cli_hash_table_remove
  <2>2. AsMap(t) = [i \in DOMAIN AsMap(t) |-> AsMap(t)[i]]
    BY MapOf
  <2>3. DOMAIN AsMap(t) \ {k} = DOMAIN AsMap(t)
    BY <2>1
  <2>4. Less(AsMap(t), k) = AsMap(t)
    BY <2>2, <2>3 DEF Less
  <2>5. QED
    BY <2>1, <2>4
<1>2. CASE Matching(t, k) # {}
  <2>1. PICK n \in Matching(t, k) : TRUE
    BY <1>2
  <2>2. /\ Matching(t, k) = {n} /\ n \in Linked(t) /\ t.key[n] = k
        /\ \A m \in Linked(t) : t.key[m] = k => m = n
    BY <2>1, MatchingIs DEF TableInv
  <2>3. (CHOOSE m \in Matching(t, k) : TRUE) = n
    BY <2>2
  <2>4. u = [t EXCEPT !.heads[c] = RemoveHead(t.links, @, n),
                      !.links = RemoveLinks(@, head, n),
                      !.used = @ \ {n}]
    BY <1>2, <2>3 DEF cli_hash_table_remove
  <2>. HIDE DEF u
  <2>5. /\ t \in TableType /\ t.links \in Memory(Nodes) /\ t.used \subseteq Nodes
        /\ t.heads \in [Buckets -> Nodes \cup {Null}] /\ c \in Buckets
        /\ n \in Bucket(t, c) /\ Null \notin Nodes
        /\ Ring(t.links, head, Bucket(t, c), Nodes)
    BY <2>2, LinkedInUse, HashOK DEF TableInv, TableType
  <2>. HIDE DEF c, head
  <2>6. /\ Ring(RemoveLinks(t.links, head, n), RemoveHead(t.links, head, n),
                Bucket(t, c) \ {n}, Nodes)
        /\ RemoveLinks(t.links, head, n) \in Memory(Nodes)
        /\ RemoveHead(t.links, head, n) \in Nodes \cup {Null}
        /\ \A y \in Nodes : y \notin Bucket(t, c) =>
              /\ RemoveLinks(t.links, head, n).next[y] = t.links.next[y]
              /\ RemoveLinks(t.links, head, n).prev[y] = t.links.prev[y]
    <3>1. /\ Ring(RemoveLinks(t.links, head, n), RemoveHead(t.links, head, n),
                  Bucket(t, c) \ {n}, Nodes)
          /\ RemoveLinks(t.links, head, n) \in Memory(Nodes)
          /\ RemoveHead(t.links, head, n) \in Nodes \cup {Null}
          /\ SameBut(RemoveLinks(t.links, head, n), t.links, Bucket(t, c), Nodes)
      BY ONLY <2>5, RingRemove
    <3>2. QED
      BY ONLY <3>1 DEF SameBut
  <2>7. /\ u \in TableType /\ u.heads = [t.heads EXCEPT ![c] = RemoveHead(t.links, head, n)]
        /\ u.links = RemoveLinks(t.links, head, n)
        /\ u.key = t.key /\ u.data = t.data /\ u.used = t.used \ {n}
    BY <2>4, <2>5, <2>6 DEF TableType, head
  <2>. DEFINE R == [b \in Buckets |-> Bucket(t, b) \ {n}]
  <2>8. ASSUME NEW b \in Buckets
        PROVE  /\ Ring(u.links, u.heads[b], R[b], Nodes)
               /\ \A m \in R[b] : /\ m \in u.used /\ u.key[m] \in DOMAIN Hash
                                  /\ Hash[u.key[m]] = b /\ u.data[m] \in Addresses
               /\ \A m, o \in R[b] : u.key[m] = u.key[o] => m = o
    <3>1. /\ Ring(t.links, t.heads[b], Bucket(t, b), Nodes)
          /\ \A m \in Bucket(t, b) : /\ m \in t.used /\ t.key[m] \in DOMAIN Hash
                                     /\ Hash[t.key[m]] = b /\ t.data[m] \in Addresses
          /\ \A m \in Bucket(t, b) : m \in Linked(t)
      BY InBuckets DEF TableInv
    <3>2. \A m, o \in Bucket(t, b) : t.key[m] = t.key[o] => m = o
      BY <3>1 DEF TableInv
    <3>3. /\ \A m \in R[b] : /\ m \in u.used /\ u.key[m] \in DOMAIN Hash
                             /\ Hash[u.key[m]] = b /\ u.data[m] \in Addresses
          /\ \A m, o \in R[b] : u.key[m] = u.key[o] => m = o
      BY <2>7, <3>1, <3>2
    <3>4. CASE b = c
      BY <2>5, <2>6, <2>7, <3>3, <3>4
    <3>5. CASE b # c
      <4>1. n \notin Bucket(t, b)
        BY <2>5, <3>1, <3>5 DEF TableInv
      <4>2. R[b] = Bucket(t, b) /\ u.heads[b] = t.heads[b]
        BY <2>5, <2>7, <3>5, <4>1
      <4>3. ASSUME NEW m \in Bucket(t, b)
            PROVE  u.links.next[m] = t.links.next[m] /\ u.links.prev[m] = t.links.prev[m]
        <5>1. m \notin Bucket(t, c) /\ m \in Nodes
          BY <2>5, <3>1, <3>5 DEF TableInv
        <5>2. QED
          BY <2>6, <2>7, <5>1
      <4>. HIDE DEF R
      <4>4. Ring(u.links, t.heads[b], Bucket(t, b), Nodes)
        BY <3>1, <4>3, RingElsewhere
      <4>5. QED
        BY <3>3, <4>2, <4>4
    <3>6. QED
      BY <3>4, <3>5
  <2>9. TableInv(u) /\ \A b \in Buckets : Bucket(u, b) = Bucket(t, b) \ {n}
    <3>1. \A b \in Buckets : R[b] = Bucket(t, b) \ {n}
      OBVIOUS
    <3>. HIDE DEF R
    <3>2. Holds(u, R)
      BY <2>7, <2>8 DEF Holds
    <3>3. QED
      BY <3>1, <3>2, TableFrom
  <2>10. Linked(u) = Linked(t) \ {n}
    <3>1. \A m : m \in Linked(u) <=> m \in Linked(t) /\ m # n
      BY <2>9, InBuckets
    <3>2. QED
      BY <3>1
  <2>. DEFINE f == Less(AsMap(t), k)
  <2>11. /\ DOMAIN f = DOMAIN AsMap(t) \ {k} /\ f = [i \in DOMAIN f |-> f[i]]
         /\ \A i \in DOMAIN f : f[i] = AsMap(t)[i]
    BY DEF Less
  <2>. HIDE DEF f
  <2>12. /\ DOMAIN AsMap(t) = {t.key[m] : m \in Linked(t)}
         /\ \A m \in Linked(t) : AsMap(t)[t.key[m]] = t.data[m]
    BY MapOf
  <2>13. DOMAIN f = {u.key[m] : m \in Linked(u)}
    BY <2>2, <2>7, <2>10, <2>11, <2>12
  <2>14. \A m \in Linked(u) : f[u.key[m]] = u.data[m]
    BY <2>7, <2>10, <2>11, <2>12, <2>13
  <2>15. Reads(f, u)
    BY <2>11, <2>13, <2>14 DEF Reads
  <2>16. QED
    BY <2>9, <2>15, MapIs DEF f, u
<1>3. QED
  BY <1>1, <1>2

-----------------------------------------------------------------------------
(* The registry of options                                                 *)

RegType ==
    [opt : [Addresses -> Options \cup {Null}], ring : Memory(Addresses),
     optional : Addresses \cup {Null}, required : Addresses \cup {Null},
     ids : TableType, longs : TableType, short : [ShortNames -> Addresses \cup {Null}]]

Living(R) == {n \in Addresses : R.opt[n] # Null}

RequiredOf(R, S) == {n \in S : R.opt[n].required}
OptionalOf(R, S) == {n \in S : ~R.opt[n].required}

(* The options at the addresses in S, and no others, are in the rings and  *)
(* in the tables, each under its names.                                    *)
RegOf(R, S) ==
    /\ S \subseteq Addresses /\ \A n \in S : R.opt[n] \in Options
    /\ Ring(R.ring, R.required, RequiredOf(R, S), Addresses)
    /\ Ring(R.ring, R.optional, OptionalOf(R, S), Addresses)
    /\ TableInv(R.ids) /\ TableInv(R.longs)
    /\ \A n \in S : R.opt[n].id \in DOMAIN AsMap(R.ids) /\ AsMap(R.ids)[R.opt[n].id] = n
    /\ \A i \in DOMAIN AsMap(R.ids) :
          AsMap(R.ids)[i] \in S /\ R.opt[AsMap(R.ids)[i]].id = i
    /\ \A n \in S : R.opt[n].long # None =>
          R.opt[n].long \in DOMAIN AsMap(R.longs) /\ AsMap(R.longs)[R.opt[n].long] = n
    /\ \A i \in DOMAIN AsMap(R.longs) :
          /\ i # None /\ AsMap(R.longs)[i] \in S
          /\ R.opt[AsMap(R.longs)[i]].long = i
    /\ \A n \in S : R.opt[n].short # None => R.short[R.opt[n].short] = n

(* But for the names in T, a short name leads to the option that has it.   *)
ShortOf(R, S, T) ==
    \A c \in ShortNames \ T :
        R.short[c] # Null => R.short[c] \in S /\ R.opt[R.short[c]].short = c

RegInv(R) == R \in RegType /\ RegOf(R, Living(R))

(* A node was allocated and freed again.                                   *)
Unadded(R, Q) ==
    /\ Q \in RegType
    /\ Q.opt = R.opt /\ Q.short = R.short
    /\ Q.required = R.required /\ Q.optional = R.optional
    /\ \A n \in Living(R) : Q.ring.next[n] = R.ring.next[n] /\ Q.ring.prev[n] = R.ring.prev[n]
    /\ TableInv(Q.ids) /\ AsMap(Q.ids) = AsMap(R.ids)
    /\ TableInv(Q.longs) /\ AsMap(Q.longs) = AsMap(R.longs)

(* The option o was added, at the address n.                               *)
AddedTo(R, Q, n, o) ==
    /\ Q \in RegType
    /\ n \in Addresses /\ R.opt[n] = Null /\ Q.opt = [R.opt EXCEPT ![n] = o]
    /\ o.short # None => R.short[o.short] = Null
    /\ Q.short = IF o.short = None THEN R.short ELSE [R.short EXCEPT ![o.short] = n]
    /\ Ring(Q.ring, Q.required,
            IF o.required THEN RequiredOf(R, Living(R)) \cup {n} ELSE RequiredOf(R, Living(R)),
            Addresses)
    /\ Ring(Q.ring, Q.optional,
            IF o.required THEN OptionalOf(R, Living(R)) ELSE OptionalOf(R, Living(R)) \cup {n},
            Addresses)
    /\ TableInv(Q.ids) /\ TableInv(Q.longs)
    /\ o.id \notin DOMAIN AsMap(R.ids) /\ AsMap(Q.ids) = With(AsMap(R.ids), o.id, n)
    /\ IF o.long = None THEN AsMap(Q.longs) = AsMap(R.longs)
       ELSE o.long \notin DOMAIN AsMap(R.longs) /\ AsMap(Q.longs) = With(AsMap(R.longs), o.long, n)

LEMMA UnaddedKeeps ==
    ASSUME NEW R, RegInv(R), NEW Q, Unadded(R, Q)
    PROVE  RegInv(Q) /\ Living(Q) = Living(R)
           /\ \A T : ShortOf(R, Living(R), T) => ShortOf(Q, Living(Q), T)
<1>. DEFINE S == Living(R)
<1>1. Living(Q) = S
  BY DEF Living, Unadded
<1>2. /\ RequiredOf(Q, S) = RequiredOf(R, S) /\ OptionalOf(Q, S) = OptionalOf(R, S)
      /\ RequiredOf(R, S) \subseteq S /\ OptionalOf(R, S) \subseteq S
  BY DEF RequiredOf, OptionalOf, Unadded
<1>. HIDE DEF S
<1>3. /\ Ring(Q.ring, R.required, RequiredOf(R, S), Addresses)
      /\ Ring(Q.ring, R.optional, OptionalOf(R, S), Addresses)
  <2>1. \A n \in S : Q.ring.next[n] = R.ring.next[n] /\ Q.ring.prev[n] = R.ring.prev[n]
    BY DEF Unadded, S
  <2>2. /\ Ring(R.ring, R.required, RequiredOf(R, S), Addresses)
        /\ Ring(R.ring, R.optional, OptionalOf(R, S), Addresses)
    BY DEF RegInv, RegOf, S
  <2>3. QED
    BY <1>2, <2>1, <2>2, RingElsewhere
<1>4. RegOf(Q, S)
  BY <1>2, <1>3 DEF RegInv, RegOf, Unadded, S
<1>5. \A T : ShortOf(R, S, T) => ShortOf(Q, S, T)
  BY DEF ShortOf, Unadded
<1>6. QED
  BY <1>1, <1>4, <1>5 DEF RegInv, Unadded, S

LEMMA AddedKeeps ==
    ASSUME NEW R, RegInv(R), NEW Q, NEW n, NEW o \in Options, AddedTo(R, Q, n, o)
    PROVE  RegInv(Q) /\ Living(Q) = Living(R) \cup {n}
           /\ \A T : ShortOf(R, Living(R), T) => ShortOf(Q, Living(Q), T)
<1>. DEFINE S == Living(R)
<1>1. /\ R.opt \in [Addresses -> Options \cup {Null}] /\ n \in Addresses /\ n \notin S
      /\ Q.opt[n] = o /\ o # Null
      /\ \A m \in Addresses \ {n} : Q.opt[m] = R.opt[m]
      /\ R.short \in [ShortNames -> Addresses \cup {Null}]
      /\ Null \notin Addresses /\ S \subseteq Addresses
  BY CliStringsOK, CliConstantsOK DEF RegInv, RegType, AddedTo, Living
<1>2. Living(Q) = S \cup {n}
  BY <1>1 DEF Living
<1>. HIDE DEF S
<1>3. \A m \in S : Q.opt[m] = R.opt[m] /\ m # n
  BY <1>1
<1>4. /\ RequiredOf(Q, S \cup {n}) = IF o.required THEN RequiredOf(R, S) \cup {n} ELSE RequiredOf(R, S)
      /\ OptionalOf(Q, S \cup {n}) = IF o.required THEN OptionalOf(R, S) ELSE OptionalOf(R, S) \cup {n}
  BY <1>1, <1>3 DEF RequiredOf, OptionalOf
<1>5. /\ Ring(Q.ring, Q.required, RequiredOf(Q, S \cup {n}), Addresses)
      /\ Ring(Q.ring, Q.optional, OptionalOf(Q, S \cup {n}), Addresses)
  BY <1>4 DEF AddedTo, S
<1>6. RegOf(R, S)
  BY DEF RegInv, S
<1>7. /\ \A m \in S \cup {n} : Q.opt[m].id \in DOMAIN AsMap(Q.ids) /\ AsMap(Q.ids)[Q.opt[m].id] = m
      /\ \A i \in DOMAIN AsMap(Q.ids) :
            AsMap(Q.ids)[i] \in S \cup {n} /\ Q.opt[AsMap(Q.ids)[i]].id = i
  <2>1. /\ \A m \in S : R.opt[m].id \in DOMAIN AsMap(R.ids) /\ AsMap(R.ids)[R.opt[m].id] = m
        /\ \A i \in DOMAIN AsMap(R.ids) :
              AsMap(R.ids)[i] \in S /\ R.opt[AsMap(R.ids)[i]].id = i
    BY <1>6 DEF RegOf
  <2>2. /\ o.id \notin DOMAIN AsMap(R.ids) /\ DOMAIN AsMap(Q.ids) = DOMAIN AsMap(R.ids) \cup {o.id}
        /\ AsMap(Q.ids)[o.id] = n
        /\ \A i \in DOMAIN AsMap(R.ids) : AsMap(Q.ids)[i] = AsMap(R.ids)[i]
    BY DEF AddedTo, With
  <2>3. QED
    BY <1>1, <1>3, <2>1, <2>2
<1>8. /\ \A m \in S \cup {n} : Q.opt[m].long # None =>
            Q.opt[m].long \in DOMAIN AsMap(Q.longs) /\ AsMap(Q.longs)[Q.opt[m].long] = m
      /\ \A i \in DOMAIN AsMap(Q.longs) :
            i # None /\ AsMap(Q.longs)[i] \in S \cup {n} /\ Q.opt[AsMap(Q.longs)[i]].long = i
  <2>1. /\ \A m \in S : R.opt[m].long # None =>
              R.opt[m].long \in DOMAIN AsMap(R.longs) /\ AsMap(R.longs)[R.opt[m].long] = m
        /\ \A i \in DOMAIN AsMap(R.longs) :
              i # None /\ AsMap(R.longs)[i] \in S /\ R.opt[AsMap(R.longs)[i]].long = i
    BY <1>6 DEF RegOf
  <2>2. CASE o.long = None
    <3>1. AsMap(Q.longs) = AsMap(R.longs)
      BY <2>2 DEF AddedTo
    <3>2. QED
      BY <1>1, <1>3, <2>1, <2>2, <3>1
  <2>3. CASE o.long # None
    <3>1. /\ o.long \notin DOMAIN AsMap(R.longs)
          /\ DOMAIN AsMap(Q.longs) = DOMAIN AsMap(R.longs) \cup {o.long}
          /\ AsMap(Q.longs)[o.long] = n
          /\ \A i \in DOMAIN AsMap(R.longs) : AsMap(Q.longs)[i] = AsMap(R.longs)[i]
      BY <2>3 DEF AddedTo, With
    <3>2. QED
      BY <1>1, <1>3, <2>1, <2>3, <3>1
  <2>4. QED
    BY <2>2, <2>3
<1>9. /\ o.short # None => o.short \in ShortNames /\ R.short[o.short] = Null /\ Q.short[o.short] = n
      /\ \A c \in ShortNames : c # o.short \/ o.short = None => Q.short[c] = R.short[c]
  <2>1. o.short # None => o.short \in ShortNames
    BY DEF Options
  <2>2. QED
    BY <1>1, <2>1 DEF AddedTo
<1>10. \A m \in S \cup {n} : Q.opt[m].short # None => Q.short[Q.opt[m].short] = m
  <2>1. ASSUME NEW m \in S, R.opt[m].short # None
        PROVE  R.opt[m].short \in ShortNames /\ R.short[R.opt[m].short] = m /\ m # Null
    <3>1. R.opt[m] \in Options
      BY <1>6 DEF RegOf
    <3>2. R.opt[m].short \in ShortNames
      BY <2>1, <3>1 DEF Options
    <3>3. QED
      BY <1>1, <1>6, <2>1, <3>2 DEF RegOf
  <2>2. QED
    BY <1>1, <1>3, <1>9, <2>1
<1>11. RegOf(Q, S \cup {n})
  <2>1. TableInv(Q.ids) /\ TableInv(Q.longs)
    BY DEF AddedTo
  <2>2. \A m \in S \cup {n} : Q.opt[m] \in Options
    BY <1>1, <1>3, <1>6 DEF RegOf
  <2>3. QED
    BY <1>1, <1>5, <1>7, <1>8, <1>10, <2>1, <2>2 DEF RegOf
<1>12. \A T : ShortOf(R, S, T) => ShortOf(Q, S \cup {n}, T)
  BY <1>1, <1>3, <1>9 DEF ShortOf
<1>13. QED
  BY <1>2, <1>11, <1>12 DEF RegInv, AddedTo, S

-----------------------------------------------------------------------------
(* cli_add_opt: a node is prepared, its names are entered one by one       *)

Prepared(R, P, n, o, short, ids, longs) ==
    /\ P \in RegType
    /\ n \in Addresses /\ R.opt[n] = Null /\ P.opt = [R.opt EXCEPT ![n] = o]
    /\ P.ring.next[n] = n /\ P.ring.prev[n] = n
    /\ \A y \in Living(R) : P.ring.next[y] = R.ring.next[y] /\ P.ring.prev[y] = R.ring.prev[y]
    /\ P.required = R.required /\ P.optional = R.optional
    /\ TableInv(P.ids) /\ TableInv(P.longs)
    /\ P.short = short /\ AsMap(P.ids) = ids /\ AsMap(P.longs) = longs

(* Where the short name o has leads to, after it was set to a.             *)
ShortSet(short, o, a) == IF o.short = None THEN short ELSE [short EXCEPT ![o.short] = a]

LEMMA NodePrepared ==
    ASSUME NEW R, RegInv(R), NEW n \in Addresses, R.opt[n] = Null, NEW o \in Options
    PROVE  Prepared(R, NodeFromOpt(R, n, o), n, o, R.short, AsMap(R.ids), AsMap(R.longs))
<1>. DEFINE P == NodeFromOpt(R, n, o)
<1>1. /\ R \in RegType /\ R.opt \in [Addresses -> Options \cup {Null}]
      /\ R.ring \in Memory(Addresses) /\ TableInv(R.ids) /\ TableInv(R.longs)
  BY DEF RegInv, RegOf, RegType
<1>2. /\ listc_init(R.ring, n) \in Memory(Addresses)
      /\ listc_init(R.ring, n).next[n] = n /\ listc_init(R.ring, n).prev[n] = n
      /\ \A y \in Addresses : y # n => /\ listc_init(R.ring, n).next[y] = R.ring.next[y]
                                       /\ listc_init(R.ring, n).prev[y] = R.ring.prev[y]
  BY <1>1, InitItem
<1>3. /\ P \in RegType /\ P.opt = [R.opt EXCEPT ![n] = o] /\ P.ring = listc_init(R.ring, n)
      /\ P.required = R.required /\ P.optional = R.optional
      /\ P.ids = R.ids /\ P.longs = R.longs /\ P.short = R.short
  <2>1. [R.opt EXCEPT ![n] = o] \in [Addresses -> Options \cup {Null}]
    BY <1>1
  <2>2. QED
    BY <1>1, <1>2, <2>1 DEF NodeFromOpt, RegType
<1>. HIDE DEF P
<1>4. \A y \in Living(R) : y \in Addresses /\ y # n
  BY DEF Living
<1>5. Prepared(R, P, n, o, R.short, AsMap(R.ids), AsMap(R.longs))
  BY <1>1, <1>2, <1>3, <1>4 DEF Prepared
<1>6. QED
  BY <1>5 DEF P

LEMMA SlotPrepared ==
    ASSUME NEW R, NEW P, NEW n, NEW o \in Options, NEW short, NEW ids, NEW longs,
           Prepared(R, P, n, o, short, ids, longs), NEW a \in Addresses \cup {Null}
    PROVE  Prepared(R, Slot(P, o, a), n, o, ShortSet(short, o, a), ids, longs)
<1>. DEFINE Q == Slot(P, o, a)
<1>1. P \in RegType /\ P.short = short
  BY DEF Prepared
<1>2. CASE o.short = None
  BY <1>2 DEF Slot, ShortSet
<1>3. CASE o.short # None
  <2>1. o.short \in ShortNames /\ P.short \in [ShortNames -> Addresses \cup {Null}]
    BY <1>1, <1>3 DEF Options, RegType
  <2>2. [P.short EXCEPT ![o.short] = a] \in [ShortNames -> Addresses \cup {Null}]
    BY <2>1
  <2>3. /\ Q \in RegType /\ Q.short = [P.short EXCEPT ![o.short] = a]
        /\ Q.opt = P.opt /\ Q.ring = P.ring /\ Q.required = P.required
        /\ Q.optional = P.optional /\ Q.ids = P.ids /\ Q.longs = P.longs
    BY <1>1, <1>3, <2>2 DEF Slot, RegType
  <2>. HIDE DEF Q
  <2>4. ShortSet(short, o, a) = Q.short
    BY <1>1, <1>3, <2>3 DEF ShortSet
  <2>5. Prepared(R, Q, n, o, ShortSet(short, o, a), ids, longs)
    BY <2>3, <2>4 DEF Prepared
  <2>6. QED
    BY <2>5 DEF Q
<1>4. QED
  BY <1>2, <1>3

LEMMA TablesPrepared ==
    ASSUME NEW R, NEW P, NEW n, NEW o, NEW short, NEW ids, NEW longs,
           Prepared(R, P, n, o, short, ids, longs), NEW t, TableInv(t)
    PROVE  /\ Prepared(R, [P EXCEPT !.ids = t], n, o, short, AsMap(t), longs)
           /\ Prepared(R, [P EXCEPT !.longs = t], n, o, short, ids, AsMap(t))
<1>. DEFINE Q == [P EXCEPT !.ids = t]
            T == [P EXCEPT !.longs = t]
<1>1. P \in RegType /\ t \in TableType
  BY DEF Prepared, TableInv
<1>2. /\ Q \in RegType /\ Q.ids = t
      /\ Q.opt = P.opt /\ Q.ring = P.ring /\ Q.required = P.required
      /\ Q.optional = P.optional /\ Q.short = P.short /\ Q.longs = P.longs
  BY <1>1 DEF RegType
<1>3. /\ T \in RegType /\ T.longs = t
      /\ T.opt = P.opt /\ T.ring = P.ring /\ T.required = P.required
      /\ T.optional = P.optional /\ T.short = P.short /\ T.ids = P.ids
  BY <1>1 DEF RegType
<1>. HIDE DEF Q, T
<1>4. /\ Prepared(R, Q, n, o, short, AsMap(t), longs)
      /\ Prepared(R, T, n, o, short, ids, AsMap(t))
  BY <1>2, <1>3 DEF Prepared
<1>5. QED
  BY <1>4 DEF Q, T

(* The node comes into its ring.                                           *)
LEMMA PreparedAdded ==
    ASSUME NEW R, RegInv(R), NEW P, NEW n, NEW o \in Options, NEW short, NEW ids, NEW longs,
           Prepared(R, P, n, o, short, ids, longs)
    PROVE  LET Q == InRing(P, n) IN
           /\ Q \in RegType /\ Q.opt = P.opt /\ Q.short = P.short
           /\ Q.ids = P.ids /\ Q.longs = P.longs
           /\ Ring(Q.ring, Q.required,
                   IF o.required THEN RequiredOf(R, Living(R)) \cup {n}
                   ELSE RequiredOf(R, Living(R)), Addresses)
           /\ Ring(Q.ring, Q.optional,
                   IF o.required THEN OptionalOf(R, Living(R))
                   ELSE OptionalOf(R, Living(R)) \cup {n}, Addresses)
<1>. DEFINE Q == InRing(P, n)
            X == RequiredOf(R, Living(R))
            Y == OptionalOf(R, Living(R))
<1>1. /\ P \in RegType /\ n \in Addresses /\ P.opt[n] = o /\ n \notin Living(R)
      /\ P.ring.next[n] = n /\ P.ring.prev[n] = n
      /\ P.required = R.required /\ P.optional = R.optional
      /\ P.ring \in Memory(Addresses)
  <2>1. R.opt \in [Addresses -> Options \cup {Null}]
    BY DEF RegInv, RegType
  <2>2. QED
    BY <2>1 DEF Prepared, RegType, Living
<1>2. /\ X \subseteq Living(R) /\ Y \subseteq Living(R) /\ n \notin X /\ n \notin Y
      /\ \A y \in X : y \notin Y
      /\ Living(R) \subseteq Addresses /\ Null \notin Addresses
  BY <1>1, CliConstantsOK DEF RequiredOf, OptionalOf, Living
<1>3. /\ Ring(R.ring, R.required, X, Addresses) /\ Ring(R.ring, R.optional, Y, Addresses)
  BY DEF RegInv, RegOf
<1>. HIDE DEF X, Y
<1>4. Ring(P.ring, P.required, X, Addresses) /\ Ring(P.ring, P.optional, Y, Addresses)
  <2>1. \A y \in Living(R) : P.ring.next[y] = R.ring.next[y] /\ P.ring.prev[y] = R.ring.prev[y]
    BY DEF Prepared
  <2>2. (\A y \in X : P.ring.next[y] = R.ring.next[y] /\ P.ring.prev[y] = R.ring.prev[y])
    BY <1>2, <2>1
  <2>3. \A y \in Y : P.ring.next[y] = R.ring.next[y] /\ P.ring.prev[y] = R.ring.prev[y]
    BY <1>2, <2>1
  <2>4. QED
    BY <1>1, <1>3, <2>2, <2>3, RingElsewhere
<1>5. CASE o.required
  <2>. DEFINE links == BackLinks(P.ring, P.required, n)
              head == BackHead(P.required, n)
  <2>1. /\ Ring(links, head, X \cup {n}, Addresses)
        /\ links \in Memory(Addresses) /\ head \in Addresses
        /\ \A y \in Addresses : y \notin X /\ y # n =>
              links.next[y] = P.ring.next[y] /\ links.prev[y] = P.ring.prev[y]
    <3>1. /\ Null \notin Addresses /\ P.ring \in Memory(Addresses)
          /\ Ring(P.ring, P.required, X, Addresses)
          /\ n \in Addresses /\ n \notin X /\ P.ring.next[n] = n /\ P.ring.prev[n] = n
      BY <1>1, <1>2, <1>4
    <3>2. QED
      BY ONLY <3>1, RingAdd
  <2>2. Q = [P EXCEPT !.required = head, !.ring = links]
    BY <1>1, <1>5 DEF InRing
  <2>. HIDE DEF links, head, Q
  <2>3. /\ Q \in RegType /\ Q.opt = P.opt /\ Q.short = P.short
        /\ Q.ids = P.ids /\ Q.longs = P.longs
        /\ Q.ring = links /\ Q.required = head /\ Q.optional = P.optional
    BY <1>1, <2>1, <2>2 DEF RegType
  <2>4. \A y \in Y : links.next[y] = P.ring.next[y] /\ links.prev[y] = P.ring.prev[y]
    BY <1>2, <2>1
  <2>5. Ring(links, P.optional, Y, Addresses)
    BY <1>4, <2>4, RingElsewhere
  <2>6. QED
    BY <1>5, <2>1, <2>3, <2>5 DEF Q, X, Y
<1>6. CASE ~o.required
  <2>. DEFINE links == BackLinks(P.ring, P.optional, n)
              head == BackHead(P.optional, n)
  <2>1. /\ Ring(links, head, Y \cup {n}, Addresses)
        /\ links \in Memory(Addresses) /\ head \in Addresses
        /\ \A y \in Addresses : y \notin Y /\ y # n =>
              links.next[y] = P.ring.next[y] /\ links.prev[y] = P.ring.prev[y]
    <3>1. /\ Null \notin Addresses /\ P.ring \in Memory(Addresses)
          /\ Ring(P.ring, P.optional, Y, Addresses)
          /\ n \in Addresses /\ n \notin Y /\ P.ring.next[n] = n /\ P.ring.prev[n] = n
      BY <1>1, <1>2, <1>4
    <3>2. QED
      BY ONLY <3>1, RingAdd
  <2>2. Q = [P EXCEPT !.optional = head, !.ring = links]
    BY <1>1, <1>6 DEF InRing
  <2>. HIDE DEF links, head, Q
  <2>3. /\ Q \in RegType /\ Q.opt = P.opt /\ Q.short = P.short
        /\ Q.ids = P.ids /\ Q.longs = P.longs
        /\ Q.ring = links /\ Q.optional = head /\ Q.required = P.required
    BY <1>1, <2>1, <2>2 DEF RegType
  <2>4. \A y \in X : links.next[y] = P.ring.next[y] /\ links.prev[y] = P.ring.prev[y]
    BY <1>2, <2>1
  <2>5. Ring(links, P.required, X, Addresses)
    BY <1>4, <2>4, RingElsewhere
  <2>6. QED
    BY <1>6, <2>1, <2>3, <2>5 DEF Q, X, Y
<1>7. QED
  BY <1>5, <1>6

(* The node is freed again.                                                *)
LEMMA PreparedFreed ==
    ASSUME NEW R, RegInv(R), NEW P, NEW n, NEW o,
           Prepared(R, P, n, o, R.short, AsMap(R.ids), AsMap(R.longs))
    PROVE  Unadded(R, [P EXCEPT !.opt[n] = Null])
<1>. DEFINE Q == [P EXCEPT !.opt[n] = Null]
<1>1. /\ P \in RegType /\ n \in Addresses /\ R.opt[n] = Null
      /\ P.opt = [R.opt EXCEPT ![n] = o]
      /\ R.opt \in [Addresses -> Options \cup {Null}]
  BY DEF Prepared, RegInv, RegType
<1>2. [P.opt EXCEPT ![n] = Null] = R.opt
  BY <1>1
<1>3. /\ Q \in RegType /\ Q.opt = R.opt
      /\ Q.ring = P.ring /\ Q.required = P.required /\ Q.optional = P.optional
      /\ Q.short = P.short /\ Q.ids = P.ids /\ Q.longs = P.longs
  BY <1>1, <1>2 DEF RegType
<1>. HIDE DEF Q
<1>4. Unadded(R, Q)
  BY <1>3 DEF Prepared, Unadded
<1>5. QED
  BY <1>4 DEF Q

(* What cli_add_opt may return, as a registry and whether it succeeded.    *)
AddResult(R, o, r) ==
    \/ r[2] = FALSE /\ Unadded(R, r[1])
    \/ r[2] = TRUE /\ \E n \in Addresses : AddedTo(R, r[1], n, o)

LEMMA SlotRestored ==
    ASSUME NEW short \in [ShortNames -> Addresses \cup {Null}], NEW o \in Options,
           o.short # None => short[o.short] = Null, NEW n
    PROVE  ShortSet(ShortSet(short, o, n), o, Null) = short
<1>1. CASE o.short = None
  BY <1>1 DEF ShortSet
<1>2. CASE o.short # None
  <2>1. o.short \in ShortNames
    BY <1>2 DEF Options
  <2>2. QED
    BY <1>2, <2>1 DEF ShortSet
<1>3. QED
  BY <1>1, <1>2

(* From the second name on.                                                *)
LEMMA LongAdded ==
    ASSUME NEW R, RegInv(R), NEW P, NEW n \in Addresses, NEW o \in Options,
           o.short # None => R.short[o.short] = Null,
           o.id \notin DOMAIN AsMap(R.ids),
           Prepared(R, P, n, o, ShortSet(R.short, o, n), With(AsMap(R.ids), o.id, n),
                    AsMap(R.longs)),
           NEW r \in ByLongName(P, n)
    PROVE  AddResult(R, o, KeptOrFreed(r, n))
<1>1. /\ P.opt[n] = o /\ R.opt[n] = Null /\ o.id \in DOMAIN Hash
      /\ R.short \in [ShortNames -> Addresses \cup {Null}]
      /\ R.opt \in [Addresses -> Options \cup {Null}]
      /\ TableInv(P.ids) /\ TableInv(P.longs) /\ AsMap(P.longs) = AsMap(R.longs)
  BY DEF Prepared, RegInv, RegType, Options
<1>. DEFINE ids == With(AsMap(R.ids), o.id, n)
            short == ShortSet(R.short, o, n)
<1>2. ASSUME NEW P1, NEW longs, Prepared(R, P1, n, o, short, ids, longs),
             \/ o.long = None /\ longs = AsMap(R.longs)
             \/ /\ o.long # None /\ o.long \notin DOMAIN AsMap(R.longs)
                /\ longs = With(AsMap(R.longs), o.long, n)
      PROVE  AddedTo(R, InRing(P1, n), n, o)
  <2>. DEFINE Q == InRing(P1, n)
  <2>1. /\ Q \in RegType /\ Q.opt = P1.opt /\ Q.short = P1.short
        /\ Q.ids = P1.ids /\ Q.longs = P1.longs
        /\ Ring(Q.ring, Q.required,
                IF o.required THEN RequiredOf(R, Living(R)) \cup {n}
                ELSE RequiredOf(R, Living(R)), Addresses)
        /\ Ring(Q.ring, Q.optional,
                IF o.required THEN OptionalOf(R, Living(R))
                ELSE OptionalOf(R, Living(R)) \cup {n}, Addresses)
    BY <1>2, PreparedAdded
  <2>2. /\ P1.opt = [R.opt EXCEPT ![n] = o] /\ P1.short = short
        /\ TableInv(P1.ids) /\ TableInv(P1.longs)
        /\ AsMap(P1.ids) = ids /\ AsMap(P1.longs) = longs
    BY <1>2 DEF Prepared
  <2>. HIDE DEF Q
  <2>3. Q.short = IF o.short = None THEN R.short ELSE [R.short EXCEPT ![o.short] = n]
    BY <2>1, <2>2 DEF ShortSet
  <2>4. AddedTo(R, Q, n, o)
    BY <1>1, <1>2, <2>1, <2>2, <2>3 DEF AddedTo
  <2>5. QED
    BY <2>4 DEF Q
<1>3. CASE o.long = None
  <2>1. r = <<InRing(P, n), TRUE>>
    BY <1>1, <1>3 DEF ByLongName
  <2>2. AddedTo(R, InRing(P, n), n, o)
    BY <1>1, <1>2, <1>3
  <2>3. KeptOrFreed(r, n) = r /\ r[1] = InRing(P, n) /\ r[2] = TRUE
    BY <2>1 DEF KeptOrFreed
  <2>4. QED
    BY <2>2, <2>3 DEF AddResult
<1>4. CASE o.long # None
  <2>1. o.long \in DOMAIN Hash
    BY <1>4 DEF Options
  <2>2. PICK l \in cli_hash_table_insert(P.longs, n, o.long) :
           r = IF l[2] THEN <<InRing([P EXCEPT !.longs = l[1]], n), TRUE>>
               ELSE <<Slot([[P EXCEPT !.longs = l[1]] EXCEPT
                              !.ids = cli_hash_table_remove(@, o.id)], o, Null), FALSE>>
    <3>1. P.opt[n].long # None
      BY <1>1, <1>4
    <3>2. \E l \in cli_hash_table_insert(P.longs, n, P.opt[n].long) :
             r = IF l[2] THEN <<InRing([P EXCEPT !.longs = l[1]], n), TRUE>>
                 ELSE <<Slot([[P EXCEPT !.longs = l[1]] EXCEPT
                                !.ids = cli_hash_table_remove(@, P.opt[n].id)], P.opt[n], Null),
                        FALSE>>
      BY <3>1, Zenon DEF ByLongName
    <3>3. QED
      BY <1>1, <3>2, Zenon
  <2>3. /\ TableInv(l[1]) /\ l[2] \in BOOLEAN
        /\ IF l[2] THEN /\ o.long \notin DOMAIN AsMap(P.longs)
                        /\ AsMap(l[1]) = With(AsMap(P.longs), o.long, n)
           ELSE AsMap(l[1]) = AsMap(P.longs)
    BY <1>1, <2>1, <2>2, InsertKeeps
  <2>. DEFINE P1 == [P EXCEPT !.longs = l[1]]
  <2>4. Prepared(R, P1, n, o, short, ids, AsMap(l[1]))
    BY <2>3, TablesPrepared
  <2>. HIDE DEF P1
  <2>5. CASE l[2] = TRUE
    <3>1. r = <<InRing(P1, n), TRUE>>
      BY <2>2, <2>5 DEF P1
    <3>2. AddedTo(R, InRing(P1, n), n, o)
      BY <1>1, <1>2, <1>4, <2>3, <2>4, <2>5
    <3>3. KeptOrFreed(r, n) = r /\ r[1] = InRing(P1, n) /\ r[2] = TRUE
      BY <3>1 DEF KeptOrFreed
    <3>4. QED
      BY <3>2, <3>3 DEF AddResult
  <2>6. CASE l[2] = FALSE
    <3>. DEFINE t == cli_hash_table_remove(P1.ids, o.id)
                P2 == [P1 EXCEPT !.ids = t]
                P3 == Slot(P2, o, Null)
    <3>1. r = <<P3, FALSE>>
      BY <2>2, <2>6 DEF P1
    <3>2. TableInv(P1.ids) /\ AsMap(P1.ids) = ids /\ AsMap(l[1]) = AsMap(R.longs)
      BY <1>1, <2>3, <2>4, <2>6 DEF Prepared
    <3>3. TableInv(t) /\ AsMap(t) = Less(ids, o.id)
      BY <1>1, <3>2, RemoveKeeps
    <3>4. Less(ids, o.id) = AsMap(R.ids)
      <4>1. AsMap(R.ids) = [i \in DOMAIN AsMap(R.ids) |-> AsMap(R.ids)[i]]
        BY MapOf DEF RegInv, RegOf
      <4>2. DOMAIN ids \ {o.id} = DOMAIN AsMap(R.ids)
        BY DEF With
      <4>3. \A i \in DOMAIN AsMap(R.ids) : ids[i] = AsMap(R.ids)[i]
        BY DEF With
      <4>. HIDE DEF ids
      <4>4. QED
        BY <4>1, <4>2, <4>3 DEF Less
    <3>. HIDE DEF t
    <3>5. Prepared(R, P2, n, o, short, AsMap(R.ids), AsMap(R.longs))
      BY <2>4, <3>2, <3>3, <3>4, TablesPrepared
    <3>. HIDE DEF P2
    <3>6. Prepared(R, P3, n, o, ShortSet(short, o, Null), AsMap(R.ids), AsMap(R.longs))
      BY <3>5, SlotPrepared
    <3>7. ShortSet(short, o, Null) = R.short
      BY <1>1, SlotRestored
    <3>. HIDE DEF P3
    <3>8. Unadded(R, [P3 EXCEPT !.opt[n] = Null])
      BY <3>6, <3>7, PreparedFreed
    <3>9. KeptOrFreed(r, n) = <<[P3 EXCEPT !.opt[n] = Null], FALSE>>
      BY <3>1 DEF KeptOrFreed
    <3>10. QED
      BY <3>8, <3>9 DEF AddResult
  <2>7. QED
    BY <2>3, <2>5, <2>6
<1>5. QED
  BY <1>3, <1>4

(* cli_add_opt_node, and cli_opt_node_destroy when it fails.               *)
LEMMA NodeAdded ==
    ASSUME NEW R, RegInv(R), NEW n \in Addresses, R.opt[n] = Null, NEW o \in Options,
           NEW r \in cli_add_opt_node(NodeFromOpt(R, n, o), n)
    PROVE  AddResult(R, o, KeptOrFreed(r, n))
<1>. DEFINE P == NodeFromOpt(R, n, o)
            P1 == Slot(P, o, n)
            short == ShortSet(R.short, o, n)
<1>1. Prepared(R, P, n, o, R.short, AsMap(R.ids), AsMap(R.longs))
  BY NodePrepared
<1>2. /\ P.opt[n] = o /\ P.short = R.short /\ o.id \in DOMAIN Hash
      /\ R.short \in [ShortNames -> Addresses \cup {Null}]
      /\ TableInv(P.ids) /\ AsMap(P.ids) = AsMap(R.ids)
  <2>1. /\ R.short \in [ShortNames -> Addresses \cup {Null}]
        /\ R.opt \in [Addresses -> Options \cup {Null}]
    BY DEF RegInv, RegType
  <2>. HIDE DEF P
  <2>2. QED
    BY <1>1, <2>1 DEF Prepared, Options
<1>. HIDE DEF P
<1>3. Prepared(R, P1, n, o, short, AsMap(R.ids), AsMap(R.longs))
  BY <1>1, SlotPrepared
<1>. HIDE DEF P1
<1>4. CASE SlotTaken(P, o)
  <2>1. r = <<P, FALSE>>
    BY <1>2, <1>4 DEF cli_add_opt_node, P
  <2>2. Unadded(R, [P EXCEPT !.opt[n] = Null])
    BY <1>1, PreparedFreed
  <2>3. KeptOrFreed(r, n) = <<[P EXCEPT !.opt[n] = Null], FALSE>>
    BY <2>1 DEF KeptOrFreed
  <2>4. QED
    BY <2>2, <2>3 DEF AddResult
<1>5. CASE ~SlotTaken(P, o)
  <2>1. o.short # None => R.short[o.short] = Null
    BY <1>2, <1>5 DEF SlotTaken
  <2>2. PICK i \in cli_hash_table_insert(P.ids, n, o.id) :
           r \in IF i[2] THEN ByLongName([P1 EXCEPT !.ids = i[1]], n)
                 ELSE {<<Slot([P1 EXCEPT !.ids = i[1]], o, Null), FALSE>>}
    <3>1. r \in cli_add_opt_node(P, n)
      BY DEF P
    <3>2. ~SlotTaken(P, P.opt[n])
      BY <1>2, <1>5
    <3>3. \E i \in cli_hash_table_insert(P.ids, n, P.opt[n].id) :
             r \in IF i[2] THEN ByLongName([Slot(P, P.opt[n], n) EXCEPT !.ids = i[1]], n)
                   ELSE {<<Slot([Slot(P, P.opt[n], n) EXCEPT !.ids = i[1]], P.opt[n], Null), FALSE>>}
      BY <3>1, <3>2, Zenon DEF cli_add_opt_node
    <3>4. QED
      BY <1>2, <3>3, Zenon DEF P1
  <2>3. /\ TableInv(i[1]) /\ i[2] \in BOOLEAN
        /\ IF i[2] THEN o.id \notin DOMAIN AsMap(P.ids) /\ AsMap(i[1]) = With(AsMap(P.ids), o.id, n)
           ELSE AsMap(i[1]) = AsMap(P.ids)
    BY <1>2, <2>2, InsertKeeps
  <2>. DEFINE P2 == [P1 EXCEPT !.ids = i[1]]
  <2>4. Prepared(R, P2, n, o, short, AsMap(i[1]), AsMap(R.longs))
    BY <1>3, <2>3, TablesPrepared
  <2>. HIDE DEF P2
  <2>5. CASE i[2] = TRUE
    <3>1. r \in ByLongName(P2, n)
      BY <2>2, <2>5 DEF P2
    <3>2. Prepared(R, P2, n, o, short, With(AsMap(R.ids), o.id, n), AsMap(R.longs))
      BY <1>2, <2>3, <2>4, <2>5
    <3>3. o.id \notin DOMAIN AsMap(R.ids)
      BY <1>2, <2>3, <2>5
    <3>4. QED
      BY <2>1, <3>1, <3>2, <3>3, LongAdded
  <2>6. CASE i[2] = FALSE
    <3>. DEFINE P3 == Slot(P2, o, Null)
    <3>1. r = <<P3, FALSE>>
      BY <2>2, <2>6 DEF P2
    <3>2. Prepared(R, P2, n, o, short, AsMap(R.ids), AsMap(R.longs))
      BY <1>2, <2>3, <2>4, <2>6
    <3>3. Prepared(R, P3, n, o, ShortSet(short, o, Null), AsMap(R.ids), AsMap(R.longs))
      BY <3>2, SlotPrepared
    <3>4. ShortSet(short, o, Null) = R.short
      BY <1>2, <2>1, SlotRestored
    <3>. HIDE DEF P3
    <3>5. Unadded(R, [P3 EXCEPT !.opt[n] = Null])
      BY <3>3, <3>4, PreparedFreed
    <3>6. KeptOrFreed(r, n) = <<[P3 EXCEPT !.opt[n] = Null], FALSE>>
      BY <3>1 DEF KeptOrFreed
    <3>7. QED
      BY <3>5, <3>6 DEF AddResult
  <2>7. QED
    BY <2>3, <2>5, <2>6
<1>6. QED
  BY <1>4, <1>5

(* Whatever fails half-way, the option is added altogether or not at all   *)
(* (cli.c:408-487, 613-662).                                               *)
LEMMA OptAdded ==
    ASSUME NEW R, RegInv(R), NEW o \in Options, NEW r \in AddOpt(R, o)
    PROVE  AddResult(R, o, r)
<1>1. CASE r = <<R, FALSE>>
  <2>1. Unadded(R, R)
    BY DEF Unadded, RegInv, RegOf
  <2>2. QED
    BY <1>1, <2>1 DEF AddResult
<1>2. CASE /\ FreeAddresses(R) # {}
           /\ \E q \in cli_add_opt_node(NodeFromOpt(R, NewAddress(R), o), NewAddress(R)) :
                 r = KeptOrFreed(q, NewAddress(R))
  <2>1. NewAddress(R) \in Addresses /\ R.opt[NewAddress(R)] = Null
    <3>1. FreeAddresses(R) \in SUBSET Nat
      BY CliConstantsOK DEF FreeAddresses
    <3>2. \E n \in FreeAddresses(R) : \A m \in FreeAddresses(R) : n <= m
      BY <1>2, <3>1, LeastNumber
    <3>3. QED
      BY <3>2 DEF NewAddress, FreeAddresses
  <2>2. QED
    BY <1>2, <2>1, NodeAdded
<1>3. QED
  BY <1>1, <1>2 DEF AddOpt

-----------------------------------------------------------------------------
(* cli_remove_opt                                                          *)

LessOf(m, k) == IF k = None THEN m ELSE Less(m, k)

(* The option at n was removed; T: the short names that it leaves behind.  *)
RemovedFrom(R, Q, n) ==
    /\ RegInv(Q) /\ Living(Q) = Living(R) \ {n}
    /\ AsMap(Q.ids) = Less(AsMap(R.ids), R.opt[n].id)
    /\ AsMap(Q.longs) = LessOf(AsMap(R.longs), R.opt[n].long)
    /\ \A m \in Living(Q) : Q.opt[m] = R.opt[m]
    /\ \A T : ShortOf(R, Living(R), T) =>
          ShortOf(Q, Living(Q), T \cup ({R.opt[n].short} \ {None}))

LEMMA RemovedKeeps ==
    ASSUME NEW R, RegInv(R), NEW n \in Living(R)
    PROVE  RemovedFrom(R, Removed(R, n), n)
<1>. DEFINE Q == Removed(R, n)
            S == Living(R)
            o == R.opt[n]
            X == RequiredOf(R, S)
            Y == OptionalOf(R, S)
<1>1. /\ R \in RegType /\ R.opt \in [Addresses -> Options \cup {Null}]
      /\ R.ring \in Memory(Addresses) /\ n \in Addresses /\ n \in S /\ S \subseteq Addresses
      /\ R.required \in Addresses \cup {Null} /\ R.optional \in Addresses \cup {Null}
      /\ R.short \in [ShortNames -> Addresses \cup {Null}]
      /\ Null \notin Addresses
      /\ TableInv(R.ids) /\ TableInv(R.longs) /\ o \in Options
      /\ Ring(R.ring, R.required, X, Addresses) /\ Ring(R.ring, R.optional, Y, Addresses)
  BY CliConstantsOK DEF RegInv, RegOf, RegType, Living
<1>2. /\ X \subseteq S /\ Y \subseteq S /\ (\A y \in X : y \notin Y)
      /\ IF o.required THEN n \in X /\ n \notin Y ELSE n \in Y /\ n \notin X
  BY DEF RequiredOf, OptionalOf
<1>3. /\ o.id \in DOMAIN Hash /\ o.long \in DOMAIN Hash \cup {None}
      /\ o.short \in ShortNames \cup {None}
  BY <1>1 DEF Options
<1>. DEFINE ids == cli_hash_table_remove(R.ids, o.id)
            longs == IF o.long = None THEN R.longs ELSE cli_hash_table_remove(R.longs, o.long)
            opt == [R.opt EXCEPT ![n] = Null]
<1>4. /\ TableInv(ids) /\ AsMap(ids) = Less(AsMap(R.ids), o.id)
      /\ TableInv(longs) /\ AsMap(longs) = LessOf(AsMap(R.longs), o.long)
  <2>. HIDE DEF o
  <2>1. TableInv(ids) /\ AsMap(ids) = Less(AsMap(R.ids), o.id)
    BY <1>1, <1>3, RemoveKeeps
  <2>2. CASE o.long = None
    BY <1>1, <2>1, <2>2 DEF LessOf
  <2>3. CASE o.long # None
    BY <1>1, <1>3, <2>1, <2>3, RemoveKeeps DEF LessOf
  <2>4. QED
    BY <2>2, <2>3
<1>. HIDE DEF ids, longs, o, X, Y
(* The rings.                                                              *)
<1>5. /\ Q \in RegType /\ Q.opt = opt /\ Q.short = R.short /\ Q.ids = ids /\ Q.longs = longs
      /\ Ring(Q.ring, Q.required, X \ {n}, Addresses)
      /\ Ring(Q.ring, Q.optional, Y \ {n}, Addresses)
  <2>1. opt \in [Addresses -> Options \cup {Null}] /\ ids \in TableType /\ longs \in TableType
    BY <1>1, <1>4 DEF TableInv
  <2>2. CASE o.required
    <3>. DEFINE links == RemoveLinks(R.ring, R.required, n)
                head == RemoveHead(R.ring, R.required, n)
    <3>1. /\ Ring(links, head, X \ {n}, Addresses)
          /\ links \in Memory(Addresses) /\ head \in Addresses \cup {Null}
          /\ \A y \in Addresses : y \notin X =>
                links.next[y] = R.ring.next[y] /\ links.prev[y] = R.ring.prev[y]
      <4>1. /\ Null \notin Addresses /\ R.ring \in Memory(Addresses)
            /\ Ring(R.ring, R.required, X, Addresses) /\ n \in X
        BY <1>1, <1>2, <2>2
      <4>2. Ring(links, head, X \ {n}, Addresses) /\ head \in Addresses \cup {Null}
        BY ONLY <4>1, RingRemove
      <4>3. links \in Memory(Addresses)
        BY ONLY <4>1, RingRemove
      <4>4. \A y \in Addresses : y \notin X =>
               links.next[y] = R.ring.next[y] /\ links.prev[y] = R.ring.prev[y]
        <5>1. SameBut(links, R.ring, X, Addresses)
          BY ONLY <4>1, RingRemove
        <5>. HIDE DEF links
        <5>2. QED
          BY <5>1 DEF SameBut
      <4>5. QED
        BY ONLY <4>2, <4>3, <4>4
    <3>2. Q = [R EXCEPT !.required = head, !.ring = links, !.ids = ids, !.longs = longs,
                        !.opt = opt]
      BY <1>1, <2>2 DEF Removed, RegType, o, ids, longs
    <3>. HIDE DEF links, head, Q, opt
    <3>3. /\ Q \in RegType /\ Q.opt = opt /\ Q.short = R.short
          /\ Q.ids = ids /\ Q.longs = longs
          /\ Q.ring = links /\ Q.required = head /\ Q.optional = R.optional
      BY <1>1, <2>1, <3>1, <3>2 DEF RegType
    <3>4. \A y \in Y : links.next[y] = R.ring.next[y] /\ links.prev[y] = R.ring.prev[y]
      BY <1>1, <1>2, <3>1
    <3>5. Ring(links, R.optional, Y, Addresses) /\ Y \ {n} = Y
      BY <1>1, <1>2, <2>2, <3>4, RingElsewhere
    <3>6. QED
      BY <3>1, <3>3, <3>5
  <2>3. CASE ~o.required
    <3>. DEFINE links == RemoveLinks(R.ring, R.optional, n)
                head == RemoveHead(R.ring, R.optional, n)
    <3>1. /\ Ring(links, head, Y \ {n}, Addresses)
          /\ links \in Memory(Addresses) /\ head \in Addresses \cup {Null}
          /\ \A y \in Addresses : y \notin Y =>
                links.next[y] = R.ring.next[y] /\ links.prev[y] = R.ring.prev[y]
      <4>1. /\ Null \notin Addresses /\ R.ring \in Memory(Addresses)
            /\ Ring(R.ring, R.optional, Y, Addresses) /\ n \in Y
        BY <1>1, <1>2, <2>3
      <4>2. Ring(links, head, Y \ {n}, Addresses) /\ head \in Addresses \cup {Null}
        BY ONLY <4>1, RingRemove
      <4>3. links \in Memory(Addresses)
        BY ONLY <4>1, RingRemove
      <4>4. \A y \in Addresses : y \notin Y =>
               links.next[y] = R.ring.next[y] /\ links.prev[y] = R.ring.prev[y]
        <5>1. SameBut(links, R.ring, Y, Addresses)
          BY ONLY <4>1, RingRemove
        <5>. HIDE DEF links
        <5>2. QED
          BY <5>1 DEF SameBut
      <4>5. QED
        BY ONLY <4>2, <4>3, <4>4
    <3>2. Q = [R EXCEPT !.optional = head, !.ring = links, !.ids = ids, !.longs = longs,
                        !.opt = opt]
      BY <1>1, <2>3 DEF Removed, RegType, o, ids, longs
    <3>. HIDE DEF links, head, Q, opt
    <3>3. /\ Q \in RegType /\ Q.opt = opt /\ Q.short = R.short
          /\ Q.ids = ids /\ Q.longs = longs
          /\ Q.ring = links /\ Q.optional = head /\ Q.required = R.required
      BY <1>1, <2>1, <3>1, <3>2 DEF RegType
    <3>4. \A y \in X : links.next[y] = R.ring.next[y] /\ links.prev[y] = R.ring.prev[y]
      BY <1>1, <1>2, <3>1
    <3>5. Ring(links, R.required, X, Addresses) /\ X \ {n} = X
      BY <1>1, <1>2, <2>3, <3>4, RingElsewhere
    <3>6. QED
      BY <3>1, <3>3, <3>5
  <2>4. QED
    BY <2>2, <2>3
<1>. HIDE DEF Q
<1>6. /\ Living(Q) = S \ {n} /\ \A m \in S \ {n} : Q.opt[m] = R.opt[m]
  BY <1>1, <1>5 DEF Living
<1>. HIDE DEF opt, S
<1>7. RequiredOf(Q, S \ {n}) = X \ {n} /\ OptionalOf(Q, S \ {n}) = Y \ {n}
  BY <1>6 DEF RequiredOf, OptionalOf, X, Y
(* The tables.                                                             *)
<1>8. RegOf(R, S)
  BY DEF RegInv, S
<1>9. /\ \A m \in S \ {n} : R.opt[m].id # o.id
      /\ \A m \in S \ {n} : R.opt[m].long # None => R.opt[m].long # o.long
  BY <1>1, <1>8 DEF RegOf, o
<1>10. /\ \A m \in S \ {n} : Q.opt[m].id \in DOMAIN AsMap(ids) /\ AsMap(ids)[Q.opt[m].id] = m
       /\ \A i \in DOMAIN AsMap(ids) :
             AsMap(ids)[i] \in S \ {n} /\ Q.opt[AsMap(ids)[i]].id = i
  <2>1. /\ DOMAIN AsMap(ids) = DOMAIN AsMap(R.ids) \ {o.id}
        /\ \A i \in DOMAIN AsMap(ids) : AsMap(ids)[i] = AsMap(R.ids)[i]
    BY <1>4 DEF Less
  <2>2. /\ \A m \in S : R.opt[m].id \in DOMAIN AsMap(R.ids) /\ AsMap(R.ids)[R.opt[m].id] = m
        /\ \A i \in DOMAIN AsMap(R.ids) :
              AsMap(R.ids)[i] \in S /\ R.opt[AsMap(R.ids)[i]].id = i
    BY <1>8 DEF RegOf
  <2>3. \A i \in DOMAIN AsMap(ids) : AsMap(R.ids)[i] # n
    BY <2>1, <2>2 DEF o
  <2>4. QED
    BY <1>6, <1>9, <2>1, <2>2, <2>3
<1>11. /\ \A m \in S \ {n} : Q.opt[m].long # None =>
             Q.opt[m].long \in DOMAIN AsMap(longs) /\ AsMap(longs)[Q.opt[m].long] = m
       /\ \A i \in DOMAIN AsMap(longs) :
             i # None /\ AsMap(longs)[i] \in S \ {n} /\ Q.opt[AsMap(longs)[i]].long = i
  <2>1. /\ \A m \in S : R.opt[m].long # None =>
              R.opt[m].long \in DOMAIN AsMap(R.longs) /\ AsMap(R.longs)[R.opt[m].long] = m
        /\ \A i \in DOMAIN AsMap(R.longs) :
              i # None /\ AsMap(R.longs)[i] \in S /\ R.opt[AsMap(R.longs)[i]].long = i
    BY <1>8 DEF RegOf
  <2>2. /\ DOMAIN AsMap(longs) = DOMAIN AsMap(R.longs) \ {o.long}
        /\ \A i \in DOMAIN AsMap(longs) : AsMap(longs)[i] = AsMap(R.longs)[i]
    <3>1. CASE o.long = None
      BY <1>4, <2>1, <3>1 DEF LessOf
    <3>2. CASE o.long # None
      BY <1>4, <3>2 DEF LessOf, Less
    <3>3. QED
      BY <3>1, <3>2
  <2>3. \A i \in DOMAIN AsMap(longs) : AsMap(R.longs)[i] # n
    BY <2>1, <2>2 DEF o
  <2>4. QED
    BY <1>6, <1>9, <2>1, <2>2, <2>3
(* The short names.                                                        *)
<1>12. \A m \in S \ {n} : Q.opt[m].short # None => Q.short[Q.opt[m].short] = m
  BY <1>5, <1>6, <1>8 DEF RegOf
<1>13. ASSUME NEW T, ShortOf(R, S, T) PROVE ShortOf(Q, S \ {n}, T \cup ({o.short} \ {None}))
  <2>. SUFFICES ASSUME NEW c \in ShortNames, c \notin T, c # o.short \/ o.short = None,
                       Q.short[c] # Null
                PROVE  Q.short[c] \in S \ {n} /\ Q.opt[Q.short[c]].short = c
    BY DEF ShortOf
  <2>1. R.short[c] \in S /\ R.opt[R.short[c]].short = c
    BY <1>5, <1>13 DEF ShortOf
  <2>2. CASE R.short[c] = n
    <3>1. c = o.short
      BY <2>1, <2>2 DEF o
    <3>2. o.short = None /\ R.opt[n].short = c
      BY <2>1, <2>2, <3>1
    <3>3. QED
      BY <3>1, <3>2, CliStringsOK
  <2>3. QED
    BY <1>5, <1>6, <2>1, <2>2
<1>14. RegOf(Q, S \ {n})
  <2>1. \A m \in S \ {n} : Q.opt[m] \in Options
    BY <1>6, <1>8 DEF RegOf
  <2>2. S \ {n} \subseteq Addresses
    BY <1>1
  <2>3. QED
    BY <1>4, <1>5, <1>7, <1>10, <1>11, <1>12, <2>1, <2>2 DEF RegOf
<1>15. RemovedFrom(R, Q, n)
  BY <1>4, <1>5, <1>6, <1>13, <1>14 DEF RemovedFrom, RegInv, S, o
<1>16. QED
  BY <1>15 DEF Q

(* What cli_remove_opt may do to the registry, and what it leaves behind.  *)
RemoveResult(R, id, Q, orphans) ==
    \/ /\ Q = R /\ orphans = {}
       /\ id \in DOMAIN AsMap(R.ids) => R.opt[AsMap(R.ids)[id]].internal
    \/ /\ id \in DOMAIN AsMap(R.ids)
       /\ ~R.opt[AsMap(R.ids)[id]].internal
       /\ RemovedFrom(R, Q, AsMap(R.ids)[id])
       /\ orphans = {R.opt[AsMap(R.ids)[id]].short} \ {None}

LEMMA OptRemoved ==
    ASSUME NEW R, RegInv(R), NEW id \in DOMAIN Hash
    PROVE  RemoveResult(R, id, cli_remove_opt(R, id), Orphans(R, id))
<1>1. TableInv(R.ids) /\ Null \notin Addresses
  BY CliConstantsOK DEF RegInv, RegOf
<1>2. cli_hash_table_get(R.ids, id) = IF id \in DOMAIN AsMap(R.ids) THEN AsMap(R.ids)[id] ELSE Null
  BY <1>1, GetIs
<1>3. CASE id \notin DOMAIN AsMap(R.ids)
  BY <1>2, <1>3 DEF RemoveResult, cli_remove_opt, Orphans, Removable
<1>4. CASE id \in DOMAIN AsMap(R.ids)
  <2>. DEFINE n == AsMap(R.ids)[id]
  <2>1. n \in Living(R) /\ n # Null
    BY <1>1, <1>4 DEF RegInv, RegOf, Living
  <2>2. cli_hash_table_get(R.ids, id) = n
    BY <1>2, <1>4
  <2>. HIDE DEF n
  <2>3. RemovedFrom(R, Removed(R, n), n)
    BY <2>1, RemovedKeeps
  <2>4. CASE R.opt[n].internal
    BY <1>4, <2>1, <2>2, <2>4 DEF RemoveResult, cli_remove_opt, Orphans, Removable, n
  <2>5. CASE ~R.opt[n].internal
    BY <1>4, <2>1, <2>2, <2>3, <2>5 DEF RemoveResult, cli_remove_opt, Orphans, Removable, n
  <2>6. QED
    BY <2>4, <2>5
<1>5. QED
  BY <1>3, <1>4

-----------------------------------------------------------------------------
(* The registry through the steps of the command line                      *)

(* Of the array l the options numbered in J were taken in, and may be      *)
(* removed again; B: the ids that were there before.                       *)
Taken(R, B, l, J) ==
    /\ DOMAIN AsMap(R.ids) = B \cup {l[j].id : j \in J}
    /\ \A j \in J : l[j].id \notin B /\ ~R.opt[AsMap(R.ids)[l[j].id]].internal
    /\ \A i, j \in J : l[i].id = l[j].id => i = j

InList == IF pc = "adding" THEN 1 .. at - 1 ELSE at .. Len(list)

ListInv ==
    /\ pc \in {"adding", "undoing"} =>
          /\ list \in Seq(Options) /\ at \in 1 .. Len(list) /\ result = "none"
          /\ Taken(reg, before, list, InList)
    /\ result = "refused" => DOMAIN AsMap(reg.ids) = before
    /\ cli = "none" => pc = "idle" /\ result = "none"

CliInv ==
    /\ RegInv(reg) /\ ShortOf(reg, Living(reg), lost)
    /\ ub = "option" => lost # {}
    /\ ListInv

(* How the registry may change in one step.                                *)
RegistryChange ==
    \/ reg' = reg
    \/ reg' = EmptyRegistry
    \/ \E o \in Options, ok \in BOOLEAN : AddResult(reg, o, <<reg', ok>>)
    \/ \E id \in DOMAIN Hash : RemoveResult(reg, id, reg', Orphans(reg, id))

LEMMA NothingRegistered ==
    /\ RegInv(EmptyRegistry) /\ Living(EmptyRegistry) = {}
    /\ AsMap(EmptyRegistry.ids) = <<>> /\ AsMap(EmptyRegistry.longs) = <<>>
    /\ \A T : ShortOf(EmptyRegistry, {}, T)
<1>. DEFINE E == EmptyRegistry
<1>1. /\ E \in RegType /\ E.opt = [n \in Addresses |-> Null]
      /\ E.required = Null /\ E.optional = Null
      /\ E.ids = cli_hash_table_create /\ E.longs = cli_hash_table_create
      /\ E.short = [c \in ShortNames |-> Null]
  <2>1. cli_hash_table_create \in TableType
    BY EmptyTable DEF TableInv
  <2>2. QED
    BY <2>1 DEF EmptyRegistry, RegType, Memory
<1>. HIDE DEF E
<1>2. Living(E) = {} /\ RequiredOf(E, {}) = {} /\ OptionalOf(E, {}) = {}
  BY <1>1 DEF Living, RequiredOf, OptionalOf
<1>3. /\ TableInv(E.ids) /\ TableInv(E.longs) /\ AsMap(E.ids) = <<>> /\ AsMap(E.longs) = <<>>
      /\ DOMAIN AsMap(E.ids) = {} /\ DOMAIN AsMap(E.longs) = {}
  BY <1>1, EmptyTable
<1>4. \A l : Ring(l, Null, {}, Addresses)
  <2>1. <<>> \in Seq(Addresses) /\ Len(<<>>) = 0
    OBVIOUS
  <2>2. \A l : IsRing(l, Null, <<>>)
    BY <2>1 DEF IsRing, Distinct
  <2>3. {<<>>[i] : i \in 1 .. Len(<<>>)} = {}
    BY <2>1
  <2>4. QED
    BY <2>1, <2>2, <2>3 DEF Ring
<1>5. RegOf(E, {})
  BY <1>1, <1>2, <1>3, <1>4 DEF RegOf
<1>6. \A T : ShortOf(E, {}, T)
  BY <1>1 DEF ShortOf
<1>7. QED
  BY <1>1, <1>2, <1>3, <1>5, <1>6 DEF RegInv, E

LEMMA CliInvInit == Init => CliInv /\ reg = EmptyRegistry
BY NothingRegistered DEF Init, CliInv, ListInv

(* An option is added, or not.                                             *)
LEMMA AddResultKeeps ==
    ASSUME NEW R, RegInv(R), NEW o \in Options, NEW r, AddResult(R, o, r)
    PROVE  /\ RegInv(r[1]) /\ r[2] \in BOOLEAN
           /\ \A T : ShortOf(R, Living(R), T) => ShortOf(r[1], Living(r[1]), T)
           /\ ~r[2] => r[1].opt = R.opt /\ AsMap(r[1].ids) = AsMap(R.ids)
           /\ r[2] => \E n \in Addresses : AddedTo(R, r[1], n, o)
<1>1. CASE r[2] = FALSE /\ Unadded(R, r[1])
  BY <1>1, UnaddedKeeps DEF Unadded
<1>2. CASE r[2] = TRUE /\ \E n \in Addresses : AddedTo(R, r[1], n, o)
  BY <1>2, AddedKeeps
<1>3. QED
  BY <1>1, <1>2 DEF AddResult

LEMMA TakenMore ==
    ASSUME NEW R, RegInv(R), NEW Q, NEW n, NEW o \in Options, AddedTo(R, Q, n, o), ~o.internal,
           NEW B, NEW l, NEW i \in Nat \ {0}, l[i] = o, Taken(R, B, l, 1 .. i - 1)
    PROVE  Taken(Q, B, l, 1 .. i)
<1>. DEFINE J == 1 .. i - 1
            K == 1 .. i
            f == AsMap(R.ids)
            g == AsMap(Q.ids)
<1>1. K = J \cup {i} /\ i \notin J
  OBVIOUS
<1>2. /\ R.opt \in [Addresses -> Options \cup {Null}] /\ n \in Addresses /\ R.opt[n] = Null
      /\ Q.opt = [R.opt EXCEPT ![n] = o]
      /\ o.id \notin DOMAIN f /\ g = With(f, o.id, n)
      /\ \A k \in DOMAIN f : f[k] \in Addresses /\ f[k] # n
  BY DEF RegInv, RegType, RegOf, AddedTo, Living
<1>3. /\ DOMAIN f = B \cup {l[j].id : j \in J}
      /\ \A j \in J : l[j].id \notin B /\ ~R.opt[f[l[j].id]].internal
      /\ \A j, k \in J : l[j].id = l[k].id => j = k
  BY DEF Taken
<1>. HIDE DEF f, g, J, K
<1>4. /\ DOMAIN g = DOMAIN f \cup {o.id} /\ g[o.id] = n
      /\ \A k \in DOMAIN f : g[k] = f[k]
  BY <1>2 DEF With
<1>5. \A j \in J : l[j].id \in DOMAIN f
  BY <1>3
<1>6. DOMAIN g = B \cup {l[j].id : j \in K}
  BY <1>1, <1>3, <1>4
<1>7. \A j \in K : l[j].id \notin B /\ ~Q.opt[g[l[j].id]].internal
  <2>1. ASSUME NEW j \in J PROVE l[j].id \notin B /\ ~Q.opt[g[l[j].id]].internal
    <3>1. g[l[j].id] = f[l[j].id] /\ f[l[j].id] \in Addresses /\ f[l[j].id] # n
      BY <1>2, <1>4, <1>5
    <3>2. Q.opt[g[l[j].id]] = R.opt[f[l[j].id]]
      BY <1>2, <3>1
    <3>3. QED
      BY <1>3, <3>2
  <2>2. l[i].id \notin B /\ ~Q.opt[g[l[i].id]].internal
    BY <1>2, <1>3, <1>4
  <2>3. QED
    BY <1>1, <2>1, <2>2
<1>8. \A j, k \in K : l[j].id = l[k].id => j = k
  BY <1>1, <1>2, <1>3, <1>5
<1>9. QED
  BY <1>6, <1>7, <1>8 DEF Taken, f, g, K

LEMMA TakenLess ==
    ASSUME NEW R, RegInv(R), NEW Q, NEW n, RemovedFrom(R, Q, n),
           NEW B, NEW l, NEW i \in Nat, NEW k \in Nat, i <= k, Taken(R, B, l, i .. k),
           n = AsMap(R.ids)[l[i].id]
    PROVE  Taken(Q, B, l, i + 1 .. k)
<1>. DEFINE J == i + 1 .. k
            K == i .. k
            f == AsMap(R.ids)
            g == AsMap(Q.ids)
<1>1. K = J \cup {i} /\ i \notin J
  OBVIOUS
<1>2. /\ DOMAIN f = B \cup {l[j].id : j \in K}
      /\ \A j \in K : l[j].id \notin B /\ ~R.opt[f[l[j].id]].internal
      /\ \A j, m \in K : l[j].id = l[m].id => j = m
  BY DEF Taken
<1>. HIDE DEF J, K
<1>3. l[i].id \in DOMAIN f
  BY <1>1, <1>2
<1>4. R.opt[n].id = l[i].id
  BY <1>3 DEF RegInv, RegOf
<1>5. /\ g = Less(f, l[i].id)
      /\ \A m \in Living(Q) : Q.opt[m] = R.opt[m]
      /\ \A m \in DOMAIN g : g[m] \in Living(Q)
  <2>1. RegInv(Q) /\ \A m \in Living(Q) : Q.opt[m] = R.opt[m]
    BY DEF RemovedFrom
  <2>2. RegOf(Q, Living(Q))
    BY <2>1 DEF RegInv
  <2>3. \A m \in DOMAIN g : g[m] \in Living(Q)
    BY <2>2 DEF RegOf
  <2>4. QED
    BY <1>4, <2>1, <2>3 DEF RemovedFrom
<1>. HIDE DEF f, g
<1>6. DOMAIN g = DOMAIN f \ {l[i].id} /\ \A m \in DOMAIN g : g[m] = f[m]
  BY <1>5 DEF Less
<1>7. \A j \in J : l[j].id # l[i].id
  BY <1>1, <1>2
<1>8. DOMAIN g = B \cup {l[j].id : j \in J}
  BY <1>1, <1>2, <1>6, <1>7
<1>9. ASSUME NEW j \in J PROVE l[j].id \notin B /\ ~Q.opt[g[l[j].id]].internal
  <2>1. l[j].id \in DOMAIN g
    BY <1>8
  <2>2. Q.opt[g[l[j].id]] = R.opt[f[l[j].id]]
    BY <1>5, <1>6, <2>1
  <2>3. QED
    BY <1>1, <1>2, <2>2
<1>10. \A j, m \in J : l[j].id = l[m].id => j = m
  BY <1>1, <1>2
<1>11. QED
  BY <1>8, <1>9, <1>10 DEF Taken, f, g, J

(* Only the map and the options count.                                     *)
LEMMA TakenSame ==
    ASSUME NEW R, NEW Q, Q.opt = R.opt, AsMap(Q.ids) = AsMap(R.ids),
           NEW B, NEW l, NEW J, Taken(R, B, l, J),
           NEW s, \A j \in J : s[j] = l[j]
    PROVE  Taken(Q, B, s, J)
BY DEF Taken

LEMMA CreateKeeps == CliInv /\ CliCreate => CliInv' /\ RegistryChange
<1>. SUFFICES ASSUME CliInv, CliCreate PROVE CliInv' /\ RegistryChange
  OBVIOUS
<1>1. /\ RegInv(reg) /\ ShortOf(reg, Living(reg), lost) /\ (ub = "option" => lost # {})
      /\ cli = "none" /\ pc = "idle" /\ result = "none" /\ cli' # "none"
      /\ UNCHANGED <<pc, result, lost, ub>>
  BY DEF CliInv, ListInv, CliCreate
<1>2. AutoHelp \in Options
  BY CliStringsOK DEF AutoHelp, Options
<1>3. RegInv(reg') /\ ShortOf(reg', Living(reg'), lost) /\ RegistryChange
  <2>1. PICK r \in AddOpt(reg, AutoHelp) \cup {<<reg, TRUE>>} : reg' = r[1] \/ reg' = reg
    BY DEF CliCreate
  <2>2. CASE reg' = reg
    BY <1>1, <2>2 DEF RegistryChange
  <2>3. CASE reg' # reg
    <3>1. r \in AddOpt(reg, AutoHelp) /\ reg' = r[1]
      <4>1. r = <<reg, TRUE>> => r[1] = reg
        OBVIOUS
      <4>2. QED
        BY <2>1, <2>3, <4>1
    <3>2. AddResult(reg, AutoHelp, r)
      BY <1>1, <1>2, <3>1, OptAdded
    <3>3. /\ RegInv(r[1]) /\ r[2] \in BOOLEAN
          /\ \A T : ShortOf(reg, Living(reg), T) => ShortOf(r[1], Living(r[1]), T)
      BY <1>1, <1>2, <3>2, AddResultKeeps
    <3>4. AddResult(reg, AutoHelp, <<reg', r[2]>>)
      BY <3>1, <3>2 DEF AddResult
    <3>5. QED
      BY <1>1, <1>2, <3>1, <3>3, <3>4 DEF RegistryChange
  <2>4. QED
    BY <2>2, <2>3
<1>4. ListInv'
  BY <1>1 DEF ListInv
<1>5. QED
  BY <1>1, <1>3, <1>4 DEF CliInv

LEMMA BeginKeeps ==
    ASSUME CliInv, NEW l \in Lists, AddOptsBegin(l) PROVE CliInv' /\ RegistryChange
<1>1. l \in Seq(Options) /\ l # <<>>
  BY CliConstantsOK, CliStringsOK, ProgramConstantsOK DEF Lists
<1>2. /\ UNCHANGED <<reg, lost, ub, cli>> /\ cli = "made"
      /\ pc' = "adding" /\ list' = l /\ at' = 1 /\ result' = "none"
      /\ before' = DOMAIN AsMap(reg.ids)
  BY DEF AddOptsBegin, Idle, AllIds
<1>3. at' \in 1 .. Len(l)
  BY <1>1, <1>2
<1>4. InList' = {}
  BY <1>2 DEF InList
<1>5. Taken(reg, before, list, InList)'
  BY <1>2, <1>4 DEF Taken
<1>6. ListInv'
  BY <1>1, <1>2, <1>3, <1>5 DEF ListInv
<1>7. QED
  BY <1>2, <1>6 DEF CliInv, RegistryChange

LEMMA AddStepKeeps == CliInv /\ AddOptsStep => CliInv' /\ RegistryChange
<1>. SUFFICES ASSUME CliInv, AddOptsStep PROVE CliInv' /\ RegistryChange
  OBVIOUS
<1>. DEFINE o == list[at]
<1>1. /\ RegInv(reg) /\ ShortOf(reg, Living(reg), lost) /\ (ub = "option" => lost # {})
      /\ pc = "adding" /\ list \in Seq(Options) /\ at \in 1 .. Len(list) /\ result = "none"
      /\ o \in Options /\ Taken(reg, before, list, 1 .. at - 1)
      /\ cli # "none" /\ UNCHANGED <<cli, before, lost, ub>>
  BY DEF CliInv, ListInv, InList, AddOptsStep
<1>2. PICK r \in cli_add_opt(reg, o) :
         /\ reg' = r[1]
         /\ \/ /\ r[2] /\ at < Len(list)
               /\ at' = at + 1
               /\ UNCHANGED <<pc, list, result>>
            \/ /\ r[2] /\ at = Len(list)
               /\ pc' = "idle" /\ result' = "added" /\ list' = <<>> /\ at' = 0
            \/ /\ ~r[2] /\ at > 1
               /\ pc' = "undoing" /\ list' = SubSeq(list, 1, at - 1) /\ at' = 1
               /\ UNCHANGED result
            \/ /\ ~r[2] /\ at = 1
               /\ pc' = "idle" /\ result' = "refused" /\ list' = <<>> /\ at' = 0
  BY DEF AddOptsStep
<1>. HIDE DEF o
<1>3. AddResult(reg, o, r) /\ (r[2] => ~o.internal)
  <2>1. CASE r \in AddOpt(reg, o) /\ cli_opt_check(o) /\ ~o.internal
    BY <1>1, <2>1, OptAdded
  <2>2. CASE r = <<reg, FALSE>>
    <3>1. Unadded(reg, reg)
      BY <1>1 DEF Unadded, RegInv, RegOf
    <3>2. QED
      BY <2>2, <3>1 DEF AddResult
  <2>3. QED
    BY <1>2, <2>1, <2>2 DEF cli_add_opt
<1>4. /\ RegInv(r[1]) /\ r[2] \in BOOLEAN
      /\ \A T : ShortOf(reg, Living(reg), T) => ShortOf(r[1], Living(r[1]), T)
      /\ ~r[2] => r[1].opt = reg.opt /\ AsMap(r[1].ids) = AsMap(reg.ids)
      /\ r[2] => \E n \in Addresses : AddedTo(reg, r[1], n, o)
  BY <1>1, <1>3, AddResultKeeps
<1>5. RegInv(reg') /\ ShortOf(reg', Living(reg'), lost) /\ RegistryChange
  <2>1. AddResult(reg, o, <<reg', r[2]>>)
    BY <1>2, <1>3 DEF AddResult
  <2>2. QED
    BY <1>1, <1>2, <1>4, <2>1 DEF RegistryChange
<1>6. ListInv'
  <2>1. CASE r[2] /\ at < Len(list)
    <3>1. UNCHANGED <<pc, list, result>> /\ at' = at + 1
      BY <1>2, <2>1
    <3>2. PICK n \in Addresses : AddedTo(reg, reg', n, o)
      BY <1>2, <1>4, <2>1
    <3>3. at \in Nat \ {0} /\ list[at] = o /\ ~o.internal
      BY <1>1, <1>3, <2>1 DEF o
    <3>4. Taken(reg', before, list, 1 .. at)
      BY <1>1, <3>2, <3>3, TakenMore
    <3>5. at' \in 1 .. Len(list) /\ at + 1 - 1 = at
      BY <1>1, <2>1, <3>1
    <3>6. InList' = 1 .. at
      BY <1>1, <3>1, <3>5 DEF InList
    <3>7. QED
      BY <1>1, <3>1, <3>4, <3>5, <3>6 DEF ListInv
  <2>2. CASE r[2] /\ at = Len(list)
    <3>1. pc' = "idle" /\ result' = "added"
      BY <1>1, <1>2, <2>2
    <3>2. QED
      BY <1>1, <3>1 DEF ListInv
  <2>3. CASE ~r[2] /\ at > 1
    <3>. DEFINE s == SubSeq(list, 1, at - 1)
    <3>1. pc' = "undoing" /\ list' = s /\ at' = 1 /\ result' = "none"
      BY <1>1, <1>2, <2>3
    <3>2. /\ s \in Seq(Options) /\ Len(s) = at - 1 /\ at - 1 \in Nat \ {0}
          /\ \A j \in 1 .. at - 1 : s[j] = list[j]
      BY <1>1, <2>3
    <3>. HIDE DEF s
    <3>3. Taken(reg', before, s, 1 .. at - 1)
      <4>1. reg'.opt = reg.opt /\ AsMap(reg'.ids) = AsMap(reg.ids)
        BY <1>2, <1>4, <2>3
      <4>2. QED
        BY <1>1, <3>2, <4>1, TakenSame
    <3>4. InList' = 1 .. at - 1 /\ at' \in 1 .. Len(list')
      <4>1. pc' # "adding" /\ Len(list') = at - 1 /\ at' = 1
        BY <3>1, <3>2
      <4>2. InList' = at' .. Len(list')
        BY <4>1 DEF InList
      <4>3. at \in Nat /\ 1 \in 1 .. at - 1
        BY <1>1, <2>3
      <4>4. InList' = 1 .. at - 1
        BY ONLY <4>1, <4>2, Zenon
      <4>5. at' \in 1 .. Len(list')
        BY ONLY <4>1, <4>3, Zenon
      <4>6. QED
        BY <4>4, <4>5
    <3>5. QED
      BY <1>1, <3>1, <3>2, <3>3, <3>4 DEF ListInv
  <2>4. CASE ~r[2] /\ at = 1
    <3>1. pc' = "idle" /\ result' = "refused"
      BY <1>2, <2>4
    <3>2. AsMap(reg'.ids) = AsMap(reg.ids)
      BY <1>2, <1>4, <2>4
    <3>3. DOMAIN AsMap(reg.ids) = before
      BY <1>1, <2>4 DEF Taken
    <3>4. QED
      BY <1>1, <3>1, <3>2, <3>3 DEF ListInv
  <2>5. QED
    BY <1>1, <1>4, <2>1, <2>2, <2>3, <2>4
<1>7. QED
  BY <1>1, <1>5, <1>6 DEF CliInv

LEMMA UndoKeeps == CliInv /\ AddOptsUndo => CliInv' /\ RegistryChange
<1>. SUFFICES ASSUME CliInv, AddOptsUndo PROVE CliInv' /\ RegistryChange
  OBVIOUS
<1>. DEFINE id == list[at].id
            n == AsMap(reg.ids)[id]
<1>1. /\ RegInv(reg) /\ ShortOf(reg, Living(reg), lost) /\ (ub = "option" => lost # {})
      /\ pc = "undoing" /\ list \in Seq(Options) /\ at \in 1 .. Len(list) /\ result = "none"
      /\ Taken(reg, before, list, at .. Len(list))
      /\ UNCHANGED <<cli, before, ub>> /\ cli # "none"
      /\ reg' = cli_remove_opt(reg, id) /\ lost' = lost \cup Orphans(reg, id)
  BY DEF CliInv, ListInv, InList, AddOptsUndo, RemoveOne
<1>2. /\ at \in Nat /\ Len(list) \in Nat /\ at <= Len(list) /\ at \in at .. Len(list)
      /\ list[at] \in Options /\ id \in DOMAIN Hash
  <2>1. at \in Nat /\ Len(list) \in Nat /\ at <= Len(list) /\ at \in at .. Len(list)
    BY <1>1
  <2>2. list[at] \in Options
    BY <1>1
  <2>3. QED
    BY <2>1, <2>2 DEF Options
<1>3. id \in DOMAIN AsMap(reg.ids) /\ ~reg.opt[n].internal
  BY <1>1, <1>2 DEF Taken
<1>. HIDE DEF id
<1>4. RemoveResult(reg, id, reg', Orphans(reg, id))
  BY <1>1, <1>2, OptRemoved
<1>5. RemovedFrom(reg, reg', n) /\ Orphans(reg, id) = {reg.opt[n].short} \ {None}
  BY <1>3, <1>4 DEF RemoveResult
<1>6. RegInv(reg') /\ ShortOf(reg', Living(reg'), lost') /\ (ub' = "option" => lost' # {})
  BY <1>1, <1>5 DEF RemovedFrom
<1>7. RegistryChange
  BY <1>2, <1>4 DEF RegistryChange
<1>8. Taken(reg', before, list, at + 1 .. Len(list))
  BY <1>1, <1>2, <1>5, TakenLess DEF id
<1>9. ListInv'
  <2>1. CASE at < Len(list)
    <3>1. at' = at + 1 /\ UNCHANGED <<pc, list, result>>
      BY <2>1 DEF AddOptsUndo
    <3>2. InList' = at + 1 .. Len(list) /\ at' \in 1 .. Len(list)
      BY <1>1, <1>2, <2>1, <3>1 DEF InList
    <3>3. QED
      BY <1>1, <1>8, <3>1, <3>2 DEF ListInv
  <2>2. CASE at = Len(list)
    <3>1. pc' = "idle" /\ result' = "refused"
      BY <1>2, <2>2 DEF AddOptsUndo
    <3>2. at + 1 .. Len(list) = {}
      BY <1>2, <2>2
    <3>3. DOMAIN AsMap(reg'.ids) = before
      BY <1>8, <3>2 DEF Taken
    <3>4. QED
      BY <1>1, <3>1, <3>3 DEF ListInv
  <2>3. QED
    BY <1>2, <2>1, <2>2
<1>10. QED
  BY <1>6, <1>7, <1>9 DEF CliInv

LEMMA RemoveOptKeeps ==
    ASSUME CliInv, NEW id \in AllIds \cup {"port"}, RemoveOpt(id)
    PROVE  CliInv' /\ RegistryChange
<1>1. /\ RegInv(reg) /\ ShortOf(reg, Living(reg), lost) /\ (ub = "option" => lost # {})
      /\ reg' = cli_remove_opt(reg, id) /\ lost' = lost \cup Orphans(reg, id)
      /\ UNCHANGED <<cli, pc, ub>> /\ cli = "made" /\ pc = "idle" /\ result' = "none"
  BY DEF CliInv, RemoveOpt, RemoveOne, Idle
<1>2. id \in DOMAIN Hash
  <2>1. TableInv(reg.ids)
    BY <1>1 DEF RegInv, RegOf
  <2>2. QED
    BY <2>1, MapTyped, ProgramConstantsOK DEF AllIds
<1>3. RemoveResult(reg, id, reg', Orphans(reg, id))
  BY <1>1, <1>2, OptRemoved
<1>4. RegInv(reg') /\ ShortOf(reg', Living(reg'), lost') /\ (ub' = "option" => lost' # {})
  <2>1. CASE reg' = reg /\ Orphans(reg, id) = {}
    BY <1>1, <2>1
  <2>2. CASE /\ RemovedFrom(reg, reg', AsMap(reg.ids)[id])
             /\ Orphans(reg, id) = {reg.opt[AsMap(reg.ids)[id]].short} \ {None}
    BY <1>1, <2>2 DEF RemovedFrom
  <2>3. QED
    BY <1>3, <2>1, <2>2 DEF RemoveResult
<1>5. ListInv'
  BY <1>1 DEF ListInv
<1>6. QED
  BY <1>2, <1>3, <1>4, <1>5 DEF CliInv, RegistryChange

LEMMA DestroyKeeps == CliInv /\ CliDestroy => CliInv' /\ RegistryChange
<1>. SUFFICES ASSUME CliInv, CliDestroy PROVE CliInv' /\ RegistryChange
  OBVIOUS
<1>1. /\ reg' = EmptyRegistry /\ lost' = {} /\ result' = "none" /\ ub' = "none"
      /\ cli' = "gone" /\ pc' = "idle"
  BY DEF CliDestroy, Idle
<1>2. QED
  BY <1>1, NothingRegistered DEF CliInv, ListInv, RegistryChange

(* What is found is a living option, if no short name was left behind and  *)
(* the array has a place for the character.                                *)
LEMMA FoundLives ==
    ASSUME CliInv, NEW tok \in Tokens, lost = {}, ~OutOfBounds(tok), Found(tok) # Null
    PROVE  Found(tok) \in Living(reg)
<1>1. RegInv(reg) /\ ShortOf(reg, Living(reg), {}) /\ TableInv(reg.longs)
  BY DEF CliInv, RegInv, RegOf
<1>2. CASE tok.kind = "long"
  <2>1. tok.name \in DOMAIN Hash
    BY <1>2, CliStringsOK
  <2>2. Found(tok) = IF tok.name \in DOMAIN AsMap(reg.longs) THEN AsMap(reg.longs)[tok.name]
                     ELSE Null
    BY <1>1, <1>2, <2>1, GetIs DEF Found
  <2>3. QED
    BY <1>1, <2>2 DEF RegInv, RegOf
<1>3. CASE tok.kind # "long"
  <2>1. tok.name \in ShortNames /\ Found(tok) = reg.short[tok.name]
    BY <1>3 DEF Found, OutOfBounds
  <2>2. QED
    BY <1>1, <2>1 DEF ShortOf
<1>4. QED
  BY <1>2, <1>3

(* Matching leaves the registry alone; it finds a freed option only behind *)
(* a short name that a removal left.                                       *)
LEMMA MatchKeeps == CliInv /\ MatchStep => CliInv' /\ RegistryChange
<1>. SUFFICES ASSUME CliInv, MatchStep PROVE CliInv' /\ RegistryChange
  OBVIOUS
<1>1. /\ UNCHANGED <<reg, list, at, before, result, lost>>
      /\ cli = "made" /\ cli' # "none" /\ pc' \in {"idle", "matching", "matched"}
  <2>1. \A tok : MatchOutside(tok) \/ MatchUnknown(tok) \/ MatchFreed(tok) \/ MatchHelp(tok)
                     \/ MatchNoArg(tok) \/ MatchBadArg(tok) =>
           /\ UNCHANGED <<reg, list, at, before, result, lost>>
           /\ cli = "made" /\ cli' # "none" /\ pc' \in {"idle", "matching", "matched"}
    BY DEF MatchOutside, MatchUnknown, MatchFreed, MatchHelp, MatchNoArg, MatchBadArg,
       ReportError, Refuse, Matching_, registry
  <2>2. \A tok, k : MatchRepeated(tok, k) \/ MatchNew(tok, k) \/ MatchNewFails(tok, k) =>
           /\ UNCHANGED <<reg, list, at, before, result, lost>>
           /\ cli = "made" /\ cli' # "none" /\ pc' \in {"idle", "matching", "matched"}
    BY DEF MatchRepeated, MatchNew, MatchNewFails, Refuse, Matching_, registry
  <2>3. MatchBegin \/ MatchEnd \/ MatchDestroy =>
           /\ UNCHANGED <<reg, list, at, before, result, lost>>
           /\ cli = "made" /\ cli' # "none" /\ pc' \in {"idle", "matching", "matched"}
    BY DEF MatchBegin, MatchEnd, MatchDestroy, Refuse, Idle, Matching_, registry
  <2>4. QED
    BY <2>1, <2>2, <2>3 DEF MatchStep
<1>2. \A tok \in Tokens : MatchFreed(tok) => lost # {}
  BY FoundLives DEF MatchFreed, Living
<1>3. ub' = "option" => lost # {}
  <2>. SUFFICES ASSUME ub' = "option", ub # "option" PROVE \E tok \in Tokens : MatchFreed(tok)
    BY <1>2 DEF CliInv
  <2>1. \A tok : ~(MatchOutside(tok) \/ MatchUnknown(tok) \/ MatchHelp(tok) \/ MatchNoArg(tok)
                      \/ MatchBadArg(tok))
    BY DEF MatchOutside, MatchUnknown, MatchHelp, MatchNoArg, MatchBadArg, ReportError, Refuse,
       MatchDestroyed
  <2>2. \A tok, k : ~(MatchRepeated(tok, k) \/ MatchNew(tok, k) \/ MatchNewFails(tok, k))
    BY DEF MatchRepeated, MatchNew, MatchNewFails, Refuse, MatchDestroyed
  <2>3. ~(MatchBegin \/ MatchEnd \/ MatchDestroy)
    BY DEF MatchBegin, MatchEnd, MatchDestroy, Refuse, MatchDestroyed
  <2>4. QED
    BY <2>1, <2>2, <2>3 DEF MatchStep
<1>4. ListInv'
  BY <1>1 DEF ListInv, CliInv
<1>5. QED
  BY <1>1, <1>3, <1>4 DEF CliInv, RegistryChange

LEMMA CliKept == CliInv /\ [CliNext]_vars => CliInv' /\ (RegistryChange \/ UNCHANGED reg)
<1>. SUFFICES ASSUME CliInv, [CliNext]_vars PROVE CliInv' /\ (RegistryChange \/ UNCHANGED reg)
  OBVIOUS
<1>1. CASE UNCHANGED vars
  BY <1>1 DEF vars, registry, CliInv, ListInv, InList
<1>2. CASE CliNext
  BY <1>2, CreateKeeps, BeginKeeps, AddStepKeeps, UndoKeeps, RemoveOptKeeps, DestroyKeeps,
     MatchKeeps DEF CliNext
<1>3. QED
  BY <1>1, <1>2

-----------------------------------------------------------------------------

LEMMA CliInvAgrees == CliInv => TablesAgree
<1>. SUFFICES ASSUME CliInv PROVE TablesAgree
  OBVIOUS
<1>1. /\ RegOf(reg, Living(reg)) /\ reg.ring \in Memory(Addresses) /\ Alive = Living(reg)
      /\ TableInv(reg.ids) /\ TableInv(reg.longs)
      /\ IsFiniteSet(Addresses) /\ Null \notin Addresses
  BY CliConstantsOK DEF CliInv, RegInv, RegType, RegOf, Alive, Living
<1>2. /\ Visited(reg.ring, reg.required) = RequiredOf(reg, Living(reg))
      /\ Closed(reg.ring, reg.required)
  <2>1. Ring(reg.ring, reg.required, RequiredOf(reg, Living(reg)), Addresses)
    BY <1>1 DEF RegOf
  <2>2. QED
    BY <1>1, <2>1, RingVisited
<1>3. /\ Visited(reg.ring, reg.optional) = OptionalOf(reg, Living(reg))
      /\ Closed(reg.ring, reg.optional)
  <2>1. Ring(reg.ring, reg.optional, OptionalOf(reg, Living(reg)), Addresses)
    BY <1>1 DEF RegOf
  <2>2. QED
    BY <1>1, <2>1, RingVisited
<1>4. TableSound(reg.ids) /\ TableSound(reg.longs)
  BY <1>1, SoundTable
<1>5. /\ \A id \in AllIds : cli_hash_table_get(reg.ids, id) \in Alive
      /\ \A n \in Alive : cli_hash_table_get(reg.ids, reg.opt[n].id) = n
  <2>1. /\ \A id \in DOMAIN AsMap(reg.ids) : id \in DOMAIN Hash /\ AsMap(reg.ids)[id] \in Alive
        /\ \A n \in Alive : /\ reg.opt[n].id \in DOMAIN AsMap(reg.ids)
                            /\ AsMap(reg.ids)[reg.opt[n].id] = n
    BY <1>1, MapTyped DEF RegOf
  <2>2. \A id \in DOMAIN AsMap(reg.ids) : cli_hash_table_get(reg.ids, id) = AsMap(reg.ids)[id]
    BY <1>1, <2>1, GetIs
  <2>3. QED
    BY <2>1, <2>2 DEF AllIds
<1>6. /\ \A l \in DOMAIN AsMap(reg.longs) : cli_hash_table_get(reg.longs, l) \in Alive
      /\ \A n \in Alive : reg.opt[n].long # None =>
            cli_hash_table_get(reg.longs, reg.opt[n].long) = n
  <2>1. /\ \A l \in DOMAIN AsMap(reg.longs) : l \in DOMAIN Hash /\ AsMap(reg.longs)[l] \in Alive
        /\ \A n \in Alive : reg.opt[n].long # None =>
              /\ reg.opt[n].long \in DOMAIN AsMap(reg.longs)
              /\ AsMap(reg.longs)[reg.opt[n].long] = n
    BY <1>1, MapTyped DEF RegOf
  <2>2. \A l \in DOMAIN AsMap(reg.longs) : cli_hash_table_get(reg.longs, l) = AsMap(reg.longs)[l]
    BY <1>1, <2>1, GetIs
  <2>3. QED
    BY <2>1, <2>2
<1>7. result = "refused" => AllIds = before
  BY DEF CliInv, ListInv, AllIds
<1>8. /\ RequiredOf(reg, Living(reg)) = {n \in Alive : reg.opt[n].required}
      /\ OptionalOf(reg, Living(reg)) = {n \in Alive : ~reg.opt[n].required}
  BY <1>1 DEF RequiredOf, OptionalOf
<1>9. QED
  BY <1>2, <1>3, <1>4, <1>5, <1>6, <1>7, <1>8 DEF TablesAgree

LEMMA CliInvLeads == CliInv => ShortNamesLead
<1>. SUFFICES ASSUME CliInv PROVE ShortNamesLead
  OBVIOUS
<1>1. Alive = Living(reg) /\ RegOf(reg, Alive) /\ ShortOf(reg, Alive, lost)
  BY DEF CliInv, RegInv, Alive, Living
<1>2. QED
  BY <1>1 DEF ShortNamesLead, ShortOf, RegOf, CliInv

LEMMA CliInvHolds == ProgramSpec => []CliInv
<1>1. ProgramInit => CliInv
  BY CliInvInit DEF ProgramInit
<1>2. CliInv /\ [ProgramNext]_allVars => CliInv'
  BY StepIsCliStep, CliKept
<1>3. QED
  BY <1>1, <1>2, PTL DEF ProgramSpec

(* After every call, whatever of it failed, the rings and the hash tables  *)
(* hold the living options and nothing else, and a refused array leaves    *)
(* none behind (cli.c:408-487, 510-534; cli_hash.c:58-112).                *)
THEOREM TheTablesAgree == ProgramSpec => []TablesAgree
BY CliInvHolds, CliInvAgrees, PTL

(* The array of short names leads to living options but for names that a   *)
(* removal left in it; only behind these is freed memory matched           *)
(* (cli.c:411, 435, 530, 711).                                             *)
THEOREM TheShortNamesLead == ProgramSpec => []ShortNamesLead
BY CliInvHolds, CliInvLeads, PTL

(* A map may get or lose one entry, or all.                                *)
MapChange(f, g) ==
    \/ g = f \/ g = <<>>
    \/ \E k \in DOMAIN Hash \ DOMAIN f, d \in Addresses : g = With(f, k, d)
    \/ \E k \in DOMAIN f : g = Less(f, k)

LEMMA MapsChange ==
    ASSUME NEW R, RegInv(R), NEW Q,
           \/ Q = R \/ Q = EmptyRegistry
           \/ \E o \in Options, ok \in BOOLEAN : AddResult(R, o, <<Q, ok>>)
           \/ \E id \in DOMAIN Hash : \E u : RemoveResult(R, id, Q, u)
    PROVE  MapChange(AsMap(R.ids), AsMap(Q.ids)) /\ MapChange(AsMap(R.longs), AsMap(Q.longs))
<1>1. CASE Q = R \/ Q = EmptyRegistry
  BY <1>1, NothingRegistered DEF MapChange
<1>2. ASSUME NEW o \in Options, NEW ok \in BOOLEAN, AddResult(R, o, <<Q, ok>>)
      PROVE  MapChange(AsMap(R.ids), AsMap(Q.ids)) /\ MapChange(AsMap(R.longs), AsMap(Q.longs))
  <2>1. CASE Unadded(R, Q)
    BY <2>1 DEF Unadded, MapChange
  <2>2. CASE \E n \in Addresses : AddedTo(R, Q, n, o)
    <3>1. PICK n \in Addresses : AddedTo(R, Q, n, o)
      BY <2>2
    <3>2. o.id \in DOMAIN Hash /\ (o.long # None => o.long \in DOMAIN Hash)
      BY DEF Options
    <3>3. MapChange(AsMap(R.ids), AsMap(Q.ids))
      BY <3>1, <3>2 DEF AddedTo, MapChange
    <3>4. MapChange(AsMap(R.longs), AsMap(Q.longs))
      BY <3>1, <3>2 DEF AddedTo, MapChange
    <3>5. QED
      BY <3>3, <3>4
  <2>3. QED
    BY <1>2, <2>1, <2>2 DEF AddResult
<1>3. ASSUME NEW id \in DOMAIN Hash, NEW u, RemoveResult(R, id, Q, u)
      PROVE  MapChange(AsMap(R.ids), AsMap(Q.ids)) /\ MapChange(AsMap(R.longs), AsMap(Q.longs))
  <2>. DEFINE n == AsMap(R.ids)[id]
  <2>1. CASE Q = R
    BY <2>1 DEF MapChange
  <2>2. CASE id \in DOMAIN AsMap(R.ids) /\ RemovedFrom(R, Q, n)
    <3>1. /\ n \in Living(R) /\ R.opt[n].id \in DOMAIN AsMap(R.ids)
          /\ R.opt[n].long # None => R.opt[n].long \in DOMAIN AsMap(R.longs)
      BY <2>2 DEF RegInv, RegOf
    <3>2. /\ AsMap(Q.ids) = Less(AsMap(R.ids), R.opt[n].id)
          /\ AsMap(Q.longs) = LessOf(AsMap(R.longs), R.opt[n].long)
      BY <2>2 DEF RemovedFrom
    <3>. HIDE DEF n
    <3>3. QED
      BY <3>1, <3>2 DEF MapChange, LessOf
  <2>3. QED
    BY <1>3, <2>1, <2>2 DEF RemoveResult
<1>4. QED
  BY <1>1, <1>2, <1>3

LEMMA LessKeeps ==
    ASSUME NEW f, NEW k
    PROVE  /\ DOMAIN Less(f, k) = DOMAIN f \ {k}
           /\ \A i \in DOMAIN Less(f, k) : Less(f, k)[i] = f[i]
BY DEF Less

(* A change of a map is a step of a dictionary.                            *)
LEMMA DictionarySteps ==
    ASSUME NEW f, NEW g, MapChange(f, g)
    PROVE  /\ g = f \/ Ids!Insert(f, g) \/ Ids!Remove(f, g) \/ Ids!Destroy(g)
           /\ g = f \/ Longs!Insert(f, g) \/ Longs!Remove(f, g) \/ Longs!Destroy(g)
<1>1. ASSUME NEW k \in DOMAIN Hash \ DOMAIN f, NEW d \in Addresses, g = With(f, k, d)
      PROVE  Ids!Insert(f, g) /\ Longs!Insert(f, g)
  <2>1. /\ DOMAIN g = DOMAIN f \cup {k} /\ g[k] \in Addresses
        /\ \A i \in DOMAIN f : g[i] = f[i]
    <3>1. k \notin DOMAIN f /\ d \in Addresses
      OBVIOUS
    <3>2. /\ DOMAIN With(f, k, d) = DOMAIN f \cup {k} /\ With(f, k, d)[k] = d
          /\ \A i \in DOMAIN f : With(f, k, d)[i] = f[i]
      BY ONLY <3>1 DEF With
    <3>3. QED
      BY ONLY <1>1, <3>1, <3>2
  <2>2. QED
    BY <2>1 DEF Ids!Insert, Ids!Kept, Longs!Insert, Longs!Kept
<1>2. ASSUME NEW k \in DOMAIN f, g = Less(f, k) PROVE Ids!Remove(f, g) /\ Longs!Remove(f, g)
  <2>1. DOMAIN g = DOMAIN f \ {k} /\ \A i \in DOMAIN g : g[i] = f[i]
    BY <1>2, LessKeeps
  <2>2. QED
    BY <2>1 DEF Ids!Remove, Ids!Kept, Longs!Remove, Longs!Kept
<1>3. QED
  BY <1>1, <1>2 DEF MapChange, Ids!Destroy, Longs!Destroy

(* What is promised of a hash table holds of both, for every sequence of   *)
(* calls of the command line: no insertion replaces or hides an entry, no  *)
(* removal takes another one along (cli_hash.h; cli_hash.c:58-112).        *)
THEOREM TablesImplementDictionaries == ProgramSpec => TablesAreDictionaries
<1>1. Init => Ids!Init /\ Longs!Init
  BY CliInvInit, NothingRegistered DEF Ids!Init, Longs!Init
<1>2. ASSUME CliInv, [CliNext]_vars
      PROVE  [Ids!Next]_(AsMap(reg.ids)) /\ [Longs!Next]_(AsMap(reg.longs))
  <2>1. /\ MapChange(AsMap(reg.ids), AsMap(reg'.ids))
        /\ MapChange(AsMap(reg.longs), AsMap(reg'.longs))
    <3>1. RegInv(reg) /\ (RegistryChange \/ reg' = reg)
      BY <1>2, CliKept DEF CliInv
    <3>2. QED
      BY <3>1, MapsChange DEF RegistryChange
  <2>2. [Ids!Next]_(AsMap(reg.ids))
    BY <2>1, DictionarySteps DEF Ids!Next
  <2>3. [Longs!Next]_(AsMap(reg.longs))
    BY <2>1, DictionarySteps DEF Longs!Next
  <2>4. QED
    BY <2>2, <2>3
<1>3. ProgramInit => Init
  BY DEF ProgramInit
<1>4. CliInv /\ [ProgramNext]_allVars =>
         [Ids!Next]_(AsMap(reg.ids)) /\ [Longs!Next]_(AsMap(reg.longs))
  BY <1>2, StepIsCliStep
<1>5. QED
  BY <1>1, <1>3, <1>4, CliInvHolds, PTL
     DEF ProgramSpec, TablesAreDictionaries, Ids!Spec, Longs!Spec

-----------------------------------------------------------------------------
(* main, from place to place                                               *)

(* Every option there is has an argument, but for the help.                *)
OnlyArgs(R) == \A n \in Living(R) : R.opt[n].internal \/ R.opt[n].arg

BeforeCli == {"start", "log_set_up"}
AfterCli ==
    {"parameters", "flags_set", "created", "failed", "running", "failing", "stopping",
     "last_words", "exited"}
Places == BeforeCli \cup {"made", "adding", "matching", "parsed", "removed"} \cup AfterCli

(* What main has of the command line at each place.                        *)
MainCli ==
    /\ main \in BeforeCli => cli = "none" /\ reg = EmptyRegistry /\ lost = {}
    /\ main = "made" => cli = "made" /\ pc = "idle" /\ lost = {}
    /\ main = "adding" =>
          /\ cli = "made" /\ pc \in {"adding", "undoing", "idle"}
          /\ pc = "adding" => list = MainOpts
          /\ pc = "adding" \/ result = "added" => lost = {}
          /\ pc = "idle" => result \in {"added", "refused"}
    /\ main = "matching" =>
          cli = "made" /\ pc \in {"matching", "matched", "idle"} /\ lost = {}
    /\ main \in {"parsed", "removed"} => cli = "made" /\ pc = "idle"
    /\ main \in AfterCli =>
          \/ cli = "gone" /\ reg = EmptyRegistry /\ match = <<>>
          \/ /\ cli = "leaked" /\ reg = EmptyRegistry /\ match = <<>>
             /\ main \in {"failed", "last_words", "exited"}
          \/ cli = "exited" /\ main = "exited"

MainInv ==
    main # "any" =>
        /\ main \in Places /\ strict /\ ~flagged /\ OnlyArgs(reg) /\ MainCli
        /\ ub = "none" \/ (ub = "slot" /\ main = "matching" /\ pc = "matching")

(* The server starts with nothing left of the command line.                *)
Started == \E t \in ServerThreadSet : thread[t] # "none"

StartInv ==
    Started =>
        /\ main \in {"created", "running", "failing", "stopping", "last_words", "exited"}
        /\ cli = "gone" /\ reg = EmptyRegistry /\ match = <<>>

(* No argument of a match is uninitialised memory.                         *)
LEMMA NothingGarbage ==
    ASSUME ArgsInv, ~flagged, NEW S, Garbage \notin S, MatchDestroyed(S)
    PROVE  ub' = "none"
<1>1. Stored(Garbage) = {}
  <2>. SUFFICES ASSUME NEW p \in Stored(Garbage) PROVE FALSE
    OBVIOUS
  <2>1. /\ p[1] \in DOMAIN match /\ p[2] \in 1 .. MaxTokens
        /\ p[2] <= Len(match[p[1]]) /\ match[p[1]][p[2]] = Garbage
    BY DEF Stored
  <2>2. PICK j \in 1 .. parsed : match[p[1]] = <<j>>
    BY <2>1 DEF ArgsInv, ArgsOwned
  <2>3. Len(<<j>>) = 1 /\ <<j>>[1] = j
    OBVIOUS
  <2>4. p[2] = 1
    BY <2>1, <2>2, <2>3
  <2>5. j = MaxTokens + 1
    BY <2>1, <2>2, <2>3, <2>4 DEF Garbage
  <2>6. parsed \in Nat /\ parsed <= MaxTokens /\ MaxTokens \in Nat
    BY CliConstantsOK DEF ArgsInv, ArgsTyped
  <2>7. QED
    BY ONLY <2>2, <2>5, <2>6
<1>2. QED
  BY <1>1 DEF MatchDestroyed

(* The argument of an option that takes one is new.                        *)
LEMMA ArgumentParsed ==
    ASSUME ArgsInv, NEW tok, NEW k, Argument(tok, k), Option(tok).arg
    PROVE  UNCHANGED flagged /\ Garbage \notin Own(tok, k)
<1>1. k = parsed + 1 /\ Consume(2) /\ UNCHANGED flagged
  BY DEF Argument
<1>2. parsed \in Nat /\ tokens \in Nat /\ parsed <= tokens /\ MaxTokens \in Nat
  BY CliConstantsOK DEF ArgsInv, ArgsTyped
<1>3. tokens + 2 <= MaxTokens
  BY <1>1 DEF Consume
<1>4. k # MaxTokens + 1
  BY ONLY <1>1, <1>2, <1>3
<1>5. QED
  BY <1>1, <1>4 DEF Own, Garbage

(* While it matches main's options, a strict match uses nothing that is    *)
(* not there, but for what is behind the array of short names.             *)
LEMMA StrictMatchSound ==
    ASSUME ArgsInv, CliInv, CliInv', MatchStep, pc = "matching", strict, lost = {},
           ub = "none", ~flagged, OnlyArgs(reg)
    PROVE  /\ ub' = "none" \/ (ub' = "slot" /\ pc' = "matching" /\ cli' = "made")
           /\ ~flagged' /\ cli = "made" /\ cli' \in {"made", "exited"}
           /\ UNCHANGED <<strict, reg, lost>> /\ pc' \in {"matching", "matched", "idle"}
<1>. DEFINE Stays == UNCHANGED <<strict, reg, lost, cli>>
<1>. DEFINE Sound == ub' = "none" /\ ~flagged' /\ pc' \in {"matching", "matched", "idle"}
<1>1. Refuse({}) /\ UNCHANGED flagged => Sound
  BY NothingGarbage DEF Refuse
<1>2. ASSUME NEW tok \in Tokens, MatchUnknown(tok) \/ MatchNoArg(tok) \/ MatchBadArg(tok)
      PROVE  cli = "made" /\ Stays /\ Refuse({}) /\ UNCHANGED flagged
  BY <1>2 DEF MatchUnknown, MatchNoArg, MatchBadArg, ReportError, Matching_, registry
<1>3. ASSUME NEW tok \in Tokens, MatchFreed(tok) PROVE FALSE
  BY <1>3, FoundLives DEF MatchFreed, Living
<1>4. ASSUME NEW tok \in Tokens, MatchHelp(tok)
      PROVE  cli = "made" /\ cli' = "exited" /\ UNCHANGED <<strict, reg, lost>> /\ Sound
  BY <1>4 DEF MatchHelp, Matching_
<1>5. ASSUME NEW tok \in Tokens, NEW k \in 0 .. Garbage,
             MatchRepeated(tok, k) \/ MatchNew(tok, k) \/ MatchNewFails(tok, k)
      PROVE  cli = "made" /\ Stays /\ Sound
  <2>1. /\ Argument(tok, k) /\ Finds(tok) /\ ~Option(tok).internal /\ cli = "made"
        /\ UNCHANGED registry
        /\ Refuse(Own(tok, k)) \/ UNCHANGED <<pc, ub>>
    BY <1>5 DEF MatchRepeated, MatchNew, MatchNewFails, Matching_
  <2>2. Found(tok) \in Living(reg)
    BY <2>1, FoundLives DEF Finds
  <2>3. Option(tok).arg
    BY <2>1, <2>2 DEF OnlyArgs, Option
  <2>4. UNCHANGED flagged /\ Garbage \notin Own(tok, k)
    BY <2>1, <2>3, ArgumentParsed
  <2>5. Refuse(Own(tok, k)) => Sound
    BY <2>4, NothingGarbage DEF Refuse
  <2>6. QED
    BY <2>1, <2>4, <2>5 DEF registry
<1>6. CASE MatchEnd
  <2>1. /\ cli = "made" /\ Stays /\ UNCHANGED flagged
        /\ Refuse({}) \/ (pc' = "matched" /\ UNCHANGED ub)
    BY <1>6 DEF MatchEnd, Matching_, registry
  <2>2. QED
    BY <1>1, <2>1
<1>7. ~MatchBegin /\ ~MatchDestroy
  BY DEF MatchBegin, MatchDestroy, Idle
<1>8. ASSUME NEW tok \in Tokens, MatchOutside(tok)
      PROVE  cli = "made" /\ Stays /\ ub' = "slot" /\ UNCHANGED <<flagged, pc>>
  BY <1>8 DEF MatchOutside, Matching_, registry
<1>9. QED
  BY <1>1, <1>2, <1>3, <1>4, <1>5, <1>6, <1>7, <1>8 DEF MatchStep

LEMMA AddedOnlyArgs ==
    ASSUME NEW R, RegInv(R), NEW Q, NEW n, NEW o \in Options, AddedTo(R, Q, n, o),
           OnlyArgs(R), o.internal \/ o.arg
    PROVE  OnlyArgs(Q)
<1>1. Living(Q) = Living(R) \cup {n}
  BY AddedKeeps
<1>2. R.opt \in [Addresses -> Options \cup {Null}] /\ n \in Addresses
      /\ Q.opt = [R.opt EXCEPT ![n] = o]
  BY DEF RegInv, RegType, AddedTo
<1>3. ASSUME NEW m \in Living(Q) PROVE Q.opt[m].internal \/ Q.opt[m].arg
  <2>1. m \in Addresses
    BY DEF Living
  <2>2. CASE m = n
    BY <1>2, <2>2
  <2>3. CASE m # n
    <3>1. Q.opt[m] = R.opt[m] /\ m \in Living(R)
      BY <1>1, <1>2, <2>1, <2>3
    <3>2. QED
      BY <3>1 DEF OnlyArgs
  <2>4. QED
    BY <2>2, <2>3
<1>4. QED
  BY <1>3 DEF OnlyArgs

LEMMA RemovedOnlyArgs ==
    ASSUME NEW R, RegInv(R), NEW id \in DOMAIN Hash, OnlyArgs(R)
    PROVE  OnlyArgs(cli_remove_opt(R, id))
BY OptRemoved DEF RemoveResult, RemovedFrom, OnlyArgs

Kept == ArgsInv /\ CliInv /\ ArgsInv' /\ CliInv'

(* The steps of main at the command line, one by one.                      *)
LEMMA MainCreates == ASSUME MainInv, Kept, MainCliCreate PROVE MainInv'
<1>1. /\ main = "log_set_up" /\ cli = "none" /\ reg = EmptyRegistry /\ lost = {} /\ pc = "idle"
      /\ strict /\ ub = "none" /\ ~flagged /\ OnlyArgs(reg)
      /\ UNCHANGED <<strict, pc, lost, flagged, ub, match>>
      /\ main' = IF cli' = "made" THEN "made" ELSE "failed"
  BY DEF MainCliCreate, At, To, CliCreate, matching, MainInv, MainCli, BeforeCli, Kept, CliInv,
     ListInv
<1>2. match' = <<>> /\ pc' = "idle" /\ lost' = {} /\ strict' /\ ub' = "none" /\ ~flagged'
  BY <1>1 DEF Kept, ArgsInv, ArgsTyped
<1>3. \/ \E r \in AddOpt(reg, AutoHelp) \cup {<<reg, TRUE>>} :
             r[2] /\ cli' = "made" /\ reg' = r[1]
      \/ cli' \in {"gone", "leaked"} /\ UNCHANGED reg
  BY DEF MainCliCreate, CliCreate
<1>4. OnlyArgs(reg')
  <2>1. CASE reg' = reg
    BY <1>1, <2>1
  <2>2. CASE reg' # reg
    <3>1. PICK r \in AddOpt(reg, AutoHelp) \cup {<<reg, TRUE>>} : r[2] /\ reg' = r[1]
      BY <1>3, <2>2
    <3>2. r # <<reg, TRUE>>
      <4>1. <<reg, TRUE>>[1] = reg
        OBVIOUS
      <4>2. QED
        BY <2>2, <3>1, <4>1
    <3>3. AutoHelp \in Options /\ AutoHelp.internal
      BY CliStringsOK DEF AutoHelp, Options
    <3>4. AddResult(reg, AutoHelp, r) /\ RegInv(reg)
      BY <3>1, <3>2, <3>3, OptAdded DEF Kept, CliInv
    <3>5. PICK n \in Addresses : AddedTo(reg, reg', n, AutoHelp)
      BY <3>1, <3>4 DEF AddResult
    <3>6. QED
      BY <1>1, <3>3, <3>4, <3>5, AddedOnlyArgs
  <2>3. QED
    BY <2>1, <2>2
<1>5. CASE cli' = "made"
  <2>1. main' = "made"
    BY <1>1, <1>5
  <2>2. QED
    BY <1>2, <1>4, <1>5, <2>1 DEF MainInv, MainCli, BeforeCli, AfterCli, Places
<1>6. CASE cli' # "made"
  <2>1. main' = "failed" /\ cli' \in {"gone", "leaked"} /\ reg' = EmptyRegistry
    BY <1>1, <1>3, <1>6
  <2>2. QED
    BY <1>2, <1>4, <2>1 DEF MainInv, MainCli, BeforeCli, AfterCli, Places
<1>7. QED
  BY <1>5, <1>6

LEMMA MainBeginsToAdd == ASSUME MainInv, Kept, MainAddOpts PROVE MainInv'
<1>1. /\ main = "made" /\ cli = "made" /\ lost = {} /\ OnlyArgs(reg)
      /\ strict /\ ub = "none" /\ ~flagged
      /\ UNCHANGED <<strict, cli, reg, lost, flagged, ub>>
      /\ pc' = "adding" /\ list' = MainOpts /\ main' = "adding"
  BY DEF MainAddOpts, At, To, AddOptsBegin, matching, MainInv, MainCli
<1>2. QED
  BY <1>1 DEF MainInv, MainCli, BeforeCli, AfterCli, Places

LEMMA MainAdds == ASSUME MainInv, Kept, MainInAddOpts PROVE MainInv'
<1>1. /\ main = "adding" /\ main' = "adding" /\ cli = "made" /\ OnlyArgs(reg)
      /\ strict /\ ub = "none" /\ ~flagged /\ RegInv(reg)
      /\ pc = "adding" => list = MainOpts /\ lost = {}
      /\ UNCHANGED <<strict, cli, flagged, ub>>
  BY DEF MainInAddOpts, AddOptsStep, AddOptsUndo, matching, programVars, MainInv, MainCli, Kept,
     CliInv
<1>2. CASE AddOptsStep
  <2>. DEFINE o == list[at]
  <2>1. /\ pc = "adding" /\ at \in 1 .. Len(list) /\ list = MainOpts /\ lost = {}
        /\ UNCHANGED lost /\ o \in Options /\ result = "none"
    BY <1>1, <1>2 DEF AddOptsStep, Kept, CliInv, ListInv
  <2>2. o.arg
    BY <2>1, ProgramConstantsOK
  <2>3. PICK r \in cli_add_opt(reg, o) :
          /\ reg' = r[1]
          /\ \/ UNCHANGED <<pc, list, result>>
             \/ pc' = "idle" /\ result' \in {"added", "refused"}
             \/ pc' = "undoing" /\ UNCHANGED result
    BY <1>2 DEF AddOptsStep
  <2>. HIDE DEF o
  <2>4. r = <<reg, FALSE>> \/ AddResult(reg, o, r)
    BY <1>1, <2>1, <2>3, OptAdded DEF cli_add_opt
  <2>5. OnlyArgs(reg')
    <3>1. CASE r = <<reg, FALSE>>
      BY <1>1, <2>3, <3>1
    <3>2. CASE Unadded(reg, r[1])
      BY <1>1, <2>3, <3>2 DEF OnlyArgs, Living, Unadded
    <3>3. CASE \E n \in Addresses : AddedTo(reg, r[1], n, o)
      BY <1>1, <2>1, <2>2, <2>3, <3>3, AddedOnlyArgs
    <3>4. QED
      BY <2>4, <3>1, <3>2, <3>3 DEF AddResult
  <2>6. QED
    BY <1>1, <2>1, <2>3, <2>5 DEF MainInv, MainCli, BeforeCli, AfterCli, Places
<1>3. CASE AddOptsUndo
  <2>1. /\ pc = "undoing" /\ result = "none" /\ at \in 1 .. Len(list) /\ list \in Seq(Options)
        /\ reg' = cli_remove_opt(reg, list[at].id)
        /\ \/ UNCHANGED <<pc, list, result>>
           \/ pc' = "idle" /\ result' = "refused"
    BY <1>3 DEF AddOptsUndo, RemoveOne, Kept, CliInv, ListInv
  <2>2. list[at] \in Options
    BY <2>1
  <2>3. list[at].id \in DOMAIN Hash
    BY <2>2 DEF Options
  <2>4. OnlyArgs(reg')
    BY <1>1, <2>1, <2>3, RemovedOnlyArgs
  <2>5. QED
    BY <1>1, <2>1, <2>4 DEF MainInv, MainCli, BeforeCli, AfterCli, Places
<1>4. QED
  BY <1>2, <1>3 DEF MainInAddOpts

LEMMA MainMatches ==
    ASSUME MainInv, Kept, MainMatch \/ MainInMatch \/ MainReadArgs PROVE MainInv'
<1>1. CASE MainMatch
  <2>1. /\ main = "adding" /\ main' = "matching" /\ lost = {} /\ OnlyArgs(reg)
        /\ strict /\ ub = "none" /\ ~flagged /\ cli = "made"
        /\ pc' \in {"matching", "idle"}
        /\ UNCHANGED <<strict, cli, reg, lost, flagged, ub>>
    BY <1>1 DEF MainMatch, At, To, MatchBegin, registry, matching, MainInv, MainCli
  <2>2. QED
    BY <2>1 DEF MainInv, MainCli, BeforeCli, AfterCli, Places
<1>2. CASE MainInMatch
  <2>1. /\ main = "matching" /\ pc = "matching" /\ MatchStep /\ lost = {} /\ OnlyArgs(reg)
        /\ strict /\ ub = "none" /\ ~flagged
        /\ main' = IF cli' = "exited" THEN "exited" ELSE "matching"
    <3>1. MatchStep /\ pc = "matching" => ub = "none"
      BY DEF MatchStep, MatchOutside, MatchUnknown, MatchFreed, MatchHelp, MatchNoArg, MatchBadArg,
         MatchRepeated, MatchNew, MatchNewFails, MatchBegin, MatchEnd, MatchDestroy, Matching_, Idle
    <3>2. QED
      BY <1>2, <3>1 DEF MainInMatch, To, MainInv, MainCli
  <2>2. /\ ub' = "none" \/ (ub' = "slot" /\ pc' = "matching" /\ cli' = "made")
        /\ ~flagged' /\ cli = "made" /\ cli' \in {"made", "exited"}
        /\ UNCHANGED <<strict, reg, lost>> /\ pc' \in {"matching", "matched", "idle"}
    BY <2>1, StrictMatchSound DEF Kept
  <2>3. QED
    BY <2>1, <2>2 DEF MainInv, MainCli, BeforeCli, AfterCli, Places
<1>3. CASE MainReadArgs
  <2>1. /\ main = "matching" /\ main' = "parsed" /\ OnlyArgs(reg) /\ strict /\ ~flagged
        /\ MatchDestroyed({}) /\ cli = "made" /\ pc' = "idle"
        /\ UNCHANGED <<strict, cli, reg, flagged>>
    BY <1>3 DEF MainReadArgs, At, To, MatchDestroy, registry, MainInv
  <2>2. ub' = "none"
    BY <2>1, NothingGarbage DEF Kept
  <2>3. QED
    BY <2>1, <2>2 DEF MainInv, MainCli, BeforeCli, AfterCli, Places
<1>4. QED
  BY <1>1, <1>2, <1>3

LEMMA MainRemoves == ASSUME MainInv, Kept, MainRemoveOpt PROVE MainInv'
<1>1. /\ main = "parsed" /\ main' = "removed" /\ OnlyArgs(reg) /\ RegInv(reg)
      /\ strict /\ ub = "none" /\ ~flagged
      /\ reg' = cli_remove_opt(reg, "port") /\ cli = "made" /\ pc = "idle"
      /\ UNCHANGED <<strict, cli, pc, flagged, ub>>
  BY DEF MainRemoveOpt, At, To, RemoveOpt, RemoveOne, Idle, matching, MainInv, Kept, CliInv
<1>2. OnlyArgs(reg')
  BY <1>1, RemovedOnlyArgs, ProgramConstantsOK
<1>3. QED
  BY <1>1, <1>2 DEF MainInv, MainCli, BeforeCli, AfterCli, Places

(* cli_destroy, behind the removal or a failure.                           *)
LEMMA MainDestroys ==
    ASSUME MainInv, Kept, CliDestroy, main # "any", main' \in {"parameters", "last_words"}
    PROVE  MainInv'
<1>1. /\ strict /\ ~flagged /\ ub = "none" /\ pc = "idle"
      /\ cli' = "gone" /\ reg' = EmptyRegistry
      /\ UNCHANGED <<strict, match, flagged, ub>>
  BY DEF CliDestroy, Idle, MainInv
<1>2. match' = <<>>
  BY <1>1 DEF Kept, ArgsInv, ArgsTyped
<1>3. OnlyArgs(reg')
  BY <1>1, NothingRegistered DEF OnlyArgs
<1>4. QED
  BY <1>1, <1>2, <1>3 DEF MainInv, MainCli, BeforeCli, AfterCli, Places

(* The command line stays as it is.                                        *)
LEMMA MainGoesOn ==
    ASSUME MainInv, UNCHANGED vars,
           \/ main' = main
           \/ main = "start" /\ main' = "log_set_up"
           \/ /\ main \in AfterCli \ {"exited"} /\ main' \in AfterCli
              /\ main \in {"failed", "last_words"} => main' \in {"last_words", "exited"}
    PROVE  MainInv'
<1>1. /\ UNCHANGED <<cli, reg, lost, pc, list, result, strict, ub, flagged, match>>
      /\ OnlyArgs(reg') <=> OnlyArgs(reg)
  BY DEF vars, registry, matching
<1>2. CASE main' = main
  BY <1>1, <1>2 DEF MainInv, MainCli
<1>3. CASE main = "start" /\ main' = "log_set_up"
  BY <1>1, <1>3 DEF MainInv, MainCli, BeforeCli, AfterCli, Places
<1>4. CASE /\ main \in AfterCli \ {"exited"} /\ main' \in AfterCli
           /\ main \in {"failed", "last_words"} => main' \in {"last_words", "exited"}
  BY <1>1, <1>4 DEF MainInv, MainCli, BeforeCli, AfterCli, Places
<1>5. QED
  BY <1>2, <1>3, <1>4

LEMMA MainInvKept == ASSUME MainInv, Kept, [ProgramNext]_allVars PROVE MainInv'
<1>1. CASE UNCHANGED allVars
  BY <1>1, MainGoesOn DEF allVars, programVars
<1>2. CASE AnyCaller
  BY <1>2 DEF AnyCaller, programVars, MainInv
<1>3. ASSUME NEW t \in ServerThreadSet, ThreadWakes(t) \/ ThreadLogs(t) \/ ThreadStep(t)
      PROVE  MainInv'
  <2>1. UNCHANGED vars /\ main' = main
    BY <1>3 DEF ThreadWakes, ThreadLogs, ThreadStep, LogStep, ThreadSleeps, ThreadCancelled,
       ServerOnly, programVars
  <2>2. QED
    BY <2>1, MainGoesOn
<1>4. CASE LogStep(Main)
  BY <1>4, MainGoesOn DEF LogStep, programVars
<1>5. CASE MainLogSetUp
  BY <1>5, MainGoesOn DEF MainLogSetUp, To
<1>6. CASE MainSetFlags \/ ServerCreate \/ MainAddPlot \/ MainSignalled \/ MainLogsInServer
             \/ ServerDestroyCancel \/ MainExit \/ MainLeaves
  <2>1. /\ UNCHANGED vars /\ main \in AfterCli \ {"exited"} /\ main' \in AfterCli
        /\ main \in {"failed", "last_words"} => main' \in {"last_words", "exited"}
    BY <1>6 DEF MainSetFlags, ServerCreate, MainAddPlot, MainSignalled, MainLogsInServer,
       ServerDestroyCancel, MainExit, MainLeaves, Say, At, To, Destroying, AfterCli
  <2>2. QED
    BY <2>1, MainGoesOn
<1>7. CASE MainCliCreate \/ MainAddOpts \/ MainInAddOpts \/ MainMatch \/ MainInMatch
             \/ MainReadArgs \/ MainRemoveOpt
  BY <1>7, MainCreates, MainBeginsToAdd, MainAdds, MainMatches, MainRemoves
<1>8. CASE MainCliDestroy
  <2>1. CliDestroy /\ main # "any" /\ main' \in {"parameters", "last_words"}
    BY <1>8 DEF MainCliDestroy, At, To
  <2>2. QED
    BY <2>1, MainDestroys
<1>9. CASE MainFails
  <2>1. /\ main \in {"failed", "adding", "matching"} /\ main' = "last_words"
        /\ IF cli = "made" THEN CliDestroy ELSE UNCHANGED vars
    BY <1>9 DEF MainFails, To
  <2>2. CASE cli = "made"
    BY <2>1, <2>2, MainDestroys
  <2>3. CASE cli # "made"
    <3>1. main = "failed" /\ UNCHANGED vars
      BY <2>1, <2>3 DEF MainInv, MainCli
    <3>2. QED
      BY <2>1, <3>1, MainGoesOn DEF AfterCli
  <2>4. QED
    BY <2>2, <2>3
<1>10. QED
  BY <1>1, <1>2, <1>3, <1>4, <1>5, <1>6, <1>7, <1>8, <1>9 DEF ProgramNext, MainStep

LEMMA StartKept == ASSUME MainInv, StartInv, [ProgramNext]_allVars PROVE StartInv'
<1>. DEFINE Serving == {"created", "running", "failing", "stopping", "last_words", "exited"}
<1>. DEFINE Nothing == cli = "gone" /\ reg = EmptyRegistry /\ match = <<>>
<1>1. ASSUME UNCHANGED vars, main' = main \/ (main \in Serving /\ main' \in Serving),
             Started' => Started
      PROVE  StartInv'
  BY <1>1 DEF StartInv, vars, registry, matching
<1>2. ASSUME UNCHANGED thread, main \notin Serving PROVE StartInv'
  <2>1. ~Started
    BY <1>2 DEF StartInv
  <2>2. ~Started'
    BY <1>2, <2>1 DEF Started
  <2>3. QED
    BY <2>2 DEF StartInv
<1>3. UNCHANGED thread => (Started' => Started)
  BY DEF Started
<1>4. CASE UNCHANGED allVars
  BY <1>1, <1>3, <1>4 DEF allVars, programVars
<1>5. ASSUME NEW t \in ServerThreadSet, ThreadWakes(t) \/ ThreadLogs(t) \/ ThreadStep(t)
      PROVE  StartInv'
  <2>1. UNCHANGED vars /\ main' = main
    BY <1>5 DEF ThreadWakes, ThreadLogs, ThreadStep, LogStep, ThreadSleeps, ThreadCancelled,
       ServerOnly, programVars
  <2>2. CASE LogStep(t) \/ ThreadLogs(t)
    <3>1. UNCHANGED thread
      BY <2>2 DEF ThreadLogs, LogStep, programVars
    <3>2. QED
      BY <1>1, <1>3, <2>1, <3>1
  <2>3. CASE ThreadWakes(t) \/ ThreadSleeps(t) \/ ThreadCancelled(t)
    <3>1. Started
      BY <2>3 DEF ThreadWakes, ThreadSleeps, ThreadCancelled, Started
    <3>2. QED
      BY <1>1, <2>1, <3>1
  <2>4. QED
    BY <1>5, <2>2, <2>3 DEF ThreadStep
<1>6. CASE LogStep(Main)
  BY <1>1, <1>3, <1>6 DEF LogStep, programVars
<1>7. CASE AnyCaller \/ MainLogSetUp \/ MainSetFlags \/ MainCliCreate \/ MainAddOpts
             \/ MainInAddOpts \/ MainMatch \/ MainInMatch \/ MainReadArgs \/ MainRemoveOpt
             \/ MainCliDestroy \/ MainFails
  BY <1>2, <1>7 DEF AnyCaller, MainLogSetUp, MainSetFlags, MainCliCreate, MainAddOpts,
     MainInAddOpts, MainMatch, MainInMatch, MainReadArgs, MainRemoveOpt, MainCliDestroy,
     MainFails, At, programVars
<1>8. CASE MainAddPlot \/ MainSignalled \/ ServerDestroyCancel \/ MainExit \/ MainLeaves
  <2>1. /\ UNCHANGED <<vars, thread>>
        /\ main' = main \/ (main \in Serving /\ main' \in Serving)
    BY <1>8 DEF MainAddPlot, MainSignalled, ServerDestroyCancel, MainExit, MainLeaves, Say,
       Destroying, At, To
  <2>2. QED
    BY <1>1, <1>3, <2>1
<1>9. CASE MainLogsInServer
  <2>1. UNCHANGED <<vars, thread>> /\ main' = main
    BY <1>9 DEF MainLogsInServer, Say, At, To, Destroying
  <2>2. QED
    BY <1>1, <1>3, <2>1
<1>10. CASE ServerCreate
  <2>1. main = "flags_set" /\ UNCHANGED vars
    BY <1>10 DEF ServerCreate, At
  <2>2. Nothing
    BY <2>1 DEF MainInv, MainCli, AfterCli
  <2>3. CASE main' = "created"
    BY <2>1, <2>2, <2>3 DEF StartInv, vars, registry, matching
  <2>4. CASE UNCHANGED thread
    BY <1>2, <2>1, <2>4
  <2>5. QED
    BY <1>10, <2>3, <2>4 DEF ServerCreate, To
<1>11. QED
  BY <1>4, <1>5, <1>6, <1>7, <1>8, <1>9, <1>10 DEF ProgramNext, MainStep

-----------------------------------------------------------------------------
(* The file of the log: set before anybody logs, and never the null pointer*)

Loggers == ServerThreadSet \cup {Main}

(* The thread goes on to write, with the file that it read.                *)
ToWrite(t) == at_log[t] = "print" \/ (at_log[t] = "lock" /\ build.atomic)

Unset == main \in {"any", "start"}

FileInv ==
    /\ ~undefined
    /\ Unset => /\ \A t \in Loggers : at_log[t] = "out"
                /\ \A t \in ServerThreadSet : thread[t] = "none"
    /\ ~Unset => log_fp = Stderr
    /\ \A t \in Loggers : ToWrite(t) => line[t].fp = Stderr

LogTyped ==
    /\ DOMAIN at_log = Loggers /\ DOMAIN line = Loggers
    /\ \A t \in Loggers : "fp" \in DOMAIN line[t] /\ "lf" \in DOMAIN line[t]

LEMMA LogTypedHolds == ProgramSpec => []LogTyped
<1>1. LP!LogConstantsOK
  BY ProgramConstantsOK DEF L!LogConstantsOK, LP!LogConstantsOK
<1>2. LP!Init => LP!LogInv
  BY <1>1, LP!InitLogInv
<1>3. LP!LogInv /\ [LP!Next]_(LP!logVars) => LP!LogInv'
  BY <1>1, LP!NextKeeps
<1>4. LP!LogInv => LogTyped
  BY DEF LP!LogInv, LP!TypeOK, LP!LineType, LogTyped, Loggers
<1>5. QED
  BY <1>2, <1>3, <1>4, ProgramLogs, PTL DEF LP!Spec

(* One step of a thread in log_msg.                                        *)
LEMMA FileKeptInLog ==
    ASSUME FileInv, LogTyped, NEW t \in Loggers, LogStep(t) PROVE FileInv'
<1>1. ~Unset /\ UNCHANGED <<main, thread>> /\ L!LogStep(t) /\ at_log[t] # "out"
  BY DEF LogStep, programVars, FileInv, L!LogStep, L!LogLock, L!LogReadFlags, L!LogReadFile,
     L!LogPart, L!LogOnce, L!LogUnlock
<1>2. NoFile # Stderr
  BY ProgramConstantsOK DEF L!LogConstantsOK
<1>3. /\ log_fp = Stderr /\ ~undefined /\ (ToWrite(t) => line[t].fp = Stderr)
      /\ UNCHANGED <<log_fp, build>>
      /\ \A u \in Loggers \ {t} : at_log'[u] = at_log[u] /\ line'[u] = line[u]
  BY <1>1 DEF FileInv, LogTyped, L!LogStep, L!LogLock, L!LogReadFlags, L!LogReadFile,
     L!LogPart, L!LogOnce, L!LogUnlock, L!Go
<1>4. ~undefined' /\ (ToWrite(t)' => line'[t].fp = Stderr)
  <2>1. CASE L!LogLock(t)
    BY <1>3, <2>1 DEF L!LogLock, L!Go, ToWrite, LogTyped
  <2>2. CASE L!LogReadFlags(t)
    BY <1>3, <2>2 DEF L!LogReadFlags, L!Go, ToWrite, LogTyped
  <2>3. CASE L!LogReadFile(t)
    BY <1>3, <2>3 DEF L!LogReadFile, LogTyped
  <2>4. CASE L!LogPart(t)
    BY <1>2, <1>3, <2>4 DEF L!LogPart, L!Go, L!Write, ToWrite
  <2>5. CASE L!LogOnce(t)
    BY <1>2, <1>3, <2>5 DEF L!LogOnce, L!Go, L!Write, ToWrite, LogTyped
  <2>6. CASE L!LogUnlock(t)
    BY <1>3, <2>6 DEF L!LogUnlock, L!Go, ToWrite, LogTyped
  <2>7. QED
    BY <1>1, <2>1, <2>2, <2>3, <2>4, <2>5, <2>6 DEF L!LogStep
<1>5. QED
  BY <1>1, <1>3, <1>4 DEF FileInv, Unset, ToWrite

(* A thread begins to log, once the file is set.                           *)
LEMMA FileKeptBySaying ==
    ASSUME FileInv, LogTyped, NEW t \in Loggers, NEW lvl, L!LogMsg(t, lvl),
           ~Unset, ~Unset'
    PROVE  FileInv'
<1>1. /\ log_fp = Stderr /\ ~undefined /\ UNCHANGED <<log_fp, build, undefined>>
      /\ at_log'[t] = IF build.atomic THEN "flags" ELSE "lock"
      /\ \A u \in Loggers \ {t} : at_log'[u] = at_log[u] /\ line'[u] = line[u]
  BY DEF FileInv, LogTyped, L!LogMsg, L!Go
<1>2. ~ToWrite(t)'
  BY <1>1 DEF ToWrite
<1>3. QED
  BY <1>1, <1>2 DEF FileInv, ToWrite

(* The log stays as it is.                                                 *)
LEMMA FileKeptAside ==
    ASSUME FileInv, UNCHANGED <<build, log_fp, at_log, line, undefined>>,
           (~Unset /\ ~Unset') \/ UNCHANGED <<main, thread>>
    PROVE  FileInv'
BY DEF FileInv, Unset, ToWrite

LEMMA FileKept == ASSUME FileInv, LogTyped, [ProgramNext]_allVars PROVE FileInv'
<1>. DEFINE Aside == UNCHANGED <<build, log_fp, at_log, line, undefined>>
<1>1. UNCHANGED logVars => Aside
  BY DEF logVars
<1>2. CASE UNCHANGED allVars \/ AnyCaller
  BY <1>1, <1>2, FileKeptAside DEF allVars, AnyCaller, programVars
<1>3. CASE MainLogSetUp
  <2>1. /\ Unset /\ ~Unset' /\ log_fp' = Stderr /\ UNCHANGED <<build, at_log, line, undefined>>
    BY <1>3 DEF MainLogSetUp, To, L!log_set_file, L!locals, Unset
  <2>2. QED
    BY <2>1 DEF FileInv, ToWrite
<1>4. CASE MainSetFlags \/ MainCliCreate \/ MainAddOpts \/ MainInAddOpts \/ MainMatch
             \/ MainInMatch \/ MainReadArgs \/ MainRemoveOpt \/ MainCliDestroy \/ ServerCreate
             \/ ServerDestroyCancel \/ MainLeaves
  <2>1. Aside
    BY <1>1, <1>4 DEF MainSetFlags, L!log_set_flags, L!locals, MainCliCreate, MainAddOpts,
       MainInAddOpts, MainMatch, MainInMatch, MainReadArgs, MainRemoveOpt, MainCliDestroy,
       ServerCreate, ServerDestroyCancel, MainLeaves
  <2>2. ~Unset /\ ~Unset'
    BY <1>4 DEF MainSetFlags, MainCliCreate, MainAddOpts, MainInAddOpts, MainMatch,
       MainInMatch, MainReadArgs, MainRemoveOpt, MainCliDestroy, ServerCreate,
       ServerDestroyCancel, MainLeaves, Destroying, At, To, programVars, Unset
  <2>3. QED
    BY <2>1, <2>2, FileKeptAside
<1>5. CASE MainAddPlot \/ MainSignalled \/ MainLogsInServer \/ MainExit \/ MainFails
  <2>1. ~Unset /\ ~Unset' /\ ((\E lvl : L!LogMsg(Main, lvl)) \/ Aside)
    BY <1>1, <1>5 DEF MainAddPlot, MainSignalled, MainLogsInServer, MainExit, MainFails, Say,
       Destroying, At, To, Unset
  <2>2. Main \in Loggers
    BY DEF Loggers
  <2>3. QED
    BY <2>1, <2>2, FileKeptAside, FileKeptBySaying
<1>6. ASSUME NEW t \in ServerThreadSet, ThreadWakes(t) \/ ThreadLogs(t) \/ ThreadStep(t)
      PROVE  FileInv'
  <2>1. t \in Loggers
    BY DEF Loggers
  <2>2. CASE LogStep(t)
    BY <2>1, <2>2, FileKeptInLog
  <2>3. CASE ThreadLogs(t)
    <3>1. ~Unset /\ ~Unset' /\ L!LogMsg(t, 1)
      BY <2>3 DEF ThreadLogs, ServerOnly, FileInv, Unset
    <3>2. QED
      BY <2>1, <3>1, FileKeptBySaying
  <2>4. CASE ThreadWakes(t) \/ ThreadSleeps(t) \/ ThreadCancelled(t)
    <3>1. ~Unset /\ ~Unset' /\ Aside
      BY <1>1, <2>4 DEF ThreadWakes, ThreadSleeps, ThreadCancelled, ServerOnly, FileInv, Unset
    <3>2. QED
      BY <3>1, FileKeptAside
  <2>5. QED
    BY <1>6, <2>2, <2>3, <2>4 DEF ThreadStep
<1>7. CASE LogStep(Main)
  BY <1>7, FileKeptInLog DEF Loggers
<1>8. QED
  BY <1>2, <1>3, <1>4, <1>5, <1>6, <1>7 DEF ProgramNext, MainStep

(* Whatever of the start fails, main uses no option that was freed, no     *)
(* null pointer at the end of argv, no uninitialised argument and no log   *)
(* without a file; what is undefined is a read behind the array of short   *)
(* names only.  It leaves with the command line released, but for the help,*)
(* which exits, and for that array where the help could not be added; and  *)
(* no thread of the server starts before all of it is (main.c:18-111,      *)
(* cli.c:279, 292-304, 714-716).                                           *)
THEOREM MainReleasesEverything == ProgramSpec => []MainReleasesAll
<1>1. ProgramInit => MainInv /\ StartInv /\ FileInv /\ ArgsInv
  <2>. SUFFICES ASSUME ProgramInit PROVE MainInv /\ StartInv /\ FileInv /\ ArgsInv
    OBVIOUS
  <2>1. /\ main \in {"any", "start"} /\ (main # "any" => strict) /\ cli = "none"
        /\ reg = EmptyRegistry /\ lost = {} /\ ub = "none" /\ ~flagged
    BY DEF ProgramInit, Init
  <2>2. OnlyArgs(reg)
    BY <2>1, NothingRegistered DEF OnlyArgs
  <2>3. MainInv
    BY <2>1, <2>2 DEF MainInv, MainCli, BeforeCli, AfterCli, Places
  <2>4. FileInv
    BY DEF ProgramInit, L!Init, FileInv, Unset, ToWrite, Loggers
  <2>5. ArgsInv
    BY ArgsInit DEF ProgramInit
  <2>6. StartInv
    BY DEF ProgramInit, StartInv, Started
  <2>7. QED
    BY <2>3, <2>4, <2>5, <2>6
<1>2. CliInv /\ CliInv' /\ LogTyped /\ MainInv /\ StartInv /\ FileInv /\ ArgsInv
         /\ [ProgramNext]_allVars
         => MainInv' /\ StartInv' /\ FileInv' /\ ArgsInv'
  <2>1. ArgsInv /\ [ProgramNext]_allVars => ArgsInv'
    BY StepIsCliStep, ArgsKept
  <2>2. QED
    BY <2>1, MainInvKept, StartKept, FileKept DEF Kept
<1>3. MainInv /\ StartInv /\ FileInv => MainReleasesAll
  BY DEF MainInv, MainCli, AfterCli, StartInv, Started, FileInv, MainReleasesAll
<1>4. QED
  BY <1>1, <1>2, <1>3, CliInvHolds, LogTypedHolds, PTL DEF ProgramSpec
=============================================================================
