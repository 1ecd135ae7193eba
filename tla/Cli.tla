--------------------------------- MODULE Cli ---------------------------------
(***************************************************************************)
(* The command line of src/cli/cli.c: options are added and removed, then  *)
(* the arguments of the program are matched against them.                  *)
(*                                                                         *)
(* The same options are reachable in four ways: the rings of optional and  *)
(* required options, two hash tables (by id, by long name) and an array    *)
(* indexed by the short name.  The registry, reg, holds all of them, as    *)
(* memory: opt[n] is the struct cli_opt_node at address n, or Null when    *)
(* nothing is allocated there.                                             *)
(*                                                                         *)
(* The tables and rings are those of CliHash and ListC.  The table of a    *)
(* match (nodes_by_id_ht) is a function from ids.  Arguments of options    *)
(* are numbered as they are parsed; a parser may hand over memory that     *)
(* data_free releases.  Use of memory that is not there is undefined: it   *)
(* sets ub, and nothing follows.                                           *)
(***************************************************************************)
EXTENDS CliHash

CONSTANTS
    Addresses,    \* where struct cli_opt_node may be allocated
    None,         \* no long name, no short name
    OptionLists,  \* arrays that may be given to cli_add_opts
    ShortNames,   \* the characters that index opts_by_short_name_arr, which
                  \* has UCHAR_MAX places: all but the last one
    Tokens,       \* arguments: [kind |-> "long", "short" or "word", name |-> ...]
    MaxTokens,    \* bound: arguments of the program
    MaxCalls      \* bound: calls of cli_add_opts, cli_remove_opt and cli_match

ASSUME CliConstantsOK ==
    /\ Addresses \subseteq Nat /\ Null \notin Addresses /\ IsFiniteSet(Addresses)
    /\ MaxTokens \in Nat /\ MaxCalls \in Nat
    /\ \A l \in OptionLists : l # <<>>

(* struct cli_opt and the part of struct cli_opt_node that is used.        *)
Options ==
    [id : DOMAIN Hash, long : DOMAIN Hash \cup {None}, short : ShortNames \cup {None},
     required : BOOLEAN, arg : BOOLEAN, append : BOOLEAN, internal : BOOLEAN]

ASSUME CliStringsOK ==
    /\ Null \notin Options /\ None \notin ShortNames
    /\ \A l \in OptionLists : l \in Seq(Options)
    /\ {"help_id_internal", "help"} \subseteq DOMAIN Hash /\ "h" \in ShortNames
    /\ \A tok \in Tokens : tok.kind = "long" => tok.name \in DOMAIN Hash

VARIABLES
    cli,       \* "none", "made", "gone", "leaked" (cli_create has failed and
               \* left the array of short names behind) or "exited" (the help
               \* was printed)
    strict,    \* CLI_STRICT
    reg,       \* the registry
    pc,        \* "idle", in cli_add_opts "adding", "undoing", in cli_match
               \* "matching", or "matched": a match was returned
    list, at,  \* the array of cli_add_opts, the index in it
    match,     \* the match: arguments by id
    tokens,    \* how many arguments of the program were consumed
    parsed,    \* how many option arguments were parsed
    released,  \* history: how often data_free was called, per argument
    before,    \* history: the ids before the last call of cli_add_opts
    result,    \* history: "added" or "refused" once that call returned
    lost,      \* history: short names of options that were removed
    flagged,   \* history: an option without argument was matched
    calls,     \* how many calls were made
    ub         \* "none", or what was used without being there

registry == <<cli, strict, reg, list, at, before, result, lost>>
matching == <<match, tokens, parsed, released, flagged>>
vars == <<registry, matching, pc, calls, ub>>

(* The value of an uninitialised struct cli_opt_arg; 0: data_free is NULL. *)
Garbage == MaxTokens + 1

EmptyRegistry ==
    [opt |-> [n \in Addresses |-> Null],
     ring |-> [next |-> [n \in Addresses |-> n], prev |-> [n \in Addresses |-> n]],
     optional |-> Null, required |-> Null,
     ids |-> cli_hash_table_create, longs |-> cli_hash_table_create,
     short |-> [c \in ShortNames |-> Null]]

Init ==
    /\ cli = "none" /\ strict \in BOOLEAN /\ reg = EmptyRegistry
    /\ pc = "idle" /\ list = <<>> /\ at = 0
    /\ match = <<>> /\ tokens = 0 /\ parsed = 0
    /\ released = [k \in 1 .. MaxTokens |-> 0]
    /\ before = {} /\ result = "none" /\ lost = {} /\ flagged = FALSE
    /\ calls = 0 /\ ub = "none"

Idle == cli = "made" /\ pc = "idle" /\ ub = "none"
Called == calls < MaxCalls /\ calls' = calls + 1
Matching_ == cli = "made" /\ pc = "matching" /\ ub = "none"

-----------------------------------------------------------------------------
(* One option: cli_add_opt and cli_remove_opt, as functions of a registry *)

(* Mutant: it is not checked whether the short name is taken.              *)
SlotTakenNever(R, o) == FALSE

SlotTaken(R, o) == o.short # None /\ R.short[o.short] # Null

Slot(R, o, n) == IF o.short = None THEN R ELSE [R EXCEPT !.short[o.short] = n]

InRing(R, n) ==
    IF R.opt[n].required
    THEN [R EXCEPT !.required = BackHead(@, n), !.ring = BackLinks(@, R.required, n)]
    ELSE [R EXCEPT !.optional = BackHead(@, n), !.ring = BackLinks(@, R.optional, n)]

(* Mutant: the id of an option whose long name is taken stays in the table.*)
ByLongNameLeavesId(R, n) ==
    LET o == R.opt[n] IN
    IF o.long = None THEN {<<InRing(R, n), TRUE>>}
    ELSE {LET R1 == [R EXCEPT !.longs = l[1]] IN
          IF l[2] THEN <<InRing(R1, n), TRUE>>
          ELSE <<Slot(R1, o, Null), FALSE>>
          : l \in cli_hash_table_insert(R.longs, n, o.long)}

(* The long name and the ring; on failure the id is taken back.            *)
ByLongName(R, n) ==
    LET o == R.opt[n] IN
    IF o.long = None THEN {<<InRing(R, n), TRUE>>}
    ELSE {LET R1 == [R EXCEPT !.longs = l[1]] IN
          IF l[2] THEN <<InRing(R1, n), TRUE>>
          ELSE <<Slot([R1 EXCEPT !.ids = cli_hash_table_remove(@, o.id)], o, Null), FALSE>>
          : l \in cli_hash_table_insert(R.longs, n, o.long)}

(* The short name, the id, then the rest.                                  *)
cli_add_opt_node(R, n) ==
    LET o == R.opt[n] IN
    IF SlotTaken(R, o) THEN {<<R, FALSE>>}
    ELSE UNION {LET R1 == [Slot(R, o, n) EXCEPT !.ids = i[1]] IN
                IF i[2] THEN ByLongName(R1, n) ELSE {<<Slot(R1, o, Null), FALSE>>}
                : i \in cli_hash_table_insert(R.ids, n, o.id)}

cli_opt_check(o) == ~o.append /\ ~(o.short = None /\ o.long = None)

NodeFromOpt(R, n, o) == [R EXCEPT !.opt[n] = o, !.ring = listc_init(@, n)]

(* cli_opt_node_destroy of a node that was not taken in.                   *)
KeptOrFreed(r, n) == IF r[2] THEN r ELSE <<[r[1] EXCEPT !.opt[n] = Null], FALSE>>

(* malloc gives the lowest free address, so that freed memory is reused.   *)
FreeAddresses(R) == {n \in Addresses : R.opt[n] = Null}
NewAddress(R) == CHOOSE n \in FreeAddresses(R) : \A m \in FreeAddresses(R) : n <= m

AddOpt(R, o) ==
    (IF MayFail \/ FreeAddresses(R) = {} THEN {<<R, FALSE>>} ELSE {})
        \cup (IF FreeAddresses(R) = {} THEN {}
              ELSE LET n == NewAddress(R)
                   IN  {KeptOrFreed(r, n) : r \in cli_add_opt_node(NodeFromOpt(R, n, o), n)})

cli_add_opt(R, o) == IF cli_opt_check(o) /\ ~o.internal THEN AddOpt(R, o) ELSE {<<R, FALSE>>}

(* The short name stays in the array.                                      *)
Removed(R, n) ==
    LET o == R.opt[n]
        ring(head) == RemoveLinks(R.ring, head, n)
    IN  [R EXCEPT
            !.required = IF o.required THEN RemoveHead(R.ring, @, n) ELSE @,
            !.optional = IF o.required THEN @ ELSE RemoveHead(R.ring, @, n),
            !.ring = IF o.required THEN ring(R.required) ELSE ring(R.optional),
            !.ids = cli_hash_table_remove(@, o.id),
            !.longs = IF o.long = None THEN @ ELSE cli_hash_table_remove(@, o.long),
            !.opt[n] = Null]

Removable(R, id) ==
    LET n == cli_hash_table_get(R.ids, id) IN n # Null /\ ~R.opt[n].internal

cli_remove_opt(R, id) ==
    IF Removable(R, id) THEN Removed(R, cli_hash_table_get(R.ids, id)) ELSE R

(* The short names that a removal leaves in the array.                     *)
Orphans(R, id) ==
    IF ~Removable(R, id) THEN {}
    ELSE {R.opt[cli_hash_table_get(R.ids, id)].short} \ {None}

-----------------------------------------------------------------------------
(* cli_create, cli_add_opts, cli_remove_opt, cli_destroy *)

AutoHelp ==
    [id |-> "help_id_internal", long |-> "help", short |-> "h", required |-> FALSE,
     arg |-> FALSE, append |-> FALSE, internal |-> TRUE]

(* With or without CLI_AUTO_HELP.  malloc or calloc may fail on the way to *)
(* the array; when the help cannot be added, the array is not freed.       *)
CliCreate ==
    /\ cli = "none"
    /\ \/ \E r \in AddOpt(reg, AutoHelp) \cup {<<reg, TRUE>>} :
            IF r[2] THEN cli' = "made" /\ reg' = r[1]
            ELSE cli' = "leaked" /\ UNCHANGED reg
       \/ MayFail /\ cli' = "gone" /\ UNCHANGED reg
    /\ UNCHANGED <<strict, pc, list, at, before, result, lost, matching, calls, ub>>

AllIds == DOMAIN AsMap(reg.ids)

AddOptsBegin(l) ==
    /\ Idle /\ Called
    /\ pc' = "adding" /\ list' = l /\ at' = 1
    /\ before' = AllIds /\ result' = "none"
    /\ UNCHANGED <<cli, strict, reg, lost, matching, ub>>

(* One option; the first failure turns to the removal of those before it.  *)
AddOptsStep ==
    /\ pc = "adding"
    /\ \E r \in cli_add_opt(reg, list[at]) :
         /\ reg' = r[1]
         /\ \/ /\ r[2] /\ at < Len(list)
               /\ at' = at + 1
               /\ UNCHANGED <<pc, list, result>>
            \/ /\ r[2] /\ at = Len(list)
               /\ pc' = "idle" /\ result' = "added" /\ list' = <<>> /\ at' = 0
            \/ /\ ~r[2] /\ at > 1
               /\ pc' = "undoing" /\ list' = SubSeq(list, 1, at - 1) /\ at' = 1
               /\ UNCHANGED result
            \/ /\ ~r[2] /\ at = 1
               /\ pc' = "idle" /\ result' = "refused" /\ list' = <<>> /\ at' = 0
    /\ UNCHANGED <<cli, strict, before, lost, matching, calls, ub>>

RemoveOne(id) ==
    /\ reg' = cli_remove_opt(reg, id)
    /\ lost' = lost \cup Orphans(reg, id)

AddOptsUndo ==
    /\ pc = "undoing"
    /\ RemoveOne(list[at].id)
    /\ IF at < Len(list) THEN at' = at + 1 /\ UNCHANGED <<pc, list, result>>
       ELSE pc' = "idle" /\ result' = "refused" /\ list' = <<>> /\ at' = 0
    /\ UNCHANGED <<cli, strict, before, matching, calls, ub>>

RemoveOpt(id) ==
    /\ Idle /\ Called
    /\ RemoveOne(id)
    /\ result' = "none" /\ before' = {}
    /\ UNCHANGED <<cli, strict, pc, list, at, matching, ub>>

(* Ends the history, too.                                                  *)
CliDestroy ==
    /\ Idle
    /\ cli' = "gone"
    /\ reg' = EmptyRegistry
    /\ before' = {} /\ result' = "none" /\ lost' = {} /\ calls' = 0
    /\ tokens' = 0 /\ parsed' = 0 /\ released' = [k \in 1 .. MaxTokens |-> 0]
    /\ UNCHANGED <<strict, pc, list, at, match, flagged, ub>>

-----------------------------------------------------------------------------
(* cli_match: one action per way through the loop over the arguments *)

Stored(k) ==
    {p \in (DOMAIN match) \X (1 .. MaxTokens) :
        p[2] <= Len(match[p[1]]) /\ match[p[1]][p[2]] = k}

(* cli_match_destroy, and data_free of the arguments in the set S.         *)
MatchDestroyed(S) ==
    /\ released' = [k \in 1 .. MaxTokens |->
                      released[k] + Cardinality(Stored(k)) + (IF k \in S THEN 1 ELSE 0)]
    /\ ub' = IF Stored(Garbage) # {} \/ Garbage \in S THEN "argument" ELSE "none"
    /\ match' = <<>>

(* goto destroy_match; cli_match returns NULL.                             *)
Refuse(S) == MatchDestroyed(S) /\ pc' = "idle"

(* An error was reported: strict matching stops, otherwise it goes on.     *)
ReportError == IF strict THEN Refuse({}) ELSE UNCHANGED <<pc, match, released, ub>>

(* cli_match_create may fail.                                              *)
MatchBegin ==
    /\ Idle /\ Called
    /\ tokens = 0
    /\ pc' = "matching" \/ (MayFail /\ pc' = "idle")
    /\ UNCHANGED <<registry, matching, ub>>

Consume(n) == tokens + n <= MaxTokens /\ tokens' = tokens + n

(* A word is taken for an option by its second character, unless strict.   *)
(* Any character is: the array has no place for the last one, \xff, and    *)
(* what lies behind it is taken for a pointer.                             *)
OutOfBounds(tok) ==
    /\ tok.kind # "long" /\ ~(tok.kind = "word" /\ strict)
    /\ tok.name \notin ShortNames

MatchOutside(tok) ==
    /\ Matching_ /\ Consume(1)
    /\ OutOfBounds(tok)
    /\ ub' = "slot"
    /\ UNCHANGED <<registry, match, parsed, released, flagged, pc, calls>>

Found(tok) ==
    IF tok.kind = "long" THEN cli_hash_table_get(reg.longs, tok.name)
    ELSE IF tok.kind = "word" /\ strict THEN Null
    ELSE reg.short[tok.name]

MatchUnknown(tok) ==
    /\ Matching_ /\ Consume(1)
    /\ ~OutOfBounds(tok) /\ Found(tok) = Null
    /\ ReportError
    /\ UNCHANGED <<registry, parsed, flagged, calls>>

(* The option that is found was freed.                                     *)
MatchFreed(tok) ==
    /\ Matching_ /\ Consume(1)
    /\ ~OutOfBounds(tok) /\ Found(tok) # Null /\ reg.opt[Found(tok)] = Null
    /\ ub' = "option"
    /\ UNCHANGED <<registry, match, parsed, released, flagged, pc, calls>>

Option(tok) == reg.opt[Found(tok)]
Finds(tok) == ~OutOfBounds(tok) /\ Found(tok) # Null /\ Option(tok) # Null

(* The handler of the automatic option prints the help and exits.          *)
MatchHelp(tok) ==
    /\ Matching_ /\ Consume(1)
    /\ Finds(tok) /\ Option(tok).internal
    /\ cli' = "exited"
    /\ UNCHANGED <<strict, reg, list, at, before, result, lost>>
    /\ UNCHANGED <<match, parsed, released, flagged, pc, calls, ub>>

(* The option is the last argument.  When matching goes on, it steps over  *)
(* the null pointer at the end of argv.                                    *)
MatchNoArg(tok) ==
    /\ Matching_ /\ Consume(1)
    /\ Finds(tok) /\ Option(tok).arg
    /\ IF strict THEN Refuse({})
       ELSE ub' = "argv" /\ UNCHANGED <<pc, match, released>>
    /\ UNCHANGED <<registry, parsed, flagged, calls>>

MatchBadArg(tok) ==
    /\ Matching_ /\ Consume(2)
    /\ Finds(tok) /\ Option(tok).arg
    /\ ReportError
    /\ UNCHANGED <<registry, parsed, flagged, calls>>

(* The argument of an option: parsed, or for an option without argument    *)
(* whatever the memory of the variable holds, which may be the last one.   *)
Argument(tok, k) ==
    IF Option(tok).arg
    THEN /\ Consume(2)
         /\ k = parsed + 1 /\ parsed' = k
         /\ UNCHANGED flagged
    ELSE /\ Consume(1)
         /\ k \in {0, parsed, Garbage}
         /\ flagged' = TRUE
         /\ UNCHANGED parsed

Own(tok, k) == IF Option(tok).arg THEN {k} ELSE {}

(* Mutant: a repeated option's argument is not released.                   *)
MatchRepeatedLeaks(tok, k) ==
    /\ Matching_ /\ Finds(tok) /\ ~Option(tok).internal
    /\ Option(tok).id \in DOMAIN match
    /\ Argument(tok, k)
    /\ IF strict THEN Refuse({}) ELSE UNCHANGED <<pc, match, released, ub>>
    /\ UNCHANGED <<registry, calls>>

(* No option may be repeated: CLI_OPT_APPEND is refused by cli_opt_check.  *)
MatchRepeated(tok, k) ==
    /\ Matching_ /\ Finds(tok) /\ ~Option(tok).internal
    /\ Option(tok).id \in DOMAIN match
    /\ Argument(tok, k)
    /\ IF strict THEN Refuse(Own(tok, k)) ELSE UNCHANGED <<pc, match, released, ub>>
    /\ UNCHANGED <<registry, calls>>

MatchNew(tok, k) ==
    /\ Matching_ /\ Finds(tok) /\ ~Option(tok).internal
    /\ Option(tok).id \notin DOMAIN match
    /\ Argument(tok, k)
    /\ match' = [id \in DOMAIN match \cup {Option(tok).id} |->
                   IF id = Option(tok).id THEN <<k>> ELSE match[id]]
    /\ UNCHANGED <<registry, released, pc, calls, ub>>

(* cli_match_add_node fails.                                               *)
MatchNewFails(tok, k) ==
    /\ MayFail
    /\ Matching_ /\ Finds(tok) /\ ~Option(tok).internal
    /\ Option(tok).id \notin DOMAIN match
    /\ Argument(tok, k)
    /\ Refuse(Own(tok, k))
    /\ UNCHANGED <<registry, calls>>

RequiredIds == {reg.opt[n].id : n \in Visited(reg.ring, reg.required)}

MatchEnd ==
    /\ Matching_
    /\ IF RequiredIds \subseteq DOMAIN match
       THEN pc' = "matched" /\ UNCHANGED <<match, released, ub>>
       ELSE Refuse({})
    /\ UNCHANGED <<registry, tokens, parsed, flagged, calls>>

(* The one argument of an option, or Null.                                 *)
cli_match_get_arg(id) ==
    IF id \in DOMAIN match /\ Len(match[id]) = 1 THEN match[id][1] ELSE Null

(* cli_match_destroy, called by the owner of the match.                    *)
MatchDestroy ==
    /\ cli = "made" /\ pc = "matched" /\ ub = "none"
    /\ MatchDestroyed({})
    /\ pc' = "idle"
    /\ UNCHANGED <<registry, tokens, parsed, flagged, calls>>

-----------------------------------------------------------------------------

MatchStep ==
    \/ \E tok \in Tokens :
          \/ MatchOutside(tok)
          \/ MatchUnknown(tok) \/ MatchFreed(tok) \/ MatchHelp(tok)
          \/ MatchNoArg(tok) \/ MatchBadArg(tok)
          \/ \E k \in 0 .. Garbage :
                MatchRepeated(tok, k) \/ MatchNew(tok, k) \/ MatchNewFails(tok, k)
    \/ MatchBegin \/ MatchEnd \/ MatchDestroy

Next ==
    \/ CliCreate \/ CliDestroy
    \/ \E l \in OptionLists : AddOptsBegin(l)
    \/ AddOptsStep \/ AddOptsUndo
    \/ \E id \in AllIds : RemoveOpt(id)
    \/ MatchStep

Spec == Init /\ [][Next]_vars

-----------------------------------------------------------------------------
(* Properties *)

Alive == {n \in Addresses : reg.opt[n] # Null}

(* After every call, also one that failed half-way, the two rings and the  *)
(* two hash tables hold the living options and nothing else, each where it *)
(* belongs, and a refused cli_add_opts leaves no option behind             *)
(* (cli.c:408-487, 510-534; cli_hash.c:58-112).                            *)
TablesAgree ==
    /\ Closed(reg.ring, reg.optional) /\ Closed(reg.ring, reg.required)
    /\ Visited(reg.ring, reg.required) = {n \in Alive : reg.opt[n].required}
    /\ Visited(reg.ring, reg.optional) = {n \in Alive : ~reg.opt[n].required}
    /\ TableSound(reg.ids) /\ TableSound(reg.longs)
    /\ \A id \in AllIds : cli_hash_table_get(reg.ids, id) \in Alive
    /\ \A n \in Alive : cli_hash_table_get(reg.ids, reg.opt[n].id) = n
    /\ \A l \in DOMAIN AsMap(reg.longs) : cli_hash_table_get(reg.longs, l) \in Alive
    /\ \A n \in Alive : reg.opt[n].long # None =>
          cli_hash_table_get(reg.longs, reg.opt[n].long) = n
    /\ result = "refused" => AllIds = before

(* The two hash tables implement finite maps: no insertion replaces or     *)
(* hides an entry, no removal takes another one along, whatever collides.  *)
Ids == INSTANCE Dictionary
    WITH Keys <- DOMAIN Hash, Values <- Addresses, dict <- AsMap(reg.ids)
Longs == INSTANCE Dictionary
    WITH Keys <- DOMAIN Hash, Values <- Addresses, dict <- AsMap(reg.longs)
TablesAreDictionaries == Ids!Spec /\ Longs!Spec

(* A short name leads to the living option that has it; only of an option  *)
(* that was removed, by the caller or by a cli_add_opts that failed, is    *)
(* the pointer left in the array, so that only then a freed option can be  *)
(* matched (cli.c:411, 435, 530, 711).                                     *)
ShortNamesLead ==
    /\ \A c \in ShortNames \ lost : reg.short[c] # Null =>
          reg.short[c] \in Alive /\ reg.opt[reg.short[c]].short = c
    /\ \A n \in Alive : reg.opt[n].short # None => reg.short[reg.opt[n].short] = n
    /\ ub = "option" => lost # {}

(* While only options with an argument are matched, no argument is released*)
(* twice or while it is in a match, on no way out of cli_match; a strict   *)
(* one releases or keeps every argument it parsed (cli.c:687-803).         *)
ArgsReleasedOnce ==
    ~flagged =>
        \A k \in 1 .. MaxTokens :
            /\ released[k] + Cardinality(Stored(k)) <= 1
            /\ strict => (k <= parsed <=> released[k] + Cardinality(Stored(k)) = 1)
=============================================================================
