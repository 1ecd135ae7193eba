------------------------------ MODULE MCProgram ------------------------------
(* Instances of Program for TLC. *)
EXTENDS Program

CONSTANTS Acceptor, Worker

AcceptorThenWorker == <<Acceptor, Worker>>

Opt(id, long, short, required, arg) ==
    [id |-> id, long |-> long, short |-> short, required |-> required, arg |-> arg,
     append |-> FALSE, internal |-> FALSE]

\* main.c
LogLvl == Opt("log_lvl", "log-lvl", "l", FALSE, TRUE)
Port == Opt("port", "port", "p", FALSE, TRUE)
WorkersNr == Opt("workers_nr", "workers-nr", "w", FALSE, TRUE)
OptsOfMain == <<LogLvl, Port, WorkersNr>>

\* another caller: required options, options without argument, and options
\* that clash with these by id, by long or by short name
PortRequired == Opt("port", "port", "p", TRUE, TRUE)
Flag == Opt("flag", "log-lvl", None, FALSE, FALSE)
SamePort == Opt("port", "workers-nr", "w", FALSE, TRUE)
SameLong == Opt("log_lvl", "port", "w", FALSE, TRUE)
SameShort == Opt("log_lvl", None, "p", FALSE, TRUE)
Appended == [Opt("log_lvl", "workers-nr", None, FALSE, TRUE) EXCEPT !.append = TRUE]

Lists == {<<PortRequired>>, <<Flag, SamePort>>, <<SameShort, Flag>>,
          <<PortRequired, SameLong>>, <<Flag, Appended>>}

AllShort == {"l", "p", "w", "h"}
\* "xff" is the character without a place in the array
AllTokens ==
    {[kind |-> k, name |-> n] : k \in {"short", "word"}, n \in {"p", "h", "xff"}} \cup
    {[kind |-> "long", name |-> n] : n \in {"port", "log-lvl", "workers-nr"}}

\* the ids and long names in two buckets
HashOf ==
    [k \in {"port", "flag", "log_lvl", "workers_nr", "help_id_internal",
            "log-lvl", "workers-nr", "help"} |->
        IF k \in {"log_lvl", "workers-nr", "help_id_internal", "help"} THEN 2 ELSE 1]

AllBuilds == [once : BOOLEAN, mt : BOOLEAN, atomic : BOOLEAN]

\* the default, and every level with a banner only
SomeFlags == {[lvl |-> 2, opts |-> {}], [lvl |-> 0, opts |-> {"colour", "time"}]}
=============================================================================
