------------------------------ MODULE Options ------------------------------
(***************************************************************************)
(* The options of the command line: the two passes parse_settings() makes  *)
(* over them (parse.c:127-451), with getopt() of the C library, which      *)
(* moves the tests behind the options, or that of getopt.c, which does     *)
(* not.  What becomes of the tests is in TestPlan.                         *)
(*                                                                         *)
(* A word is an option, with one letter or several, or anything else: then *)
(* it may be read as numbers, as a test, or as a name.                     *)
(***************************************************************************)
EXTENDS Integers, Sequences, FiniteSets
Seqs == INSTANCE SequencesExt

CONSTANTS
    CommandLines,  \* sequences of words
    Libraries,     \* what getopt() is: "permutes" or "getopt.c"
    Hosts          \* the names str_to_addr() resolves

Letters       == {"D", "h", "v", "V", "t", "T", "R", "e", "u", "n", "q"}
TakesArgument == {"s", "d", "p", "c", "i", "H", "r", "m"}

Word == [letters : Seq(Letters \cup TakesArgument \cup {"unknown"}),
         text : STRING, numbers : Seq(Nat), test : BOOLEAN]

\* An argument is a word of its own: "-d5" is taken like "-d 5".  No test begins
\* like an option: "-1{1-1}" is left out.
ASSUME CommandLinesAssumption ==
    /\ CommandLines \subseteq Seq(Word)
    /\ \A line \in CommandLines : \A k \in DOMAIN line :
           /\ \A j \in DOMAIN line[k].letters :
                  line[k].letters[j] \in TakesArgument => j = Len(line[k].letters)
           /\ line[k].test => line[k].letters = <<>>
ASSUME LibrariesAssumption == Libraries \subseteq {"permutes", "getopt.c"}

VARIABLES
    typed,         \* the command line as it was typed
    library,
    argv, optind,
    next,          \* the letters of the current word that are left
    settings,
    tests,         \* the words taken for tests, each with host and port
    parsing

optionsVars == <<typed, library, argv, optind, next, settings, tests, parsing>>

None      == "none"
Unlimited == -1    \* ~0

Default == [
    daemon |-> FALSE, verbose |-> FALSE, dirty |-> FALSE, timestamp |-> FALSE,
    disable_nagles |-> FALSE, reverse |-> FALSE, quiet |-> FALSE,
    duration |-> 10, message_size |-> 1024, rate |-> Unlimited, port |-> 1234,
    confidence |-> <<0, 0>>, iterations |-> <<1, 1>>, server_host |-> None,
    threaded_model |-> "t", type |-> "stream", protocol |-> "tcp"]

OptionsInit ==
    /\ typed \in CommandLines /\ library \in Libraries
    /\ argv = typed /\ optind = 1 /\ next = <<>>
    /\ settings = Default /\ tests = <<>>
    /\ parsing = IF typed = <<>> THEN "rejected" ELSE "first"

-----------------------------------------------------------------------------
(***************************************************************************)
(* What each letter does.                                                  *)
(***************************************************************************)
Flag   == [D |-> "daemon", v |-> "verbose", e |-> "dirty", T |-> "timestamp",
           n |-> "disable_nagles", R |-> "reverse", q |-> "quiet"]
Number == [d |-> "duration", s |-> "message_size", r |-> "rate", p |-> "port"]

Levels == {7500, 9000, 9500, 9750, 9900, 9950, 9995}   \* in units of 1/100

\* The port is an unsigned short.
atoi(c, word) ==
    IF word.numbers = <<>> THEN 0
    ELSE IF c = "p" THEN word.numbers[1] % 2 ^ 16 ELSE word.numbers[1]

MinMax(word) ==
    CASE Len(word.numbers) = 0 -> <<0, 0>>
      [] Len(word.numbers) = 1 -> <<word.numbers[1], word.numbers[1]>>
      [] OTHER                 -> <<word.numbers[1], word.numbers[2]>>

LevelInterval(word) ==
    CASE Len(word.numbers) = 0 -> <<9500, 5>>
      [] Len(word.numbers) = 1 -> <<word.numbers[1], 5>>
      [] OTHER                 -> <<word.numbers[1], word.numbers[2]>>

\* The settings a letter changes, and their new values.
Change(c, word) ==
    CASE c \in DOMAIN Flag   -> [x \in {Flag[c]} |-> TRUE]
      [] c \in DOMAIN Number -> [x \in {Number[c]} |-> atoi(c, word)]
      [] c = "i" -> [iterations |-> MinMax(word)]
      [] c = "c" -> [confidence |-> LevelInterval(word)]
      [] c = "H" -> [server_host |-> word.text]
      [] c = "m" -> [threaded_model |-> word.text]
      [] c = "t" -> [type |-> "stream", protocol |-> "tcp"]
      [] c = "u" -> [type |-> "datagram", protocol |-> "udp"]
      [] OTHER   -> <<>>

Makes(c, word) ==
    CASE c \in DOMAIN Number -> atoi(c, word) # 0
      [] c = "i" -> MinMax(word)[2] # 0 /\ MinMax(word)[1] <= MinMax(word)[2]
      [] c = "c" -> LevelInterval(word)[1] \in Levels
      [] c = "H" -> word.text \in Hosts
      [] c = "m" -> word.text \in {"p", "t"}
      [] OTHER   -> TRUE

\* The letters of the first pass.
ForDaemon == {"D", "h", "v", "V"}

Changed(changes) == [x \in DOMAIN settings |->
                        IF x \in DOMAIN changes THEN changes[x] ELSE settings[x]]

\* Mutant: the case of one letter lacks the check.
Refused_Mutant(c) == settings.daemon /\ c \notin ForDaemon \cup {"n"}

\* The case of every other letter begins with if ( settings->daemon ).
Refused(c) == settings.daemon /\ c \notin ForDaemon

-----------------------------------------------------------------------------
(***************************************************************************)
(* getopt()                                                                *)
(***************************************************************************)
IsOption(word) == word.letters # <<>>
AtOption == next # <<>> \/ (optind <= Len(argv) /\ IsOption(argv[optind]))
LaterOptions == {k \in DOMAIN argv : k > optind /\ IsOption(argv[k])}

\* How many words an option is, its argument included.
Width(k) == IF Seqs!Last(argv[k].letters) \in TakesArgument THEN 2 ELSE 1

Reject ==
    /\ parsing' = "rejected"
    /\ UNCHANGED <<typed, library, argv, optind, next, settings, tests>>

\* The words of the next option are moved in front of those that are none; an
\* option at the end may lack its argument.
Permute ==
    /\ parsing \in {"first", "second"} /\ library = "permutes"
    /\ ~AtOption /\ LaterOptions # {}
    /\ \E k \in LaterOptions :
          /\ \A j \in LaterOptions : k <= j
          /\ IF k + Width(k) - 1 > Len(argv)
             THEN Reject
             ELSE /\ argv' = SubSeq(argv, 1, optind - 1) \o SubSeq(argv, k, k + Width(k) - 1)
                             \o SubSeq(argv, optind, k - 1) \o SubSeq(argv, k + Width(k), Len(argv))
                  /\ UNCHANGED <<typed, library, optind, next, settings, tests, parsing>>

Current == IF next # <<>> THEN next ELSE argv[optind].letters
Follow  == IF next # <<>> THEN optind ELSE optind + 1
Letter  == Head(Current)

\* An option without its argument is '?' or ':', which are refused alike.
Missing == Letter \in TakesArgument /\ Follow > Len(argv)
Argument == IF Letter \in TakesArgument THEN argv[Follow] ELSE argv[optind]

Getopt ==
    /\ next' = Tail(Current)
    /\ optind' = IF Letter \in TakesArgument THEN Follow + 1 ELSE Follow

NoOption == ~AtOption /\ (library = "permutes" => LaterOptions = {})

-----------------------------------------------------------------------------
(***************************************************************************)
(* parse_settings()                                                        *)
(***************************************************************************)

\* The first pass looks for a daemon only.
FirstPass ==
    /\ parsing = "first" /\ AtOption
    /\ IF Missing \/ Letter \in {"h", "V", "unknown"}
       THEN Reject
       ELSE /\ settings' = IF Letter \in {"D", "v"} THEN Changed(Change(Letter, Argument)) ELSE settings
            /\ Getopt
            /\ UNCHANGED <<typed, library, argv, tests, parsing>>

\* Mutant: optind is not reset.
Restart_Mutant == UNCHANGED optind
Restart == optind' = 1

EndFirstPass ==
    /\ parsing = "first" /\ NoOption
    /\ IF settings.daemon /\ optind <= Len(argv)
       THEN Reject
       ELSE /\ Restart /\ parsing' = "second"
            /\ UNCHANGED <<typed, library, argv, next, settings, tests>>

SecondPass ==
    /\ parsing = "second" /\ AtOption
    /\ IF Refused(Letter) \/ ~Makes(Letter, Argument)
       THEN Reject
       ELSE /\ settings' = IF Letter \in ForDaemon THEN settings ELSE Changed(Change(Letter, Argument))
            /\ Getopt
            /\ UNCHANGED <<typed, library, argv, tests, parsing>>

NaglesNeedTcp == settings.disable_nagles /\ settings.protocol # "tcp"

EndSecondPass ==
    /\ parsing = "second" /\ NoOption
    /\ IF NaglesNeedTcp
       THEN Reject
       ELSE /\ parsing' = "tests"
            /\ UNCHANGED <<typed, library, argv, optind, next, settings, tests>>

\* parse_test() takes host and port from the settings.
Parsed(word) == [word |-> word, host |-> settings.server_host, port |-> settings.port]

\* What is left has to be tests.
Rest ==
    /\ parsing = "tests"
    /\ IF optind <= Len(argv)
       THEN IF argv[optind].test
            THEN /\ tests' = Append(tests, Parsed(argv[optind]))
                 /\ optind' = optind + 1
                 /\ UNCHANGED <<typed, library, argv, next, settings, parsing>>
            ELSE Reject
       ELSE IF tests = <<>> /\ ~settings.daemon
            THEN Reject
            ELSE parsing' = "accepted" /\ UNCHANGED <<typed, library, argv, optind, next, settings, tests>>

OptionsNext == \/ Permute \/ FirstPass \/ EndFirstPass
        \/ SecondPass \/ EndSecondPass \/ Rest

OptionsSpec == OptionsInit /\ [][OptionsNext]_optionsVars

-----------------------------------------------------------------------------
(***************************************************************************)
(* Properties.                                                             *)
(***************************************************************************)
Settings == [
    daemon : BOOLEAN, verbose : BOOLEAN, dirty : BOOLEAN, timestamp : BOOLEAN,
    disable_nagles : BOOLEAN, reverse : BOOLEAN, quiet : BOOLEAN,
    duration : Nat, message_size : Nat, rate : Nat \cup {Unlimited}, port : 1 .. 2 ^ 16 - 1,
    confidence : Nat \X Nat, iterations : Nat \X (Nat \ {0}), server_host : Hosts \cup {None},
    threaded_model : {"t", "p"}, type : {"stream", "datagram"}, protocol : {"tcp", "udp"}]

\* Every variable keeps its type: no settings are made that the program asserts
\* against.
OptionsTypeOK ==
    /\ argv \in Seq(Word) /\ Len(argv) = Len(typed)
    /\ optind \in 1 .. Len(argv) + 1
    /\ settings \in Settings
    /\ parsing \in {"first", "second", "tests", "accepted", "rejected"}

\* The words that are the argument of the option before them.
IsArgument[k \in 0 .. Len(typed)] ==
    /\ k > 1
    /\ ~IsArgument[k - 1]
    /\ IsOption(typed[k - 1])
    /\ Seqs!Last(typed[k - 1].letters) \in TakesArgument

Uses == UNION {{k} \X DOMAIN typed[k].letters : k \in {j \in 1 .. Len(typed) : ~IsArgument[j]}}
LetterAt(u) == typed[u[1]].letters[u[2]]
ArgumentAt(u) == IF LetterAt(u) \in TakesArgument THEN typed[u[1] + 1] ELSE typed[u[1]]
Setters(x) == {u \in Uses : x \in DOMAIN Change(LetterAt(u), ArgumentAt(u))}
IsLast(u, set) == \A v \in set : v[1] < u[1] \/ (v[1] = u[1] /\ v[2] <= u[2])

\* The words that are neither option nor argument; the place of one among them.
Plain   == {k \in 1 .. Len(typed) : ~IsArgument[k] /\ ~IsOption(typed[k])}
Rank(k) == Cardinality({j \in Plain : j <= k})

\* Wherever an option stands, among the tests too, a command line that is
\* accepted does what it says, with either getopt(): each setting is the one its
\* last option gives it, and all the tests, in their order, have the host and
\* the port of the final settings.
MeansWhatItSays == parsing = "accepted" =>
    /\ \A x \in DOMAIN Default :
           IF Setters(x) = {} THEN settings[x] = Default[x]
           ELSE \E u \in Setters(x) :
                    IsLast(u, Setters(x)) /\ settings[x] = Change(LetterAt(u), ArgumentAt(u))[x]
    /\ Len(tests) = Cardinality(Plain)
    /\ \A k \in Plain :
           tests[Rank(k)] = [word |-> typed[k], host |-> settings.server_host, port |-> settings.port]

\* Although -D may come last, a daemon never starts with a setting of a test:
\* its settings come with each request.
DaemonTakesNothing == parsing = "accepted" /\ settings.daemon =>
    /\ settings = [Default EXCEPT !.daemon = TRUE, !.verbose = settings.verbose]
    /\ tests = <<>>
=============================================================================
