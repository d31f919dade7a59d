--------------------------- MODULE Options_proofs ---------------------------
(***************************************************************************)
(* Theorems about the options, for every command line: what a daemon takes *)
(* from its own, what every command line means, and which settings it may  *)
(* make.                                                                   *)
(***************************************************************************)
EXTENDS Options, FiniteSetTheorems, SequenceTheorems, WellFoundedInduction, TLAPS

-----------------------------------------------------------------------------
(***************************************************************************)
(* What a daemon takes from its command line, whatever is on it.           *)
(***************************************************************************)
AllLetters == Letters \cup TakesArgument \cup {"unknown"}

\* Words in which only the last letter takes an argument.
Words == {word \in Word : \A j \in DOMAIN word.letters :
                              word.letters[j] \in TakesArgument => j = Len(word.letters)}

\* The word getopt() is at.
At == IF next # <<>> THEN optind - 1 ELSE optind

\* Letters that are the end of a word.
EndOf(letters, word) ==
    /\ letters \in Seq(AllLetters) /\ Len(letters) <= Len(word.letters)
    /\ \A j \in 1 .. Len(letters) :
           letters[j] = word.letters[Len(word.letters) - Len(letters) + j]

WordsInv ==
    /\ argv \in Seq(Words) /\ optind \in Nat \ {0}
    /\ next \in Seq(AllLetters)
    /\ next # <<>> => At \in DOMAIN argv /\ EndOf(next, argv[At])

\* Until the end of the first pass there is nothing but what -D and -v set; in
\* the second a daemon does not come past any other letter.
SettingsInv ==
    /\ settings = [x \in DOMAIN Default |-> settings[x]]
    /\ settings.daemon \in BOOLEAN
    /\ parsing = "first" \/ settings.daemon =>
         \A x \in DOMAIN Default \ {"daemon", "verbose"} : settings[x] = Default[x]

\* An option, or the argument of one.
Explained(k) == \/ IsOption(argv[k])
                \/ /\ k > 1 /\ IsOption(argv[k - 1])
                   /\ Seqs!Last(argv[k - 1].letters) \in TakesArgument

\* A daemon comes to the second pass with options and arguments only, and in it
\* past options without arguments.
ReadInv ==
    /\ parsing \in {"first", "second"} => tests = <<>>
    /\ parsing = "first" => \A k \in 1 .. At - 1 : Explained(k)
    /\ parsing = "second" /\ settings.daemon =>
         /\ \A k \in DOMAIN argv : Explained(k)
         /\ \A k \in 1 .. At - 1 : IsOption(argv[k]) /\ Seqs!Last(argv[k].letters) \notin TakesArgument
    /\ parsing = "tests" => next = <<>>
    /\ parsing \in {"tests", "accepted"} /\ settings.daemon =>
         optind > Len(argv) /\ tests = <<>>

DaemonInv == WordsInv /\ SettingsInv /\ ReadInv

LEMMA Defaults == /\ "daemon" \in DOMAIN Default /\ "verbose" \in DOMAIN Default
                  /\ Default = [x \in DOMAIN Default |-> Default[x]]
                  /\ Default["daemon"] = FALSE
<1>1. "daemon" \in DOMAIN Default /\ "verbose" \in DOMAIN Default
  BY DEF Default
<1>2. Default["daemon"] = FALSE
  BY DEF Default
<1>3. Default = [x \in DOMAIN Default |-> Default[x]]
  BY DEF Default
<1> QED
  BY <1>1, <1>2, <1>3

LEMMA LettersOfDaemon ==
    ASSUME NEW c, NEW word, c \in {"D", "v"}
    PROVE  Change(c, word) = [x \in {IF c = "D" THEN "daemon" ELSE "verbose"} |-> TRUE]
<1>1. c \in DOMAIN Flag /\ Flag[c] = IF c = "D" THEN "daemon" ELSE "verbose"
  BY DEF Flag
<1>2. c \notin DOMAIN Number /\ c \notin {"i", "c", "H", "m", "t", "u"}
  BY DEF Number
<1> QED
  BY <1>1, <1>2 DEF Change

LEMMA OtherLetters ==
    ASSUME NEW c, NEW word, c \notin ForDaemon
    PROVE  "daemon" \notin DOMAIN Change(c, word)
BY DEF Change, Flag, Number, ForDaemon

LEMMA WordTypes ==
    ASSUME NEW word \in Words
    PROVE  /\ word.letters \in Seq(AllLetters)
           /\ \A j \in 1 .. Len(word.letters) :
                  word.letters[j] \in TakesArgument => j = Len(word.letters)
BY DEF Words, Word, AllLetters

\* One letter is read: of which word it is, and where that leaves getopt().
LEMMA Reads ==
    ASSUME WordsInv, AtOption, Getopt
    PROVE  /\ At \in DOMAIN argv /\ IsOption(argv[At])
           /\ optind' \in Nat \ {0} /\ next' \in Seq(AllLetters)
           /\ next' # <<>> => At' = At /\ EndOf(next', argv[At])
           /\ next' = <<>> =>
                /\ Letter = Seqs!Last(argv[At].letters)
                /\ At' = IF Letter \in TakesArgument THEN At + 2 ELSE At + 1
           /\ Letter \in TakesArgument => next' = <<>> /\ Follow = At + 1
<1>1. At \in DOMAIN argv /\ Follow = At + 1 /\ Current # <<>> /\ argv[At] \in Words
  BY DEF WordsInv, AtOption, At, Follow, Current, IsOption
<1> DEFINE letters == argv[At].letters
<1>2. letters \in Seq(AllLetters) /\ \A j \in 1 .. Len(letters) : letters[j] \in TakesArgument => j = Len(letters)
  BY <1>1, WordTypes
<1>3. EndOf(Current, argv[At])
  <2>1. CASE next # <<>>
    BY <1>1, <2>1 DEF WordsInv, Current
  <2>2. CASE next = <<>>
    <3>1. Current = letters
      BY <2>2 DEF Current, At
    <3>2. \A j \in 1 .. Len(letters) : letters[j] = letters[Len(letters) - Len(letters) + j]
      BY <1>2
    <3> QED
      BY <1>2, <3>1, <3>2 DEF EndOf
  <2> QED
    BY <2>1, <2>2
<1>4. Current \in Seq(AllLetters) /\ Len(Current) \in 1 .. Len(letters)
      /\ \A j \in 1 .. Len(Current) : Current[j] = letters[Len(letters) - Len(Current) + j]
  BY <1>1, <1>2, <1>3 DEF EndOf
<1>5. next' = Tail(Current) /\ optind' = IF Letter \in TakesArgument THEN At + 2 ELSE At + 1
  BY <1>1 DEF Getopt, WordsInv, At
<1> HIDE DEF letters
<1>6. Letter = letters[Len(letters) - Len(Current) + 1]
  BY <1>4 DEF Letter
<1>7. Letter \in TakesArgument => Len(Current) = 1
  <2>1. Len(letters) - Len(Current) + 1 \in 1 .. Len(letters)
    BY <1>2, <1>4
  <2>2. Letter \in TakesArgument => Len(letters) - Len(Current) + 1 = Len(letters)
    BY <1>2, <1>6, <2>1
  <2>3. PICK a \in Nat, b \in Nat : a = Len(letters) /\ b = Len(Current)
    BY <1>2, <1>4
  <2>4. Letter \in TakesArgument => a - b + 1 = a
    BY <2>2, <2>3
  <2>5. a - b + 1 = a => b = 1
    OBVIOUS
  <2> QED
    BY <2>3, <2>4, <2>5
<1>8. /\ Tail(Current) \in Seq(AllLetters) /\ Len(Tail(Current)) = Len(Current) - 1
      /\ \A j \in 1 .. Len(Current) - 1 : Tail(Current)[j] = Current[j + 1]
      /\ Tail(Current) = <<>> <=> Len(Current) = 1
  <2>1. /\ Tail(Current) \in Seq(AllLetters) /\ Len(Tail(Current)) = Len(Current) - 1
        /\ \A j \in 1 .. Len(Tail(Current)) : Tail(Current)[j] = Current[j + 1]
    BY <1>1, <1>4, HeadTailProperties
  <2>2. Tail(Current) = <<>> <=> Len(Tail(Current)) = 0
    BY <2>1, EmptySeq
  <2>3. Len(Tail(Current)) = 0 <=> Len(Current) = 1
    BY <1>4, <2>1
  <2>4. \A j \in 1 .. Len(Current) - 1 : Tail(Current)[j] = Current[j + 1]
    BY <2>1
  <2> QED
    BY <2>1, <2>2, <2>3, <2>4
<1>9. EndOf(next', argv[At])
  BY <1>4, <1>5, <1>8 DEF EndOf, letters
<1>10. optind' \in Nat \ {0}
  BY <1>1, <1>5 DEF WordsInv
<1>11. At' = IF next' # <<>> THEN optind' - 1 ELSE optind'
  BY DEF At
<1>12. next' # <<>> => At' = At
  BY <1>1, <1>5, <1>7, <1>8, <1>11 DEF WordsInv
<1>13. next' = <<>> => Letter = Seqs!Last(letters)
  BY <1>4, <1>5, <1>6, <1>8 DEF Seqs!Last
<1>14. IsOption(argv[At])
  BY <1>4 DEF IsOption, letters
<1> QED
  BY <1>1, <1>5, <1>7, <1>8, <1>9, <1>10, <1>11, <1>12, <1>13, <1>14 DEF letters

\* What is moved comes from behind the word getopt() is at, and that is no option.
Moved ==
    /\ next = <<>> /\ optind \in DOMAIN argv /\ ~IsOption(argv[optind])
    /\ argv' \in Seq(Words) /\ UNCHANGED <<optind, next, settings, tests, parsing>>
    /\ \A k \in 1 .. optind - 1 : k \in DOMAIN argv /\ argv'[k] = argv[k]

LEMMA PermuteMoves == ASSUME WordsInv, Permute PROVE Moved \/ Reject
<1>1. argv \in Seq(Words) /\ optind \in Nat \ {0} /\ Len(argv) \in Nat
  BY DEF WordsInv
<1>2. PICK k \in LaterOptions :
        IF k + Width(k) - 1 > Len(argv)
        THEN Reject
        ELSE /\ argv' = SubSeq(argv, 1, optind - 1) \o SubSeq(argv, k, k + Width(k) - 1)
                        \o SubSeq(argv, optind, k - 1) \o SubSeq(argv, k + Width(k), Len(argv))
             /\ UNCHANGED <<typed, library, optind, next, settings, tests, parsing>>
  BY DEF Permute
<1> DEFINE w == Width(k)
<1>4. k \in 1 .. Len(argv) /\ k > optind /\ optind \in DOMAIN argv /\ w \in {1, 2}
  BY <1>1, <1>2 DEF LaterOptions, Width
<1> HIDE DEF w
<1>5. CASE k + w - 1 > Len(argv)
  BY <1>2, <1>5 DEF w
<1>6. CASE ~(k + w - 1 > Len(argv))
  <2> DEFINE front == SubSeq(argv, 1, optind - 1)
             moved == SubSeq(argv, k, k + w - 1)
             behind == SubSeq(argv, optind, k - 1)
             rest == SubSeq(argv, k + w, Len(argv))
  <2>1. argv' = front \o moved \o behind \o rest
        /\ UNCHANGED <<typed, library, optind, next, settings, tests, parsing>>
    BY <1>2, <1>6 DEF w
  <2>2. /\ front \in Seq(Words) /\ Len(front) = optind - 1
        /\ \A j \in 1 .. optind - 1 : front[j] = argv[j]
    <3>1. \A j \in 1 .. optind - 1 : argv[j] \in Words
      BY <1>1, <1>4
    <3> QED
      BY <1>1, <3>1, SubSeqProperties
  <2>3. moved \in Seq(Words) /\ behind \in Seq(Words) /\ rest \in Seq(Words)
    <3>1. \A j \in 1 .. Len(argv) : argv[j] \in Words
      BY <1>1
    <3>2. /\ \A j \in k .. k + w - 1 : argv[j] \in Words
          /\ \A j \in optind .. k - 1 : argv[j] \in Words
          /\ \A j \in k + w .. Len(argv) : argv[j] \in Words
      BY <1>1, <1>4, <1>6, <3>1
    <3>3. k \in Int /\ k + w - 1 \in Int /\ k - 1 \in Int /\ k + w \in Int
      BY <1>4
    <3> QED
      BY <1>1, <3>2, <3>3, SubSeqProperties
  <2> HIDE DEF front, moved, behind, rest
  <2>4. argv' \in Seq(Words)
    BY <2>1, <2>2, <2>3
  <2>5. \A j \in 1 .. optind - 1 : argv'[j] = front[j]
    <3>1. front \o moved \in Seq(Words) /\ front \o moved \o behind \in Seq(Words)
          /\ Len(front) <= Len(front \o moved) /\ Len(front \o moved) <= Len(front \o moved \o behind)
      BY <2>2, <2>3
    <3>2. \A j \in 1 .. Len(front) : (front \o moved)[j] = front[j]
      BY <2>2, <2>3, ConcatProperties
    <3>3. \A j \in 1 .. Len(front \o moved) : (front \o moved \o behind)[j] = (front \o moved)[j]
      BY <2>3, <3>1, ConcatProperties
    <3>4. \A j \in 1 .. Len(front \o moved \o behind) : argv'[j] = (front \o moved \o behind)[j]
      BY <2>1, <2>3, <3>1, ConcatProperties
    <3>5. PICK a \in Nat, b \in Nat, d \in Nat :
              /\ a = Len(front) /\ b = Len(front \o moved) /\ d = Len(front \o moved \o behind)
              /\ a = optind - 1 /\ a <= b /\ b <= d
      BY <2>2, <3>1
    <3> TAKE j \in 1 .. optind - 1
    <3>6. j \in 1 .. a /\ j \in 1 .. b /\ j \in 1 .. d
      BY ONLY <3>5
    <3>7. /\ (front \o moved)[j] = front[j] /\ (front \o moved \o behind)[j] = (front \o moved)[j]
          /\ argv'[j] = (front \o moved \o behind)[j]
      BY <3>2, <3>3, <3>4, <3>5, <3>6
    <3> QED
      BY <3>7
  <2>6. next = <<>> /\ ~IsOption(argv[optind])
    BY <1>1, <1>4 DEF Permute, AtOption
  <2>7. \A j \in 1 .. optind - 1 : j \in DOMAIN argv
    BY <1>1, <1>4
  <2> QED
    BY <1>4, <2>1, <2>2, <2>4, <2>5, <2>6, <2>7 DEF Moved
<1> QED
  BY <1>5, <1>6

LEMMA DaemonInitially == OptionsInit => DaemonInv
<1> SUFFICES ASSUME OptionsInit PROVE DaemonInv
  OBVIOUS
<1>1. /\ argv = typed /\ typed \in CommandLines /\ optind = 1 /\ next = <<>>
      /\ settings = Default /\ tests = <<>> /\ parsing \in {"first", "rejected"}
  BY DEF OptionsInit
<1>2. typed \in Seq(Words)
  <2>1. typed \in Seq(Word) /\ \A k \in DOMAIN typed : typed[k] \in Words
    <3>1. typed \in Seq(Word)
      BY <1>1, CommandLinesAssumption
    <3>2. \A k \in DOMAIN typed : typed[k] \in Word
      BY <3>1
    <3>3. \A k \in DOMAIN typed : \A j \in DOMAIN typed[k].letters :
              typed[k].letters[j] \in TakesArgument => j = Len(typed[k].letters)
      BY <1>1, CommandLinesAssumption
    <3> QED
      BY <3>1, <3>2, <3>3 DEF Words
  <2> QED
    BY <2>1
<1>3. WordsInv
  BY <1>1, <1>2 DEF WordsInv
<1>4. SettingsInv
  BY <1>1, Defaults DEF SettingsInv
<1>5. ReadInv
  BY <1>1 DEF ReadInv, At
<1> QED
  BY <1>3, <1>4, <1>5 DEF DaemonInv

LEMMA RejectKeeps == ASSUME DaemonInv, Reject PROVE DaemonInv'
<1> USE DEF Reject, DaemonInv
<1>1. WordsInv'
  BY DEF WordsInv, At, EndOf
<1>2. SettingsInv'
  BY DEF SettingsInv
<1>3. ReadInv'
  BY DEF ReadInv
<1> QED
  BY <1>1, <1>2, <1>3

\* In the second pass of a daemon there is no word that is neither an option nor
\* behind one that has been read.
LEMMA AllOptions ==
    ASSUME DaemonInv, parsing = "second", settings.daemon, next = <<>>, optind \in DOMAIN argv
    PROVE  IsOption(argv[optind])
<1>1. At = optind /\ optind \in Nat \ {0}
  BY DEF At, DaemonInv, WordsInv
<1>2. Explained(optind) /\ \A k \in 1 .. optind - 1 : Seqs!Last(argv[k].letters) \notin TakesArgument
  BY <1>1 DEF DaemonInv, ReadInv
<1> QED
  BY <1>1, <1>2 DEF Explained

LEMMA PermuteKeeps == ASSUME DaemonInv, Permute PROVE DaemonInv'
<1> USE DEF DaemonInv
<1>1. CASE Reject
  BY <1>1, RejectKeeps
<1>2. CASE Moved
  <2>1. WordsInv'
    BY <1>2 DEF WordsInv, Moved, At
  <2>2. SettingsInv'
    BY <1>2 DEF SettingsInv, Moved
  <2>3. ReadInv'
    <3>1. CASE parsing = "first"
      <4>1. At = optind /\ At' = optind
        BY <1>2 DEF At, Moved
      <4>2. \A k \in 1 .. optind - 1 : Explained(k)'
        BY <1>2, <3>1, <4>1 DEF ReadInv, Moved, Explained, WordsInv
      <4> QED
        BY <1>2, <3>1, <4>1, <4>2 DEF ReadInv, Moved
    <3>2. CASE parsing = "second"
      <4>1. ~settings.daemon
        BY <1>2, <3>2, AllOptions DEF Moved
      <4> QED
        BY <1>2, <3>2, <4>1 DEF ReadInv, Moved
    <3> QED
      BY <3>1, <3>2 DEF Permute
  <2> QED
    BY <2>1, <2>2, <2>3
<1> QED
  BY <1>1, <1>2, PermuteMoves

\* A letter is read, in either pass.
LEMMA ReadKeepsWords == ASSUME WordsInv, AtOption, Getopt, UNCHANGED argv PROVE WordsInv'
<1>1. /\ At \in DOMAIN argv /\ optind' \in Nat \ {0} /\ next' \in Seq(AllLetters)
      /\ next' # <<>> => At' = At /\ EndOf(next', argv[At])
  BY Reads
<1> QED
  BY <1>1 DEF WordsInv, EndOf

LEMMA FirstPassKeeps == ASSUME DaemonInv, FirstPass PROVE DaemonInv'
<1> USE DEF DaemonInv
<1>1. CASE Reject
  BY <1>1, RejectKeeps
<1>2. CASE ~Reject
  <2>1. /\ settings' = IF Letter \in {"D", "v"} THEN Changed(Change(Letter, Argument)) ELSE settings
        /\ Getopt /\ AtOption /\ ~Missing /\ parsing = "first"
        /\ UNCHANGED <<typed, library, argv, tests, parsing>>
    BY <1>2 DEF FirstPass
  <2>2. WordsInv'
    BY <2>1, ReadKeepsWords
  <2>3. SettingsInv'
    <3>1. CASE Letter \in {"D", "v"}
      <4> DEFINE x == IF Letter = "D" THEN "daemon" ELSE "verbose"
      <4>1. Change(Letter, Argument) = [y \in {x} |-> TRUE]
        BY <3>1, LettersOfDaemon
      <4>2. x \in {"daemon", "verbose"}
        OBVIOUS
      <4> HIDE DEF x
      <4>3. settings' = [y \in DOMAIN settings |-> IF y = x THEN TRUE ELSE settings[y]]
        BY <2>1, <3>1, <4>1 DEF Changed
      <4> QED
        BY <2>1, <4>2, <4>3, Defaults DEF SettingsInv
    <3>2. CASE Letter \notin {"D", "v"}
      BY <2>1, <3>2 DEF SettingsInv
    <3> QED
      BY <3>1, <3>2
  <2>4. ReadInv'
    <3>1. /\ At \in DOMAIN argv /\ IsOption(argv[At])
          /\ next' # <<>> => At' = At
          /\ next' = <<>> =>
               /\ Letter = Seqs!Last(argv[At].letters)
               /\ At' = IF Letter \in TakesArgument THEN At + 2 ELSE At + 1
      BY <2>1, Reads
    <3>2. At \in Nat \ {0}
      BY <3>1 DEF WordsInv
    <3>3. \A k \in 1 .. At - 1 : Explained(k)
      BY <2>1 DEF ReadInv
    <3>4. Explained(At)
      BY <3>1 DEF Explained
    <3>5. next' = <<>> /\ Letter \in TakesArgument => Explained(At + 1)
      BY <3>1, <3>2 DEF Explained
    <3>6. \A k \in 1 .. At' - 1 : Explained(k)
      BY <3>1, <3>2, <3>3, <3>4, <3>5
    <3>7. \A k \in 1 .. At' - 1 : Explained(k)'
      BY <2>1, <3>6 DEF Explained
    <3> QED
      BY <2>1, <3>7 DEF ReadInv
  <2> QED
    BY <2>2, <2>3, <2>4
<1> QED
  BY <1>1, <1>2

LEMMA EndFirstPassKeeps == ASSUME DaemonInv, EndFirstPass PROVE DaemonInv'
<1> USE DEF DaemonInv
<1>1. CASE Reject
  BY <1>1, RejectKeeps
<1>2. CASE ~Reject
  <2>1. /\ parsing = "first" /\ next = <<>> /\ optind' = 1 /\ parsing' = "second"
        /\ settings.daemon => optind > Len(argv)
        /\ UNCHANGED <<typed, library, argv, next, settings, tests>>
    BY <1>2 DEF EndFirstPass, NoOption, AtOption, Restart, WordsInv
  <2>2. WordsInv'
    BY <2>1 DEF WordsInv, At
  <2>3. SettingsInv'
    BY <2>1 DEF SettingsInv
  <2>4. At = optind /\ At' = 1
    BY <2>1 DEF At
  <2>5. settings.daemon => \A k \in DOMAIN argv : Explained(k)
    BY <2>1, <2>4 DEF ReadInv, WordsInv
  <2>6. settings.daemon => \A k \in DOMAIN argv : Explained(k)'
    BY <2>1, <2>5 DEF Explained
  <2> QED
    BY <2>1, <2>2, <2>3, <2>4, <2>6 DEF ReadInv
<1> QED
  BY <1>1, <1>2

LEMMA SecondPassKeeps == ASSUME DaemonInv, SecondPass PROVE DaemonInv'
<1> USE DEF DaemonInv
<1>1. CASE Reject
  BY <1>1, RejectKeeps
<1>2. CASE ~Reject
  <2>1. /\ settings' = IF Letter \in ForDaemon THEN settings ELSE Changed(Change(Letter, Argument))
        /\ Getopt /\ AtOption /\ ~Refused(Letter) /\ parsing = "second"
        /\ UNCHANGED <<typed, library, argv, tests, parsing>>
    BY <1>2 DEF SecondPass
  <2>2. WordsInv'
    BY <2>1, ReadKeepsWords
  <2>3. settings.daemon => Letter \in ForDaemon /\ settings' = settings
    BY <2>1 DEF Refused
  <2>4. settings'.daemon = settings.daemon
    <3>1. Letter \notin ForDaemon => "daemon" \notin DOMAIN Change(Letter, Argument)
      BY OtherLetters
    <3> QED
      BY <2>1, <3>1, Defaults DEF Changed, SettingsInv
  <2>5. SettingsInv'
    <3>1. settings' = [x \in DOMAIN Default |-> settings'[x]]
      <4>1. CASE Letter \in ForDaemon
        BY <2>1, <4>1 DEF SettingsInv
      <4>2. CASE Letter \notin ForDaemon
        <5>1. settings' = Changed(Change(Letter, Argument)) /\ DOMAIN settings = DOMAIN Default
          BY <2>1, <4>2 DEF SettingsInv
        <5> QED
          BY <5>1 DEF Changed
      <4> QED
        BY <4>1, <4>2
    <3> QED
      BY <2>1, <2>3, <2>4, <3>1 DEF SettingsInv
  <2>6. ReadInv'
    <3>1. CASE ~settings.daemon
      BY <2>1, <2>4, <3>1 DEF ReadInv
    <3>2. CASE settings.daemon
      <4>1. /\ At \in DOMAIN argv /\ IsOption(argv[At])
            /\ next' # <<>> => At' = At
            /\ next' = <<>> => Letter = Seqs!Last(argv[At].letters) /\ At' = At + 1
        BY <2>1, <2>3, <3>2, Reads DEF ForDaemon, TakesArgument
      <4>2. At \in Nat \ {0} /\ Letter \notin TakesArgument
        BY <2>3, <3>2, <4>1 DEF WordsInv, ForDaemon, TakesArgument
      <4>3. \A k \in 1 .. At - 1 : IsOption(argv[k]) /\ Seqs!Last(argv[k].letters) \notin TakesArgument
        BY <2>1, <3>2 DEF ReadInv
      <4>4. \A k \in 1 .. At' - 1 : IsOption(argv[k]) /\ Seqs!Last(argv[k].letters) \notin TakesArgument
        BY <4>1, <4>2, <4>3
      <4>5. \A k \in DOMAIN argv : Explained(k)'
        BY <2>1, <3>2 DEF ReadInv, Explained
      <4> QED
        BY <2>1, <4>4, <4>5 DEF ReadInv
    <3> QED
      BY <3>1, <3>2
  <2> QED
    BY <2>2, <2>5, <2>6
<1> QED
  BY <1>1, <1>2

LEMMA EndSecondPassKeeps == ASSUME DaemonInv, EndSecondPass PROVE DaemonInv'
<1> USE DEF DaemonInv
<1>1. CASE Reject
  BY <1>1, RejectKeeps
<1>2. CASE ~Reject
  <2>1. /\ parsing = "second" /\ NoOption /\ parsing' = "tests"
        /\ UNCHANGED <<typed, library, argv, optind, next, settings, tests>>
    BY <1>2 DEF EndSecondPass
  <2>2. WordsInv'
    BY <2>1 DEF WordsInv, At, EndOf
  <2>3. SettingsInv'
    BY <2>1 DEF SettingsInv
  <2>4. next = <<>> /\ (optind <= Len(argv) => ~IsOption(argv[optind]))
    BY <2>1 DEF NoOption, AtOption
  <2>5. settings.daemon => optind > Len(argv)
    <3>1. settings.daemon => optind \notin DOMAIN argv
      BY <2>1, <2>4, AllOptions DEF WordsInv
    <3> QED
      BY <3>1 DEF WordsInv
  <2> QED
    BY <2>1, <2>2, <2>3, <2>4, <2>5 DEF ReadInv
<1> QED
  BY <1>1, <1>2

LEMMA RestKeeps == ASSUME DaemonInv, Rest PROVE DaemonInv'
<1> USE DEF DaemonInv
<1>1. CASE Reject
  BY <1>1, RejectKeeps
<1>2. CASE ~Reject
  <2>1. /\ parsing = "tests" /\ parsing' \in {"tests", "accepted"}
        /\ UNCHANGED <<argv, next, settings>>
        /\ \/ optind' = optind /\ tests' = tests
           \/ optind <= Len(argv) /\ optind' = optind + 1
    <3>1. CASE optind <= Len(argv)
      BY <1>2, <3>1, Zenon DEF Rest
    <3>2. CASE ~(optind <= Len(argv))
      <4>1. parsing' = "accepted" /\ UNCHANGED <<typed, library, argv, optind, next, settings, tests>>
        BY <1>2, <3>2, Zenon DEF Rest
      <4>2. parsing = "tests"
        BY Zenon DEF Rest
      <4> QED
        BY <4>1, <4>2
    <3> QED
      BY <3>1, <3>2
  <2>2. next = <<>>
    BY <2>1 DEF ReadInv
  <2>3. WordsInv'
    BY <2>1, <2>2 DEF WordsInv, At
  <2>4. SettingsInv'
    BY <2>1 DEF SettingsInv
  <2>5. settings.daemon => optind' = optind /\ tests' = tests
    BY <2>1 DEF ReadInv, WordsInv
  <2> QED
    BY <2>1, <2>2, <2>3, <2>4, <2>5 DEF ReadInv
<1> QED
  BY <1>1, <1>2

LEMMA OptionsStep == DaemonInv /\ [OptionsNext]_optionsVars => DaemonInv'
<1> SUFFICES ASSUME DaemonInv, [OptionsNext]_optionsVars PROVE DaemonInv'
  OBVIOUS
<1>1. CASE UNCHANGED optionsVars
  <2>1. UNCHANGED <<argv, optind, next, settings, tests, parsing>>
    BY <1>1 DEF optionsVars
  <2>2. WordsInv'
    BY <2>1 DEF DaemonInv, WordsInv, At, EndOf
  <2>3. SettingsInv'
    BY <2>1 DEF DaemonInv, SettingsInv
  <2>4. At' = At
    BY <2>1 DEF At
  <2>5. \A k \in DOMAIN argv \cup 1 .. At - 1 : Explained(k)' <=> Explained(k)
    BY <2>1 DEF Explained
  <2>6. ReadInv'
    BY <2>1, <2>4, <2>5 DEF DaemonInv, ReadInv
  <2> QED
    BY <2>2, <2>3, <2>6 DEF DaemonInv
<1> QED
  BY <1>1, PermuteKeeps, FirstPassKeeps, EndFirstPassKeeps, SecondPassKeeps, EndSecondPassKeeps,
     RestKeeps DEF OptionsNext

LEMMA DaemonImplies == DaemonInv => DaemonTakesNothing
<1> SUFFICES ASSUME DaemonInv, parsing = "accepted", settings.daemon PROVE
        /\ settings = [Default EXCEPT !.daemon = TRUE, !.verbose = settings.verbose]
        /\ tests = <<>>
  BY DEF DaemonTakesNothing
<1>1. /\ settings = [x \in DOMAIN Default |-> settings[x]]
      /\ settings.daemon = TRUE
      /\ \A x \in DOMAIN Default \ {"daemon", "verbose"} : settings[x] = Default[x]
  BY DEF DaemonInv, SettingsInv
<1>2. [Default EXCEPT !.daemon = TRUE, !.verbose = settings.verbose]
      = [x \in DOMAIN Default |-> IF x = "verbose" THEN settings.verbose
                                 ELSE IF x = "daemon" THEN TRUE ELSE Default[x]]
  BY Defaults
<1>3. settings = [x \in DOMAIN Default |-> IF x = "verbose" THEN settings.verbose
                                 ELSE IF x = "daemon" THEN TRUE ELSE Default[x]]
  BY <1>1
<1>4. tests = <<>>
  BY DEF DaemonInv, ReadInv
<1> QED
  BY <1>2, <1>3, <1>4

\* Whatever the command line, and wherever -D stands on it: a daemon that starts
\* has no setting of a test.
THEOREM DaemonTakesNothingCorrect == OptionsSpec => []DaemonTakesNothing
<1>1. OptionsSpec => []DaemonInv
  BY DaemonInitially, OptionsStep, PTL DEF OptionsSpec
<1> QED
  BY <1>1, DaemonImplies, PTL

-----------------------------------------------------------------------------
(***************************************************************************)
(* The words of a command line, wherever getopt() moves them.              *)
(***************************************************************************)
\* A set of numbers has a least one.
LEMMA LeastOf ==
    ASSUME NEW T \in SUBSET Nat, T # {}
    PROVE  \E n \in T : \A m \in T : n <= m
<1>1. IsWellFoundedOn(OpToRel(<, Nat), Nat)
  BY NatLessThanWellFounded, Zenon
<1>2. \E x \in T : \A y \in T : ~ (<<y, x>> \in OpToRel(<, Nat))
  BY <1>1, WFMin, Zenon
<1>3. PICK x \in T : \A y \in T : ~ (<<y, x>> \in OpToRel(<, Nat))
  BY <1>2, Zenon
<1>4. \A y \in T : <<y, x>> \in OpToRel(<, Nat) <=> y < x
  BY DEF OpToRel
<1>5. \A y \in T : ~(y < x)
  BY <1>3, <1>4, Zenon
<1>6. \A y \in T : x \in Nat /\ y \in Nat /\ ~(y < x)
  BY ONLY <1>5, x \in T, T \in SUBSET Nat
<1> QED
  BY ONLY <1>6, x \in T

\* Induction, over a set of numbers.
LEMMA Induct ==
    ASSUME NEW S, 0 \in S, \A n \in Nat : n \in S => n + 1 \in S
    PROVE  Nat \subseteq S
<1> DEFINE T == {n \in Nat : n \notin S}
<1>1. ASSUME T # {} PROVE FALSE
  <2>1. PICK n \in T : \A m \in T : n <= m
    BY <1>1, LeastOf
  <2>2. n # 0 /\ n - 1 \in Nat
    BY <2>1
  <2>3. n - 1 \in T
    BY <2>2
  <2> QED
    BY <2>1, <2>3
<1> QED
  BY <1>1

\* The option that takes the next word.
TakesNext(p) == IsOption(typed[p]) /\ Seqs!Last(typed[p].letters) \in TakesArgument

\* Which words are arguments follows from the word before.
Following(f) == [k \in 0 .. Len(typed) |->
                    /\ k > 1
                    /\ ~f[k - 1]
                    /\ IsOption(typed[k - 1])
                    /\ Seqs!Last(typed[k - 1].letters) \in TakesArgument]

\* The arguments among the first words.
UpToWord(n) == {f \in [0 .. n -> BOOLEAN] :
                   \A k \in 0 .. n : f[k] <=> k > 1 /\ ~f[k - 1] /\ TakesNext(k - 1)}

\* For any number of words there are such functions, so IsArgument is one.
LEMMA ArgumentsExist == ASSUME NEW n \in Nat PROVE UpToWord(n) # {}
<1> DEFINE S == {m \in Nat : UpToWord(m) # {}}
<1>1. 0 \in S
  <2>1. [k \in 0 .. 0 |-> FALSE] \in UpToWord(0)
    BY DEF UpToWord
  <2> QED BY <2>1
<1>2. ASSUME NEW m \in Nat, m \in S PROVE m + 1 \in S
  <2>1. PICK f \in UpToWord(m) : TRUE
    BY <1>2
  <2>2. f \in [0 .. m -> BOOLEAN] /\ \A k \in 0 .. m : f[k] <=> k > 1 /\ ~f[k - 1] /\ TakesNext(k - 1)
    BY <2>1 DEF UpToWord
  <2>3. PICK b \in BOOLEAN : b <=> m + 1 > 1 /\ ~f[m] /\ TakesNext(m)
    OBVIOUS
  <2> DEFINE g == [k \in 0 .. (m + 1) |-> IF k = m + 1 THEN b ELSE f[k]]
  <2>4. g \in [0 .. (m + 1) -> BOOLEAN]
    <3>1. \A k \in 0 .. (m + 1) : k # m + 1 => k \in 0 .. m
      OBVIOUS
    <3> QED BY <2>2, <2>3, <3>1
  <2>5. g[m + 1] = b /\ \A k \in 0 .. m : g[k] = f[k]
    OBVIOUS
  <2> HIDE DEF g
  <2>6. ASSUME NEW k \in 0 .. (m + 1)
        PROVE  g[k] <=> k > 1 /\ ~g[k - 1] /\ TakesNext(k - 1)
    <3>1. CASE k = m + 1
      <4>1. k - 1 = m /\ m \in 0 .. m
        BY <3>1
      <4> QED BY <2>3, <2>5, <3>1, <4>1
    <3>2. CASE k \in 0 .. m
      <4>1. k > 1 => g[k - 1] = f[k - 1]
        <5>1. k > 1 => k - 1 \in 0 .. m
          BY <3>2
        <5> QED BY <2>5, <5>1
      <4> QED BY <2>2, <2>5, <3>2, <4>1
    <3> QED BY <3>1, <3>2
  <2>7. g \in UpToWord(m + 1)
    BY <2>4, <2>6 DEF UpToWord
  <2> QED BY <2>7
<1> HIDE DEF S
<1>3. Nat \subseteq S
  BY <1>1, <1>2, Induct
<1> QED BY <1>3 DEF S

LEMMA ArgumentsAre ==
  ASSUME typed \in Seq(Word)
  PROVE  \A k \in 1 .. Len(typed) : IsArgument[k] <=> k > 1 /\ ~IsArgument[k - 1] /\ TakesNext(k - 1)
<1>1. IsArgument = CHOOSE f : f = Following(f)
  BY Zenon DEF IsArgument, Following
<1>2. \E f : f = Following(f)
  <2>1. PICK n \in Nat : n = Len(typed)
    OBVIOUS
  <2>2. PICK f \in UpToWord(n) : TRUE
    BY ArgumentsExist
  <2>3. f \in [0 .. n -> BOOLEAN] /\ \A k \in 0 .. n : f[k] <=> k > 1 /\ ~f[k - 1] /\ TakesNext(k - 1)
    BY <2>2 DEF UpToWord
  <2>4. \A k \in 0 .. n : f[k] = (k > 1 /\ ~f[k - 1] /\ TakesNext(k - 1))
    BY <2>3
  <2>5. f = [k \in 0 .. n |-> k > 1 /\ ~f[k - 1] /\ TakesNext(k - 1)]
    BY <2>3, <2>4
  <2>6. Following(f) = [k \in 0 .. n |-> k > 1 /\ ~f[k - 1] /\ TakesNext(k - 1)]
    BY <2>1 DEF Following, TakesNext
  <2> QED BY <2>5, <2>6
<1>3. IsArgument = Following(IsArgument)
  BY <1>1, <1>2, Zenon
<1>4. \A k \in 1 .. Len(typed) : k \in 0 .. Len(typed)
  OBVIOUS
<1>5. PICK f : f = IsArgument /\ f = Following(f)
  BY <1>3
<1>6. \A k \in 1 .. Len(typed) : f[k] = (k > 1 /\ ~f[k - 1] /\ TakesNext(k - 1))
  BY <1>4, <1>5 DEF Following, TakesNext
<1> QED BY <1>5, <1>6

-----------------------------------------------------------------------------
(***************************************************************************)
(* What every command line means.                                          *)
(***************************************************************************)
\* The number of words.
Size == Len(typed)

\* The options, and those that take an argument.
IsOpt(p)  == ~IsArgument[p] /\ IsOption(typed[p])
Hungry(p) == IsOpt(p) /\ TakesNext(p)

\* getopt() has moved words: pi[k] is where word k was typed.  Options keep their
\* order and their arguments, and so do the words that are neither.
Arranged(pi) ==
    /\ pi \in [1 .. Size -> 1 .. Size]
    /\ \A j, k \in 1 .. Size : pi[j] = pi[k] => j = k
    /\ \A p \in 1 .. Size : \E k \in 1 .. Size : pi[k] = p
    /\ Len(argv) = Size /\ \A k \in 1 .. Size : argv[k] = typed[pi[k]]
    /\ \A j, k \in 1 .. Size : j < k /\ (pi[j] \in Plain <=> pi[k] \in Plain) => pi[j] < pi[k]
    /\ \A k \in 1 .. Size : IsArgument[pi[k]] => k > 1 /\ pi[k - 1] = pi[k] - 1
    /\ \A k \in 1 .. Size : pi[k] = Size /\ Hungry(pi[k]) => k = Size
    /\ library # "permutes" => \A k \in 1 .. Size : pi[k] = k

\* There are only options and their arguments before a word.
Front(pi, e) ==
    /\ e \in 1 .. Size + 1
    /\ \A k \in 1 .. e - 1 : pi[k] \notin Plain
    /\ \A k \in 1 .. e - 1 : Hungry(pi[k]) =>
           \/ k + 1 < e
           \/ parsing = "first" /\ next # <<>> /\ k = At

\* getopt() is at an option, or at one of the other words, and at no argument.
InPlace(pi) ==
    /\ next # <<>> => IsOpt(pi[At])
    /\ next = <<>> /\ At \in 1 .. Size => ~IsArgument[pi[At]]

\* No option follows: getopt.c does not look behind the first other word.
Stops(e) == \A k \in e .. Size : k = e \/ library = "permutes" => ~IsOption(argv[k])

\* The letters before letter r of word k, and those that have been read.
ReadTo(pi, k, r) == {u \in Uses : \E j \in 1 .. Size :
                                     pi[j] = u[1] /\ (j < k \/ (j = k /\ u[2] <= r))}
Before(pi, e)    == ReadTo(pi, e, 0)
Done(pi)         == ReadTo(pi, At, IF next = <<>> THEN 0 ELSE Len(argv[At].letters) - Len(next))

\* A value is what the last of some letters makes it.
Value(x, u)  == Change(LetterAt(u), ArgumentAt(u))[x]
Makers(x, U) == {u \in U : x \in DOMAIN Change(LetterAt(u), ArgumentAt(u))}
Stands(x, a, U) ==
    IF Makers(x, U) = {} THEN a = Default[x]
    ELSE \E u \in Makers(x, U) : IsLast(u, Makers(x, U)) /\ a = Value(x, u)

\* The settings of each pass.
Early == {"daemon", "verbose"}
Late  == DOMAIN Default \ Early

\* In the first pass -D and -v stand for the letters that have been read.
InFirstPass == \E pi \in [1 .. Size -> 1 .. Size] :
    /\ Arranged(pi) /\ Front(pi, optind) /\ InPlace(pi)
    /\ \A x \in Early : Stands(x, settings[x], Done(pi))

\* In the second pass they stand for all letters, the others for what this pass
\* has read.
InSecondPass == \E pi \in [1 .. Size -> 1 .. Size], e \in 1 .. Size + 1 :
    /\ Arranged(pi) /\ Front(pi, e) /\ InPlace(pi) /\ Stops(e) /\ optind <= e
    /\ \A x \in Early : Stands(x, settings[x], Before(pi, e))
    /\ \A x \in Late : Stands(x, settings[x], Done(pi))

\* The words from e on are taken for tests, with the settings as they stand.
InTests == \E pi \in [1 .. Size -> 1 .. Size], e \in 1 .. Size + 1 :
    /\ Arranged(pi) /\ Front(pi, e) /\ Stops(e) /\ optind \in e .. Size + 1
    /\ \A x \in DOMAIN Default : Stands(x, settings[x], Before(pi, e))
    /\ tests \in Seq({Parsed(word) : word \in Words}) /\ Len(tests) = optind - e
    /\ \A k \in e .. optind - 1 : argv[k].test /\ tests[k - e + 1] = Parsed(argv[k])

\* What a command line means so far.
MeansInv ==
    /\ typed \in CommandLines
    /\ parsing = "first"  => InFirstPass
    /\ parsing = "second" => InSecondPass
    /\ parsing \in {"tests", "accepted"} => InTests
    /\ parsing = "accepted" => optind > Size

-----------------------------------------------------------------------------
\* What was typed stays what it is.
LEMMA SameWords ==
    ASSUME typed' = typed
    PROVE  /\ Size' = Size /\ IsArgument' = IsArgument /\ Plain' = Plain /\ Uses' = Uses
           /\ \A p : IsOpt(p)' <=> IsOpt(p)
           /\ \A p : Hungry(p)' <=> Hungry(p)
<1>1. Size' = Size
  BY DEF Size
<1>2. IsArgument' = IsArgument
  BY DEF IsArgument
<1>3. Plain' = Plain
  BY <1>2 DEF Plain
<1>4. Uses' = Uses
  BY <1>2 DEF Uses
<1>5. \A p : IsOpt(p)' <=> IsOpt(p)
  BY <1>2 DEF IsOpt
<1>6. \A p : Hungry(p)' <=> Hungry(p)
  BY <1>5 DEF Hungry, TakesNext
<1> QED
  BY <1>1, <1>2, <1>3, <1>4, <1>5, <1>6

\* What the letters mean depends on nothing that changes.
LEMMA DoneStands ==
    ASSUME typed' = typed, NEW pi, NEW x, NEW V, Done(pi)' = V,
           NEW b, settings'[x] = b, Stands(x, b, V)
    PROVE  Stands(x, settings[x], Done(pi))'
<1>1. Stands(x, b, V)'
  BY DEF Stands, Makers, IsLast, Value, LetterAt, ArgumentAt
<1> QED
  BY <1>1

LEMMA BeforeStands ==
    ASSUME typed' = typed, NEW pi, NEW e, NEW x, NEW V, Before(pi, e)' = V,
           NEW b, settings'[x] = b, Stands(x, b, V)
    PROVE  Stands(x, settings[x], Before(pi, e))'
<1>1. Stands(x, b, V)'
  BY DEF Stands, Makers, IsLast, Value, LetterAt, ArgumentAt
<1> QED
  BY <1>1

\* A test is no option (CommandLinesAssumption).
LEMMA TypedWords ==
    ASSUME typed \in CommandLines
    PROVE  /\ typed \in Seq(Word) /\ Size \in Nat
           /\ \A p \in 1 .. Size : typed[p] \in Words /\ (typed[p].test => ~IsOption(typed[p]))
<1>1. typed \in Seq(Word)
  BY CommandLinesAssumption
<1>2. \A p \in 1 .. Size : typed[p] \in Word
  BY <1>1 DEF Size
<1>3. \A p \in 1 .. Size :
          /\ \A j \in DOMAIN typed[p].letters :
                 typed[p].letters[j] \in TakesArgument => j = Len(typed[p].letters)
          /\ typed[p].test => typed[p].letters = <<>>
  BY <1>1, CommandLinesAssumption DEF Size
<1> QED
  BY <1>1, <1>2, <1>3 DEF Words, IsOption, Size

\* A word is an option, an argument, or neither.
LEMMA Kinds ==
    ASSUME typed \in CommandLines, NEW p \in 1 .. Size
    PROVE  /\ p \in Plain <=> ~IsArgument[p] /\ ~IsOpt(p)
           /\ IsOpt(p) <=> ~IsArgument[p] /\ IsOption(typed[p])
           /\ IsArgument[p] <=> p > 1 /\ Hungry(p - 1)
           /\ Hungry(p) => IsOpt(p)
<1>1. IsArgument[p] <=> p > 1 /\ ~IsArgument[p - 1] /\ TakesNext(p - 1)
  BY TypedWords, ArgumentsAre DEF Size
<1> QED
  BY <1>1 DEF Plain, IsOpt, Hungry, TakesNext, Size

\* The argument of an option stands behind it wherever it was moved.
LEMMA NextWord ==
    ASSUME typed \in CommandLines, NEW pi, Arranged(pi), NEW k \in 1 .. Size, k < Size, Hungry(pi[k])
    PROVE  pi[k + 1] = pi[k] + 1 /\ IsArgument[pi[k + 1]]
<1>1. pi[k] \in 1 .. Size /\ pi[k] # Size /\ Size \in Nat
  <2>1. pi[k] \in 1 .. Size /\ Size \in Nat
    BY TypedWords DEF Arranged
  <2>2. pi[k] # Size
    BY DEF Arranged
  <2> QED
    BY <2>1, <2>2
<1>2. pi[k] + 1 \in 1 .. Size /\ pi[k] + 1 > 1 /\ pi[k] + 1 - 1 = pi[k]
  BY <1>1
<1>3. IsArgument[pi[k] + 1]
  <2> DEFINE q == pi[k] + 1
  <2>1. q \in 1 .. Size /\ q > 1 /\ q - 1 = pi[k]
    BY <1>1
  <2> HIDE DEF q
  <2>2. Hungry(q - 1)
    BY <2>1, Zenon
  <2>3. IsArgument[q]
    BY <2>1, <2>2, Kinds
  <2> QED
    BY <2>3 DEF q
<1>4. PICK j \in 1 .. Size : pi[j] = pi[k] + 1
  <2>1. \A p \in 1 .. Size : \E j \in 1 .. Size : pi[j] = p
    BY Zenon DEF Arranged
  <2> QED
    BY <1>2, <2>1
<1>5. j > 1 /\ pi[j - 1] = pi[j] - 1
  <2>1. IsArgument[pi[j]]
    BY <1>3, <1>4
  <2> QED
    BY <2>1 DEF Arranged
<1>6. j - 1 \in 1 .. Size /\ pi[j - 1] = pi[k]
  BY <1>1, <1>4, <1>5
<1>7. j - 1 = k
  BY <1>6 DEF Arranged
<1> QED
  BY <1>3, <1>4, <1>7

\* And before an argument stands its option.
LEMMA WordBefore ==
    ASSUME typed \in CommandLines, NEW pi, Arranged(pi), NEW k \in 1 .. Size, IsArgument[pi[k]]
    PROVE  k > 1 /\ k - 1 \in 1 .. Size /\ pi[k - 1] = pi[k] - 1 /\ Hungry(pi[k - 1])
<1>1. pi[k] \in 1 .. Size /\ Size \in Nat
  BY TypedWords DEF Arranged
<1>2. k > 1 /\ pi[k - 1] = pi[k] - 1
  BY DEF Arranged
<1>3. Hungry(pi[k] - 1)
  BY <1>1, Kinds
<1> QED
  BY <1>1, <1>2, <1>3

\* The words as they are arranged.
LEMMA WordsAt ==
    ASSUME typed \in CommandLines, WordsInv, NEW pi, Arranged(pi), NEW k \in 1 .. Size
    PROVE  /\ pi[k] \in 1 .. Size /\ argv[k] = typed[pi[k]] /\ DOMAIN argv = 1 .. Size /\ Len(argv) = Size
           /\ argv[k].test => ~IsOption(argv[k])
           /\ Hungry(pi[k]) <=> /\ ~IsArgument[pi[k]] /\ IsOption(argv[k])
                                /\ Seqs!Last(argv[k].letters) \in TakesArgument
           /\ IsOpt(pi[k]) <=> ~IsArgument[pi[k]] /\ IsOption(argv[k])
           /\ pi[k] \in Plain <=> ~IsArgument[pi[k]] /\ ~IsOption(argv[k])
<1>1. pi[k] \in 1 .. Size /\ argv[k] = typed[pi[k]] /\ Len(argv) = Size
  BY DEF Arranged
<1>2. DOMAIN argv = 1 .. Size
  BY <1>1 DEF WordsInv
<1>3. argv[k].test => ~IsOption(argv[k])
  BY <1>1, TypedWords
<1> QED
  BY <1>1, <1>2, <1>3, Kinds DEF Hungry, TakesNext, IsOpt

-----------------------------------------------------------------------------
\* How many letters of the word getopt() is at have been read.
SoFar == Len(argv[At].letters) - Len(Current)

\* The letter getopt() reads next, and its place in its word.
LEMMA LetterIs ==
    ASSUME WordsInv, AtOption
    PROVE  /\ At \in DOMAIN argv /\ IsOption(argv[At]) /\ argv[At] \in Words /\ Follow = At + 1
           /\ SoFar \in Nat /\ SoFar + 1 \in DOMAIN argv[At].letters
           /\ Letter = argv[At].letters[SoFar + 1]
           /\ Current \in Seq(AllLetters) /\ Len(Current) \in Nat \ {0}
           /\ SoFar = IF next = <<>> THEN 0 ELSE Len(argv[At].letters) - Len(next)
<1>1. At \in DOMAIN argv /\ Follow = At + 1 /\ Current # <<>> /\ argv[At] \in Words
  BY DEF WordsInv, AtOption, At, Follow, Current, IsOption
<1> DEFINE letters == argv[At].letters
<1>2. /\ letters \in Seq(AllLetters)
      /\ \A j \in 1 .. Len(letters) : letters[j] \in TakesArgument => j = Len(letters)
  BY <1>1, WordTypes
<1>3. EndOf(Current, argv[At]) /\ (next = <<>> => Current = letters)
  <2>1. CASE next # <<>>
    BY <1>1, <2>1 DEF WordsInv, Current
  <2>2. CASE next = <<>>
    <3>1. Current = letters
      BY <2>2 DEF Current, At
    <3>2. \A j \in 1 .. Len(letters) : letters[j] = letters[Len(letters) - Len(letters) + j]
      BY <1>2
    <3> QED
      BY <1>2, <3>1, <3>2 DEF EndOf
  <2> QED
    BY <2>1, <2>2
<1>4. Current \in Seq(AllLetters) /\ Len(Current) \in 1 .. Len(letters)
      /\ \A j \in 1 .. Len(Current) : Current[j] = letters[Len(letters) - Len(Current) + j]
  BY <1>1, <1>2, <1>3 DEF EndOf
<1>5. SoFar = Len(letters) - Len(Current)
  BY DEF SoFar
<1>6. next # <<>> => Current = next
  BY DEF Current
<1> HIDE DEF letters
<1>7. Letter = letters[SoFar + 1]
  BY <1>4, <1>5 DEF Letter
<1>8. SoFar \in Nat /\ SoFar + 1 \in DOMAIN letters /\ Len(Current) \in Nat \ {0}
  BY <1>2, <1>4, <1>5
<1>9. IsOption(argv[At])
  BY <1>4 DEF IsOption, letters
<1>10. SoFar = IF next = <<>> THEN 0 ELSE Len(letters) - Len(next)
  BY <1>2, <1>3, <1>5, <1>6
<1> QED
  BY <1>1, <1>4, <1>7, <1>8, <1>9, <1>10 DEF letters

\* What has been read is all in front of the next letter.
LEMMA ReadOne ==
    ASSUME typed \in CommandLines, WordsInv, NEW pi, Arranged(pi), NEW k \in 1 .. Size, IsOpt(pi[k]),
           NEW r \in Nat, r + 1 \in DOMAIN argv[k].letters, NEW u, u = <<pi[k], r + 1>>
    PROVE  /\ u \in Uses /\ LetterAt(u) = argv[k].letters[r + 1]
           /\ ReadTo(pi, k, r + 1) = ReadTo(pi, k, r) \cup {u}
           /\ \A v \in ReadTo(pi, k, r) : v[1] < u[1] \/ (v[1] = u[1] /\ v[2] < u[2])
<1>1. pi[k] \in 1 .. Size /\ argv[k] = typed[pi[k]] /\ Size \in Nat /\ u[1] = pi[k] /\ u[2] = r + 1
  BY WordsAt, TypedWords
<1>2. u \in Uses
  BY <1>1 DEF Uses, IsOpt, Size
<1>3. \A v \in Uses : v[1] \in 1 .. Size /\ v[2] \in DOMAIN typed[v[1]].letters /\ v = <<v[1], v[2]>>
                      /\ ~IsArgument[v[1]]
  BY DEF Uses, Size
<1>4. \A v \in Uses : v[2] \in Nat
  <2>1. \A p \in 1 .. Size : typed[p].letters \in Seq(AllLetters)
    BY TypedWords, WordTypes
  <2> QED
    BY <1>3, <2>1
<1>5. \A j \in 1 .. Size : pi[j] = pi[k] => j = k
  BY DEF Arranged
<1>6. LetterAt(u) = argv[k].letters[r + 1]
  BY <1>1 DEF LetterAt
<1>7. ASSUME NEW v \in ReadTo(pi, k, r) PROVE v[1] < u[1] \/ (v[1] = u[1] /\ v[2] < u[2])
  <2>1. v \in Uses
    BY DEF ReadTo
  <2>2. PICK j \in 1 .. Size : pi[j] = v[1] /\ (j < k \/ (j = k /\ v[2] <= r))
    BY DEF ReadTo
  <2>3. CASE j = k /\ v[2] <= r
    BY <1>1, <1>4, <2>1, <2>2, <2>3
  <2>4. CASE j < k
    <3>1. IsOption(typed[v[1]])
      BY <1>3, <2>1, EmptySeq DEF IsOption
    <3>2. pi[j] \notin Plain /\ pi[k] \notin Plain
      BY <2>2, <3>1, Kinds, <1>1, <1>3, <2>1
    <3>3. pi[j] < pi[k]
      BY <2>4, <3>2 DEF Arranged
    <3> QED
      BY <1>1, <2>2, <3>3
  <2> QED
    BY <2>2, <2>3, <2>4
<1>8. ReadTo(pi, k, r + 1) \subseteq ReadTo(pi, k, r) \cup {u}
  <2> SUFFICES ASSUME NEW v \in ReadTo(pi, k, r + 1), v \notin ReadTo(pi, k, r) PROVE v = u
    OBVIOUS
  <2>1. v \in Uses
    BY DEF ReadTo
  <2>2. PICK j \in 1 .. Size : pi[j] = v[1] /\ (j < k \/ (j = k /\ v[2] <= r + 1))
    BY DEF ReadTo
  <2>3. ~(j < k) /\ ~(j = k /\ v[2] <= r)
    BY <2>1, <2>2 DEF ReadTo
  <2>4. j = k /\ v[2] = r + 1
    BY <1>4, <2>1, <2>2, <2>3
  <2>5. v = <<v[1], v[2]>> /\ v[1] = pi[k]
    BY <1>3, <2>1, <2>2, <2>4
  <2> QED
    BY <2>4, <2>5
<1>9. ReadTo(pi, k, r) \cup {u} \subseteq ReadTo(pi, k, r + 1)
  <2>1. u \in ReadTo(pi, k, r + 1)
    BY <1>1, <1>2 DEF ReadTo
  <2>2. \A v \in Uses : v[2] <= r => v[2] <= r + 1
    BY <1>4
  <2>3. ReadTo(pi, k, r) \subseteq ReadTo(pi, k, r + 1)
    BY <2>2 DEF ReadTo
  <2> QED
    BY <2>1, <2>3
<1> QED
  BY <1>2, <1>6, <1>7, <1>8, <1>9

\* All letters of a word have been read, and its argument has none.
LEMMA ReadWord ==
    ASSUME typed \in CommandLines, WordsInv, NEW pi, Arranged(pi), NEW k \in 1 .. Size
    PROVE  /\ Before(pi, k + 1) = ReadTo(pi, k, Len(argv[k].letters))
           /\ k < Size /\ Hungry(pi[k]) => Before(pi, k + 2) = Before(pi, k + 1)
<1>1. argv[k] = typed[pi[k]] /\ Size \in Nat
  BY WordsAt, TypedWords
<1>2. \A v \in Uses : v[1] \in 1 .. Size /\ v[2] \in DOMAIN typed[v[1]].letters /\ ~IsArgument[v[1]]
  BY DEF Uses, Size
<1>3. \A v \in Uses : v[2] \in Nat \ {0} /\ v[2] <= Len(typed[v[1]].letters)
  <2>1. \A p \in 1 .. Size : typed[p].letters \in Seq(AllLetters)
    BY TypedWords, WordTypes
  <2> QED
    BY <1>2, <2>1
<1>4. \A v \in Uses, j \in 1 .. Size : pi[j] = v[1] =>
          ((j < k + 1 \/ (j = k + 1 /\ v[2] <= 0)) <=> (j < k \/ (j = k /\ v[2] <= Len(argv[k].letters))))
  <2> SUFFICES ASSUME NEW v \in Uses, NEW j \in 1 .. Size, pi[j] = v[1]
      PROVE (j < k + 1 \/ (j = k + 1 /\ v[2] <= 0)) <=> (j < k \/ (j = k /\ v[2] <= Len(argv[k].letters)))
    OBVIOUS
  <2>1. v[2] \in Nat \ {0} /\ (j = k => v[2] <= Len(argv[k].letters))
    BY <1>1, <1>3
  <2> QED
    BY ONLY <2>1, j \in 1 .. Size, k \in 1 .. Size
<1>5. Before(pi, k + 1) = ReadTo(pi, k, Len(argv[k].letters))
  BY <1>4 DEF Before, ReadTo
<1>6. ASSUME k < Size, Hungry(pi[k]) PROVE Before(pi, k + 2) = Before(pi, k + 1)
  <2>1. IsArgument[pi[k + 1]]
    BY <1>6, NextWord
  <2>2. \A v \in Uses, j \in 1 .. Size : pi[j] = v[1] =>
            ((j < k + 2 \/ (j = k + 2 /\ v[2] <= 0)) <=> (j < k + 1 \/ (j = k + 1 /\ v[2] <= 0)))
    <3> SUFFICES ASSUME NEW v \in Uses, NEW j \in 1 .. Size, pi[j] = v[1]
        PROVE (j < k + 2 \/ (j = k + 2 /\ v[2] <= 0)) <=> (j < k + 1 \/ (j = k + 1 /\ v[2] <= 0))
      OBVIOUS
    <3>1. v[2] \in Nat \ {0}
      BY <1>3
    <3>2. j # k + 1
      BY <1>2, <2>1
    <3> QED
      BY ONLY <3>1, <3>2, j \in 1 .. Size, k \in 1 .. Size
  <2> QED
    BY <2>2 DEF Before, ReadTo
<1> QED
  BY <1>5, <1>6

\* What has been read follows from what was typed.
LEMMA SameReads ==
    ASSUME typed' = typed
    PROVE  \A pi, a, b : ReadTo(pi, a, b)' = ReadTo(pi, a, b)
BY SameWords DEF ReadTo

\* One more letter has been read, and getopt() is in its place again.
LEMMA LetterRead ==
    ASSUME typed \in CommandLines, WordsInv, NEW pi, Arranged(pi), InPlace(pi), AtOption, Getopt,
           UNCHANGED <<typed, argv>>, Letter \in TakesArgument => At < Size,
           NEW u, u = <<pi[At], SoFar + 1>>
    PROVE  /\ At \in 1 .. Size /\ IsOpt(pi[At])
           /\ u \in Uses /\ LetterAt(u) = Letter
           /\ Letter \in TakesArgument => Hungry(pi[At]) /\ ArgumentAt(u) = Argument
           /\ Done(pi)' = Done(pi) \cup {u}
           /\ \A v \in Done(pi) : v[1] < u[1] \/ (v[1] = u[1] /\ v[2] < u[2])
           /\ InPlace(pi)'
           /\ next' # <<>> => At' = At /\ optind' = At + 1
           /\ next' = <<>> => optind' = At' /\ At' = IF Hungry(pi[At]) THEN At + 2 ELSE At + 1
           /\ next' = <<>> => (Letter \in TakesArgument <=> Hungry(pi[At]))
<1>1. /\ At \in DOMAIN argv /\ IsOption(argv[At]) /\ argv[At] \in Words /\ Follow = At + 1
      /\ SoFar \in Nat /\ SoFar + 1 \in DOMAIN argv[At].letters
      /\ Letter = argv[At].letters[SoFar + 1]
      /\ Current \in Seq(AllLetters) /\ Len(Current) \in Nat \ {0}
      /\ SoFar = IF next = <<>> THEN 0 ELSE Len(argv[At].letters) - Len(next)
  BY LetterIs
<1>2. PICK k \in 1 .. Size : k = At
  BY <1>1 DEF Arranged, WordsInv
<1>3. IsOpt(pi[k])
  <2>1. CASE next # <<>>
    BY <1>2, <2>1 DEF InPlace
  <2>2. CASE next = <<>>
    BY <1>1, <1>2, <2>2, WordsAt DEF InPlace
  <2> QED
    BY <2>1, <2>2
<1>4. PICK r \in Nat : r = SoFar
  BY <1>1
<1>5. /\ u = <<pi[k], r + 1>> /\ u[1] = pi[k]
      /\ r + 1 \in DOMAIN argv[k].letters /\ Letter = argv[k].letters[r + 1]
  BY <1>1, <1>2, <1>4
<1>6. /\ u \in Uses /\ LetterAt(u) = Letter
      /\ ReadTo(pi, k, r + 1) = ReadTo(pi, k, r) \cup {u}
      /\ \A v \in ReadTo(pi, k, r) : v[1] < u[1] \/ (v[1] = u[1] /\ v[2] < u[2])
  BY <1>3, <1>5, ReadOne
<1>7. Done(pi) = ReadTo(pi, k, r)
  BY <1>1, <1>2, <1>4 DEF Done
<1>8. /\ next' # <<>> => At' = At /\ EndOf(next', argv[At])
      /\ next' = <<>> =>
           /\ Letter = Seqs!Last(argv[At].letters)
           /\ At' = IF Letter \in TakesArgument THEN At + 2 ELSE At + 1
      /\ Letter \in TakesArgument => next' = <<>>
  BY Reads
<1>9. next' = <<>> => (Letter \in TakesArgument <=> Hungry(pi[k]))
  BY <1>1, <1>2, <1>3, <1>8, WordsAt DEF IsOpt
<1>10. Letter \in TakesArgument => Hungry(pi[k]) /\ ArgumentAt(u) = Argument
  <2> SUFFICES ASSUME Letter \in TakesArgument PROVE Hungry(pi[k]) /\ ArgumentAt(u) = Argument
    OBVIOUS
  <2>1. Hungry(pi[k]) /\ k < Size
    BY <1>2, <1>8, <1>9
  <2>2. pi[k + 1] = pi[k] + 1
    BY <2>1, NextWord
  <2>3. k + 1 \in 1 .. Size /\ Argument = argv[k + 1]
    BY <1>1, <1>2, <2>1, TypedWords DEF Argument
  <2>4. argv[k + 1] = typed[pi[k] + 1]
    BY <2>2, <2>3, WordsAt
  <2> QED
    BY <1>5, <1>6, <2>1, <2>3, <2>4 DEF ArgumentAt
<1>11. next' # <<>> => At' = At /\ optind' = At + 1
  BY <1>8, <1>1 DEF At, Getopt, Follow, WordsInv
<1>12. next' = <<>> => optind' = At' /\ At' = IF Hungry(pi[k]) THEN k + 2 ELSE k + 1
  BY <1>2, <1>8, <1>9 DEF At
<1>13. Len(Current) = Len(argv[k].letters) - r /\ Len(argv[k].letters) \in Nat
  <2>1. argv[k].letters \in Seq(AllLetters)
    BY <1>1, <1>2, WordTypes
  <2> QED
    BY <1>1, <1>2, <1>4, <2>1 DEF SoFar
<1>14. Len(next') = Len(Current) - 1 /\ (next' = <<>> <=> Len(Current) = 1)
  <2>1. Current # <<>>
    BY <1>1
  <2>2. Tail(Current) \in Seq(AllLetters) /\ Len(Tail(Current)) = Len(Current) - 1
    BY <1>1, <2>1, HeadTailProperties
  <2>3. Tail(Current) = <<>> <=> Len(Tail(Current)) = 0
    BY <2>2, EmptySeq
  <2> QED
    BY <1>1, <2>2, <2>3 DEF Getopt
<1>15. Done(pi)' = Done(pi) \cup {u}
  <2>1. ASSUME NEW a, NEW b, a = At', b = IF next' = <<>> THEN 0 ELSE Len(argv[a].letters) - Len(next')
        PROVE  Done(pi)' = ReadTo(pi, a, b)
    BY <2>1, SameWords DEF Done, ReadTo
  <2>2. CASE next' # <<>>
    <3>1. Done(pi)' = ReadTo(pi, k, Len(argv[k].letters) - Len(next'))
      BY <1>2, <1>11, <2>1, <2>2
    <3>2. Len(argv[k].letters) - Len(next') = r + 1
      <4>1. PICK n \in Nat : n = Len(argv[k].letters)
        BY <1>13
      <4>2. Len(next') = n - r - 1
        BY <1>13, <1>14, <4>1
      <4>3. n - (n - r - 1) = r + 1
        OBVIOUS
      <4> QED
        BY <4>1, <4>2, <4>3
    <3> QED
      BY <1>6, <1>7, <3>1, <3>2
  <2>3. CASE next' = <<>>
    <3>1. PICK a : a = At'
      OBVIOUS
    <3>2. Done(pi)' = Before(pi, a)
      BY <2>1, <2>3, <3>1 DEF Before
    <3>3. Before(pi, a) = Before(pi, k + 1)
      <4>1. CASE Hungry(pi[k])
        BY <1>2, <1>9, <1>12, <2>3, <3>1, <4>1, ReadWord
      <4>2. CASE ~Hungry(pi[k])
        BY <1>12, <2>3, <3>1, <4>2
      <4> QED
        BY <4>1, <4>2
    <3>4. Before(pi, k + 1) = ReadTo(pi, k, Len(argv[k].letters))
      BY ReadWord
    <3>5. Len(argv[k].letters) = r + 1
      BY <1>13, <1>14, <2>3
    <3> QED
      BY <1>6, <1>7, <3>2, <3>3, <3>4, <3>5
  <2> QED
    BY <2>2, <2>3
<1>16. InPlace(pi)'
  <2>1. CASE next' # <<>>
    BY <1>2, <1>3, <1>11, <2>1, SameWords DEF InPlace
  <2>2. CASE next' = <<>>
    <3>1. ASSUME NEW m \in 1 .. Size, m = At' PROVE ~IsArgument[pi[m]]
      <4> SUFFICES ASSUME IsArgument[pi[m]] PROVE FALSE
        OBVIOUS
      <4>1. m - 1 \in 1 .. Size /\ Hungry(pi[m - 1])
        BY WordBefore
      <4>2. m = IF Hungry(pi[k]) THEN k + 2 ELSE k + 1
        BY <1>12, <2>2, <3>1
      <4>3. CASE Hungry(pi[k])
        <5>1. m - 1 = k + 1 /\ k < Size /\ k + 1 \in 1 .. Size
          <6>1. m = k + 2 /\ Size \in Nat
            BY <4>2, <4>3, TypedWords
          <6> QED
            BY ONLY <6>1, k \in 1 .. Size, m \in 1 .. Size
        <5>2. IsArgument[pi[k + 1]]
          BY <4>3, <5>1, NextWord
        <5>3. Hungry(pi[k + 1])
          BY <4>1, <5>1
        <5> QED
          BY <5>2, <5>3 DEF Hungry, IsOpt
      <4>4. CASE ~Hungry(pi[k])
        BY <4>1, <4>2, <4>4
      <4> QED
        BY <4>3, <4>4
    <3> QED
      BY <2>2, <3>1, SameWords DEF InPlace
  <2> QED
    BY <2>1, <2>2
<1>17. k = At
  BY <1>2
<1> HIDE DEF At
<1> QED
  BY <1>3, <1>6, <1>7, <1>9, <1>10, <1>11, <1>12, <1>15, <1>16, <1>17

-----------------------------------------------------------------------------
\* The next letter gives a setting its value, or leaves it.
LEMMA Grows ==
    ASSUME typed \in CommandLines, NEW x, NEW a, NEW b, NEW U \in SUBSET Uses, NEW u \in Uses,
           \A v \in U : v[1] < u[1] \/ (v[1] = u[1] /\ v[2] < u[2]),
           Stands(x, a, U),
           b = IF x \in DOMAIN Change(LetterAt(u), ArgumentAt(u)) THEN Value(x, u) ELSE a
    PROVE  Stands(x, b, U \cup {u})
<1>1. \A v \in Uses : v[1] \in Nat /\ v[2] \in Nat
  <2>1. \A v \in Uses : v[1] \in 1 .. Size /\ v[2] \in DOMAIN typed[v[1]].letters
    BY DEF Uses, Size
  <2>2. \A p \in 1 .. Size : typed[p].letters \in Seq(AllLetters)
    BY TypedWords, WordTypes
  <2>3. \A v \in Uses : v[1] \in Nat /\ DOMAIN typed[v[1]].letters \subseteq Nat
    BY <2>1, <2>2, TypedWords
  <2> QED
    BY <2>1, <2>3
<1>2. CASE x \in DOMAIN Change(LetterAt(u), ArgumentAt(u))
  <2>1. Makers(x, U \cup {u}) = Makers(x, U) \cup {u} /\ Makers(x, U) \subseteq U
    BY <1>2 DEF Makers
  <2>2. IsLast(u, Makers(x, U) \cup {u})
    <3>1. \A v \in U : v[1] < u[1] \/ (v[1] = u[1] /\ v[2] <= u[2])
      BY <1>1
    <3>2. u[2] <= u[2]
      BY <1>1
    <3> QED
      BY <2>1, <3>1, <3>2 DEF IsLast
  <2> QED
    BY <1>2, <2>1, <2>2 DEF Stands
<1>3. CASE x \notin DOMAIN Change(LetterAt(u), ArgumentAt(u))
  <2>1. Makers(x, U \cup {u}) = Makers(x, U)
    BY <1>3 DEF Makers
  <2> QED
    BY <1>3, <2>1 DEF Stands
<1> QED
  BY <1>2, <1>3

\* A letter that takes no argument looks at no word.
LEMMA NoArgument ==
    ASSUME NEW c, NEW w1, NEW w2, c \notin TakesArgument
    PROVE  Change(c, w1) = Change(c, w2)
<1>1. c \notin DOMAIN Number /\ c \notin {"i", "c", "H", "m"}
  BY DEF Number, TakesArgument
<1> QED
  BY <1>1 DEF Change

\* Each pass has its own letters.
LEMMA PassOf ==
    ASSUME NEW c, NEW w
    PROVE  /\ Early \subseteq DOMAIN Default
           /\ c \notin {"D", "v"} => DOMAIN Change(c, w) \cap Early = {}
           /\ c \in ForDaemon => DOMAIN Change(c, w) \subseteq Early
<1>1. Early \subseteq DOMAIN Default
  BY Defaults DEF Early
<1>2. ASSUME c \notin {"D", "v"} PROVE DOMAIN Change(c, w) \cap Early = {}
  BY <1>2 DEF Change, Flag, Number, Early
<1>3. ASSUME c \in ForDaemon PROVE DOMAIN Change(c, w) \subseteq Early
  <2>1. CASE c \in {"D", "v"}
    <3>1. PICK y : y = IF c = "D" THEN "daemon" ELSE "verbose"
      OBVIOUS
    <3>2. Change(c, w) = [x \in {y} |-> TRUE]
      <4>1. Change(c, w) = [x \in {IF c = "D" THEN "daemon" ELSE "verbose"} |-> TRUE]
        BY <2>1, LettersOfDaemon
      <4> QED
        BY <3>1, <4>1, Zenon
    <3>3. y \in Early
      BY <3>1 DEF Early
    <3> QED
      BY <3>2, <3>3
  <2>2. CASE c \in {"h", "V"}
    <3>1. c \notin DOMAIN Flag /\ c \notin DOMAIN Number /\ c \notin {"i", "c", "H", "m", "t", "u"}
      BY <2>2 DEF Flag, Number
    <3>2. Change(c, w) = <<>>
      BY <3>1 DEF Change
    <3> QED
      BY <3>2
  <2> QED
    BY <1>3, <2>1, <2>2 DEF ForDaemon
<1> QED
  BY <1>1, <1>2, <1>3

\* What parse_settings() does with the letter it gets.
LEMMA LetterStands ==
    ASSUME typed \in CommandLines, WordsInv, NEW pi, Arranged(pi), InPlace(pi), AtOption, Getopt,
           UNCHANGED <<typed, argv>>, Letter \in TakesArgument => At < Size,
           NEW x, Stands(x, settings[x], Done(pi)),
           settings'[x] = IF x \in DOMAIN Change(Letter, Argument)
                          THEN Change(Letter, Argument)[x] ELSE settings[x]
    PROVE  Stands(x, settings[x], Done(pi))'
<1> DEFINE u == <<pi[At], SoFar + 1>>
<1>1. /\ u \in Uses /\ LetterAt(u) = Letter
      /\ Letter \in TakesArgument => ArgumentAt(u) = Argument
      /\ Done(pi)' = Done(pi) \cup {u}
      /\ \A v \in Done(pi) : v[1] < u[1] \/ (v[1] = u[1] /\ v[2] < u[2])
  BY LetterRead
<1> HIDE DEF u
<1>2. Change(Letter, Argument) = Change(LetterAt(u), ArgumentAt(u))
  BY <1>1, NoArgument
<1>3. PICK b : b = settings'[x]
  OBVIOUS
<1>4. b = IF x \in DOMAIN Change(LetterAt(u), ArgumentAt(u)) THEN Value(x, u) ELSE settings[x]
  BY <1>2, <1>3 DEF Value
<1>5. Done(pi) \in SUBSET Uses
  BY DEF Done, ReadTo
<1>6. Stands(x, b, Done(pi) \cup {u})
  BY <1>1, <1>4, <1>5, Grows
<1> QED
  BY <1>1, <1>3, <1>6, DoneStands

-----------------------------------------------------------------------------
\* The order of the words.
LEMMA SameArranged ==
    ASSUME UNCHANGED <<typed, library, argv>>, NEW pi, Arranged(pi)
    PROVE  Arranged(pi)'
BY SameWords DEF Arranged

\* The first pass reads a letter.
LEMMA FirstPassMeans ==
    ASSUME MeansInv, DaemonInv, FirstPass, ~Reject
    PROVE  parsing' = "first" /\ InFirstPass'
<1>1. /\ settings' = IF Letter \in {"D", "v"} THEN Changed(Change(Letter, Argument)) ELSE settings
      /\ Getopt /\ AtOption /\ ~Missing /\ parsing = "first" /\ parsing' = "first"
      /\ UNCHANGED <<typed, library, argv, tests>>
  BY DEF FirstPass
<1>2. PICK pi \in [1 .. Size -> 1 .. Size] :
        /\ Arranged(pi) /\ Front(pi, optind) /\ InPlace(pi)
        /\ \A x \in Early : Stands(x, settings[x], Done(pi))
  BY <1>1 DEF MeansInv, InFirstPass
<1>3. typed \in CommandLines /\ WordsInv /\ SettingsInv
  BY DEF MeansInv, DaemonInv
<1>4. Letter \in TakesArgument => At < Size
  <2>1. Follow = At + 1 /\ At \in DOMAIN argv /\ At \in Nat
    BY <1>1, <1>3, LetterIs DEF WordsInv
  <2>2. Len(argv) = Size
    BY <1>2 DEF Arranged
  <2> QED
    BY <1>1, <1>3, <2>1, <2>2, TypedWords DEF Missing
<1>5. /\ At \in 1 .. Size /\ IsOpt(pi[At])
      /\ Letter \in TakesArgument => Hungry(pi[At])
      /\ InPlace(pi)'
      /\ next' # <<>> => At' = At /\ optind' = At + 1
      /\ next' = <<>> => optind' = At' /\ At' = IF Hungry(pi[At]) THEN At + 2 ELSE At + 1
      /\ next' = <<>> => (Letter \in TakesArgument <=> Hungry(pi[At]))
  BY <1>1, <1>2, <1>3, <1>4, LetterRead
<1>6. \A x \in Early : settings'[x] = IF x \in DOMAIN Change(Letter, Argument)
                                     THEN Change(Letter, Argument)[x] ELSE settings[x]
  <2>1. \A x \in Early : x \in DOMAIN settings
    BY <1>3, PassOf DEF SettingsInv
  <2>2. Letter \notin {"D", "v"} => \A x \in Early : x \notin DOMAIN Change(Letter, Argument)
    BY PassOf
  <2> QED
    BY <1>1, <2>1, <2>2 DEF Changed
<1>7. \A x \in Early : Stands(x, settings[x], Done(pi))'
  BY <1>1, <1>2, <1>3, <1>4, <1>6, LetterStands
<1>8. Arranged(pi)'
  BY <1>1, <1>2, SameArranged
<1>9. Front(pi, optind)'
  <2>1. PICK k \in 1 .. Size : k = At
    BY <1>5
  <2>2. PICK n : n = optind'
    OBVIOUS
  <2>3. optind = k \/ (optind = k + 1 /\ next # <<>>)
    BY <1>3, <2>1 DEF At, WordsInv
  <2>4. \/ n = k + 1 /\ (Hungry(pi[k]) => next' # <<>> /\ At' = k)
        \/ n = k + 2 /\ Hungry(pi[k]) /\ k < Size
    BY <1>4, <1>5, <2>1, <2>2
  <2>5. Size \in Nat /\ n \in 1 .. Size + 1
    BY <2>4, <1>3, TypedWords
  <2>6. /\ \A m \in 1 .. optind - 1 : pi[m] \notin Plain
        /\ \A m \in 1 .. optind - 1 : Hungry(pi[m]) => m + 1 < optind \/ m = k
    BY <1>2, <2>1 DEF Front
  <2>7. pi[k] \notin Plain
    BY <1>3, <1>5, <2>1, WordsAt, <1>2
  <2>8. n = k + 2 => pi[k + 1] \notin Plain /\ ~Hungry(pi[k + 1])
    <3>1. n = k + 2 => k < Size /\ Hungry(pi[k]) /\ k + 1 \in 1 .. Size
      BY <2>4, <2>5
    <3>2. n = k + 2 => IsArgument[pi[k + 1]]
      BY <1>2, <1>3, <3>1, NextWord
    <3> QED
      BY <3>2 DEF Plain, Hungry, IsOpt
  <2>9. ASSUME NEW m \in 1 .. n - 1
        PROVE  pi[m] \notin Plain /\ (Hungry(pi[m]) => m + 1 < n \/ (next' # <<>> /\ m = At'))
    <3>1. m \in Nat /\ (m < k \/ m = k \/ (m = k + 1 /\ n = k + 2))
      BY <2>4, <2>5
    <3>2. CASE m < k
      <4>1. m \in 1 .. optind - 1
        BY <2>3, <3>1, <3>2
      <4>2. m + 1 < n
        BY <2>4, <3>1, <3>2
      <4> QED
        BY <2>6, <4>1, <4>2
    <3>3. CASE m = k
      <4>1. n = k + 2 => m + 1 < n
        BY <3>3
      <4> QED
        BY <2>4, <2>7, <3>3, <4>1
    <3>4. CASE m = k + 1 /\ n = k + 2
      BY <2>8, <3>4
    <3> QED
      BY <3>1, <3>2, <3>3, <3>4
  <2> QED
    BY <1>1, <2>2, <2>5, <2>9, SameWords DEF Front
<1> QED
  BY <1>1, <1>2, <1>5, <1>7, <1>8, <1>9, SameWords DEF InFirstPass

\* The second pass reads a letter, in the order the first left the words in.
LEMMA SecondPassMeans ==
    ASSUME MeansInv, DaemonInv, SecondPass, ~Reject
    PROVE  parsing' = "second" /\ InSecondPass'
<1>1. /\ settings' = IF Letter \in ForDaemon THEN settings ELSE Changed(Change(Letter, Argument))
      /\ Getopt /\ AtOption /\ parsing = "second" /\ parsing' = "second"
      /\ UNCHANGED <<typed, library, argv, tests>>
  BY DEF SecondPass
<1>2. PICK pi, e :
        /\ pi \in [1 .. Size -> 1 .. Size] /\ e \in 1 .. Size + 1
        /\ Arranged(pi) /\ Front(pi, e) /\ InPlace(pi) /\ Stops(e) /\ optind <= e
        /\ \A x \in Early : Stands(x, settings[x], Before(pi, e))
        /\ \A x \in Late : Stands(x, settings[x], Done(pi))
  BY <1>1 DEF MeansInv, InSecondPass
<1>3. typed \in CommandLines /\ WordsInv /\ SettingsInv
  BY DEF MeansInv, DaemonInv
<1>4. /\ At \in DOMAIN argv /\ IsOption(argv[At]) /\ Follow = At + 1
      /\ (next # <<>> /\ At = optind - 1) \/ (next = <<>> /\ At = optind)
  BY <1>1, <1>3, LetterIs DEF At
<1>5. PICK k \in 1 .. Size : k = At
  BY <1>2, <1>3, <1>4 DEF Arranged, WordsInv
<1>6. Size \in Nat /\ optind \in Nat /\ Len(argv) = Size
  BY <1>2, <1>3, TypedWords DEF WordsInv, Arranged
<1>7. k < e
  <2>1. k = e => ~IsOption(argv[k])
    BY <1>2, <1>6 DEF Stops
  <2>2. k # e /\ (k = optind - 1 \/ k = optind)
    BY <1>4, <1>5, <2>1
  <2>3. optind <= e /\ e \in 1 .. Size + 1
    BY <1>2
  <2> QED
    BY ONLY <1>5, <1>6, <2>2, <2>3
<1>8. Hungry(pi[k]) => k + 1 < e
  <2>1. k \in 1 .. e - 1
    BY <1>2, <1>7
  <2> QED
    BY <1>1, <1>2, <2>1 DEF Front
<1>9. Letter \in TakesArgument => Hungry(pi[k])
  <2>1. IsOpt(pi[k])
    BY <1>2, <1>3, <1>4, <1>5, WordsAt DEF InPlace
  <2>2. Letter \in TakesArgument => Letter = Seqs!Last(argv[k].letters)
    BY <1>1, <1>3, <1>5, Reads
  <2> QED
    BY <1>2, <1>3, <2>1, <2>2, WordsAt
<1>10. Letter \in TakesArgument => At < Size
  BY <1>2, <1>5, <1>6, <1>8, <1>9
<1>11. /\ InPlace(pi)'
       /\ next' # <<>> => At' = At /\ optind' = At + 1
       /\ next' = <<>> => optind' = At' /\ At' = IF Hungry(pi[At]) THEN At + 2 ELSE At + 1
  BY <1>1, <1>2, <1>3, <1>10, LetterRead
<1>12. optind' <= e
  BY <1>2, <1>5, <1>6, <1>7, <1>8, <1>11
<1>13. DOMAIN settings = DOMAIN Default
  BY <1>3 DEF SettingsInv
<1>14. \A x \in Late : settings'[x] = IF x \in DOMAIN Change(Letter, Argument)
                                     THEN Change(Letter, Argument)[x] ELSE settings[x]
  <2>1. Letter \in ForDaemon => \A x \in Late : x \notin DOMAIN Change(Letter, Argument)
    BY PassOf DEF Late
  <2> QED
    BY <1>1, <1>13, <2>1 DEF Changed, Late
<1>15. \A x \in Early : settings'[x] = settings[x]
  <2>1. Letter \notin ForDaemon => \A x \in Early : x \in DOMAIN settings /\ x \notin DOMAIN Change(Letter, Argument)
    BY <1>13, PassOf DEF ForDaemon
  <2> QED
    BY <1>1, <2>1 DEF Changed
<1>16. \A x \in Late : Stands(x, settings[x], Done(pi))'
  BY <1>1, <1>2, <1>3, <1>10, <1>14, LetterStands
<1>17. \A x \in Early : Stands(x, settings[x], Before(pi, e))'
  <2>1. Before(pi, e)' = Before(pi, e)
    BY <1>1, SameReads DEF Before
  <2> QED
    BY <1>1, <1>2, <1>15, <2>1, BeforeStands
<1>18. Arranged(pi)'
  BY <1>1, <1>2, SameArranged
<1>19. Front(pi, e)' /\ Stops(e)'
  BY <1>1, <1>2, SameWords DEF Front, Stops
<1> QED
  BY <1>1, <1>2, <1>11, <1>12, <1>16, <1>17, <1>18, <1>19, SameWords DEF InSecondPass

-----------------------------------------------------------------------------
\* The second pass begins with nothing of its own read, and the first has read
\* all options.
LEMMA FirstPassEnds ==
    ASSUME MeansInv, DaemonInv, EndFirstPass, ~Reject
    PROVE  parsing' = "second" /\ InSecondPass'
<1>1. /\ parsing = "first" /\ NoOption /\ optind' = 1 /\ parsing' = "second"
      /\ UNCHANGED <<typed, library, argv, next, settings, tests>>
  BY DEF EndFirstPass, Restart
<1>2. PICK pi \in [1 .. Size -> 1 .. Size] :
        /\ Arranged(pi) /\ Front(pi, optind) /\ InPlace(pi)
        /\ \A x \in Early : Stands(x, settings[x], Done(pi))
  BY <1>1 DEF MeansInv, InFirstPass
<1>3. typed \in CommandLines /\ WordsInv /\ SettingsInv
  BY DEF MeansInv, DaemonInv
<1>4. PICK e \in 1 .. Size + 1 : e = optind
  BY <1>2 DEF Front
<1>5. next = <<>> /\ At = e /\ At' = 1 /\ Size \in Nat /\ Len(argv) = Size
  BY <1>1, <1>2, <1>3, <1>4, TypedWords DEF NoOption, AtOption, At, Arranged
<1>6. DOMAIN argv = 1 .. Size
  BY <1>3, <1>5 DEF WordsInv
<1>7. Stops(e)
  <2>1. e \in 1 .. Size => ~IsOption(argv[e])
    BY <1>1, <1>4, <1>5 DEF NoOption, AtOption
  <2>2. library = "permutes" => \A k \in 1 .. Size : k > e => ~IsOption(argv[k])
    BY <1>1, <1>4, <1>6 DEF NoOption, LaterOptions
  <2> QED
    BY <1>5, <2>1, <2>2 DEF Stops
<1>8. Front(pi, e)'
  <2>1. /\ \A k \in 1 .. e - 1 : pi[k] \notin Plain
        /\ \A k \in 1 .. e - 1 : Hungry(pi[k]) => k + 1 < e
    BY <1>2, <1>4, <1>5 DEF Front
  <2> QED
    BY <1>1, <2>1, SameWords DEF Front
<1>9. InPlace(pi)'
  <2>1. 1 \in 1 .. Size => ~IsArgument[pi[1]]
    <3>1. \A k \in 1 .. Size : IsArgument[pi[k]] => k > 1
      BY <1>2, <1>3, WordBefore
    <3> QED
      BY <3>1
  <2> QED
    BY <1>1, <1>5, <2>1, SameWords DEF InPlace
<1>10. \A x \in Early : Stands(x, settings[x], Before(pi, e))'
  <2>1. Before(pi, e)' = Before(pi, e) /\ Done(pi) = Before(pi, e)
    BY <1>1, <1>5, SameReads DEF Before, Done
  <2> QED
    BY <1>1, <1>2, <2>1, BeforeStands
<1>11. \A x \in Late : Stands(x, settings[x], Done(pi))'
  <2>1. Done(pi)' = {}
    <3>1. ReadTo(pi, 1, 0) = {}
      <4>1. \A u \in Uses : u[2] \in Nat \ {0}
        <5>1. \A u \in Uses : u[1] \in 1 .. Size /\ u[2] \in DOMAIN typed[u[1]].letters
          BY DEF Uses, Size
        <5>2. \A p \in 1 .. Size : typed[p].letters \in Seq(AllLetters)
          BY <1>3, TypedWords, WordTypes
        <5> QED
          BY <5>1, <5>2
      <4>2. \A u \in Uses, j \in 1 .. Size : ~(j < 1 \/ (j = 1 /\ u[2] <= 0))
        BY <1>5, <4>1
      <4> QED
        BY <4>2 DEF ReadTo
    <3>2. Done(pi)' = ReadTo(pi, 1, 0)
      BY <1>1, <1>5, SameWords DEF Done, ReadTo
    <3> QED
      BY <3>1, <3>2
  <2>2. \A x \in Late : settings'[x] = Default[x]
    BY <1>1, <1>3 DEF SettingsInv, Late, Early
  <2>3. ASSUME NEW x \in Late PROVE Stands(x, settings'[x], {})
    BY <2>2 DEF Stands, Makers
  <2> QED
    BY <1>1, <2>1, <2>3, DoneStands
<1>12. Arranged(pi)'
  BY <1>1, <1>2, SameArranged
<1>13. Stops(e)' /\ optind' <= e
  BY <1>1, <1>5, <1>7, SameWords DEF Stops
<1> QED
  BY <1>1, <1>8, <1>9, <1>10, <1>11, <1>12, <1>13, SameWords DEF InSecondPass

\* In the second pass getopt() stops where it stopped in the first.
LEMMA SecondPassStops ==
    ASSUME MeansInv, DaemonInv, parsing = "second", ~AtOption, NEW pi, NEW e \in 1 .. Size + 1,
           Arranged(pi), Front(pi, e), InPlace(pi), optind <= e
    PROVE  next = <<>> /\ optind = e /\ At = e
<1>1. typed \in CommandLines /\ WordsInv
  BY DEF MeansInv, DaemonInv
<1>2. next = <<>> /\ At = optind /\ optind \in Nat \ {0} /\ Size \in Nat /\ Len(argv) = Size
  BY <1>1, TypedWords DEF AtOption, At, WordsInv, Arranged
<1>3. ASSUME optind < e PROVE FALSE
  <2>1. PICK k \in 1 .. Size : k = optind /\ k \in 1 .. e - 1
    BY <1>2, <1>3
  <2>2. pi[k] \notin Plain /\ ~IsArgument[pi[k]]
    BY <1>2, <2>1 DEF Front, InPlace
  <2>3. IsOption(argv[k])
    BY <1>1, <2>2, WordsAt
  <2> QED
    BY <1>2, <2>1, <2>3 DEF AtOption
<1> QED
  BY <1>2, <1>3

\* All options have been read twice, and every setting stands.
LEMMA SecondPassEnds ==
    ASSUME MeansInv, DaemonInv, EndSecondPass, ~Reject
    PROVE  parsing' = "tests" /\ InTests'
<1>1. /\ parsing = "second" /\ NoOption /\ parsing' = "tests"
      /\ UNCHANGED <<typed, library, argv, optind, next, settings, tests>>
  BY DEF EndSecondPass
<1>2. PICK pi, e :
        /\ pi \in [1 .. Size -> 1 .. Size] /\ e \in 1 .. Size + 1
        /\ Arranged(pi) /\ Front(pi, e) /\ InPlace(pi) /\ Stops(e) /\ optind <= e
        /\ \A x \in Early : Stands(x, settings[x], Before(pi, e))
        /\ \A x \in Late : Stands(x, settings[x], Done(pi))
  BY <1>1 DEF MeansInv, InSecondPass
<1>3. next = <<>> /\ optind = e /\ At = e /\ Size \in Nat
  BY <1>1, <1>2, SecondPassStops, TypedWords DEF NoOption, MeansInv
<1>4. tests = <<>>
  BY <1>1 DEF DaemonInv, ReadInv
<1>5. Before(pi, e)' = Before(pi, e) /\ Done(pi) = Before(pi, e)
  BY <1>1, <1>3, SameReads DEF Before, Done
<1>6. \A x \in DOMAIN Default : Stands(x, settings[x], Before(pi, e))'
  BY <1>1, <1>2, <1>5, BeforeStands DEF Late
<1>7. Arranged(pi)'
  BY <1>1, <1>2, SameArranged
<1>8. Front(pi, e)' /\ Stops(e)'
  BY <1>1, <1>2, SameWords DEF Front, Stops
<1>9. /\ optind' \in e .. Size + 1 /\ Len(tests') = optind' - e
      /\ tests' \in Seq({Parsed(word) : word \in Words})'
  BY <1>1, <1>2, <1>3, <1>4
<1>10. e .. optind' - 1 = {}
  BY <1>1, <1>3, <1>2
<1> QED
  BY <1>1, <1>2, <1>6, <1>7, <1>8, <1>9, <1>10, SameWords DEF InTests

\* The next word is a test, or there is none.
LEMMA RestMeans ==
    ASSUME MeansInv, DaemonInv, Rest, ~Reject
    PROVE  /\ parsing' \in {"tests", "accepted"} /\ InTests'
           /\ parsing' = "accepted" => optind' > Size
<1>1. parsing = "tests" /\ WordsInv /\ typed \in CommandLines
  BY DEF Rest, MeansInv, DaemonInv
<1>2. PICK pi, e :
        /\ pi \in [1 .. Size -> 1 .. Size] /\ e \in 1 .. Size + 1
        /\ Arranged(pi) /\ Front(pi, e) /\ Stops(e) /\ optind \in e .. Size + 1
        /\ \A x \in DOMAIN Default : Stands(x, settings[x], Before(pi, e))
        /\ tests \in Seq({Parsed(word) : word \in Words}) /\ Len(tests) = optind - e
        /\ \A k \in e .. optind - 1 : argv[k].test /\ tests[k - e + 1] = Parsed(argv[k])
  BY <1>1 DEF MeansInv, InTests
<1>3. Size \in Nat /\ Len(argv) = Size /\ optind \in Nat
  BY <1>1, <1>2, TypedWords DEF Arranged, WordsInv
<1>4. UNCHANGED <<typed, library, argv, next, settings>> /\ parsing' \in {"tests", "accepted"}
  <2>1. CASE optind <= Len(argv)
    BY <1>1, <2>1, Zenon DEF Rest
  <2>2. CASE ~(optind <= Len(argv))
    BY <1>1, <2>2, Zenon DEF Rest
  <2> QED
    BY <2>1, <2>2
<1>5. \A x \in DOMAIN Default : Stands(x, settings[x], Before(pi, e))'
  <2>1. Before(pi, e)' = Before(pi, e)
    BY <1>4, SameReads DEF Before
  <2> QED
    BY <1>2, <1>4, <2>1, BeforeStands
<1>6. Arranged(pi)'
  BY <1>2, <1>4, SameArranged
<1>7. Front(pi, e)' /\ Stops(e)'
  <2>1. \A k \in 1 .. e - 1 : Hungry(pi[k]) => k + 1 < e
    BY <1>1, <1>2 DEF Front
  <2> QED
    BY <1>2, <1>4, <2>1, SameWords DEF Front, Stops
<1>8. \A word : Parsed(word)' = Parsed(word)
  BY <1>4 DEF Parsed
<1>9. /\ tests' \in Seq({Parsed(word) : word \in Words}) /\ optind' \in e .. Size + 1
      /\ Len(tests') = optind' - e
      /\ \A k \in e .. optind' - 1 : argv[k].test /\ tests'[k - e + 1] = Parsed(argv[k])
      /\ parsing' = "accepted" => optind' > Size
  <2>1. CASE optind <= Len(argv)
    <3>1. /\ argv[optind].test /\ tests' = Append(tests, Parsed(argv[optind]))
          /\ optind' = optind + 1 /\ parsing' = parsing
      BY <2>1, Zenon DEF Rest
    <3>2. argv[optind] \in Words
      BY <1>1, <1>2, <1>3, <2>1 DEF WordsInv
    <3> DEFINE S == {Parsed(word) : word \in Words}
    <3>3. tests \in Seq(S) /\ Parsed(argv[optind]) \in S
      BY <1>2, <3>2
    <3> HIDE DEF S
    <3>4. PICK n \in Nat : n = optind - e /\ Len(tests) = n
      BY <1>2, <1>3
    <3>5. /\ tests' \in Seq(S) /\ Len(tests') = n + 1
          /\ \A k \in 1 .. n : tests'[k] = tests[k]
          /\ tests'[n + 1] = Parsed(argv[optind])
      BY <3>1, <3>3, <3>4
    <3>6. ASSUME NEW k \in e .. optind PROVE argv[k].test /\ tests'[k - e + 1] = Parsed(argv[k])
      <4>1. CASE k = optind
        <5>1. k - e + 1 = n + 1
          BY <3>4, <4>1
        <5> QED
          BY <3>1, <3>5, <4>1, <5>1
      <4>2. CASE k # optind
        <5>1. k \in e .. optind - 1 /\ k - e + 1 \in 1 .. n
          BY <1>2, <1>3, <3>4, <4>2
        <5> QED
          BY <1>2, <3>5, <5>1
      <4> QED
        BY <4>1, <4>2
    <3>7. tests' \in Seq({Parsed(word) : word \in Words})
      BY <3>5 DEF S
    <3>8. optind' \in e .. Size + 1 /\ Len(tests') = optind' - e /\ optind' - 1 = optind
      BY <1>2, <1>3, <2>1, <3>1, <3>4, <3>5
    <3>9. \A k \in e .. optind' - 1 : argv[k].test /\ tests'[k - e + 1] = Parsed(argv[k])
      BY <3>6, <3>8
    <3> QED
      BY <1>1, <3>1, <3>7, <3>8, <3>9
  <2>2. CASE ~(optind <= Len(argv))
    <3>1. optind' = optind /\ tests' = tests
      BY <2>2, Zenon DEF Rest, Reject
    <3>2. optind > Size
      BY ONLY <1>3, <2>2
    <3>3. /\ tests \in Seq({Parsed(word) : word \in Words}) /\ optind \in e .. Size + 1
          /\ Len(tests) = optind - e
          /\ \A k \in e .. optind - 1 : argv[k].test /\ tests[k - e + 1] = Parsed(argv[k])
      BY <1>2, Zenon
    <3> QED
      BY ONLY <3>1, <3>2, <3>3
  <2> QED
    BY <2>1, <2>2
<1>10. /\ {Parsed(word) : word \in Words}' = {Parsed(word) : word \in Words}
       /\ \A k : Parsed(argv[k])' = Parsed(argv[k])
  BY <1>4, <1>8
<1> QED
  BY <1>2, <1>4, <1>5, <1>6, <1>7, <1>9, <1>10, SameWords DEF InTests

-----------------------------------------------------------------------------
\* Words k to k + w - 1 are moved in front of word b: which word was here before.
Moves(b, k, w, m) == IF m < b THEN m
                     ELSE IF m < b + w THEN m + (k - b)
                     ELSE IF m < k + w THEN m - w ELSE m

\* Both places are on the command line.
CanMove(b, k, w, n) ==
    /\ b \in Nat \ {0} /\ k \in Nat /\ w \in Nat \ {0} /\ n \in Nat
    /\ b < k /\ k + w - 1 <= n

\* The assignment of Permute.
BroughtForward(s, b, k, w) ==
    SubSeq(s, 1, b - 1) \o SubSeq(s, k, k + w - 1) \o SubSeq(s, b, k - 1) \o SubSeq(s, k + w, Len(s))

\* Two sequences, one behind the other.
LEMMA Joined ==
    ASSUME NEW S, NEW s \in Seq(S), NEW t \in Seq(S), NEW p, NEW q, Len(s) = p, Len(t) = q
    PROVE  /\ s \o t \in Seq(S) /\ Len(s \o t) = p + q
           /\ \A m \in 1 .. p + q : (s \o t)[m] = IF m <= p THEN s[m] ELSE t[m - p]
BY ConcatProperties

\* That is where the words come from.
LEMMA MovedWords ==
    ASSUME NEW S, NEW s \in Seq(S), NEW b, NEW k, NEW w, CanMove(b, k, w, Len(s)),
           NEW t, t = BroughtForward(s, b, k, w)
    PROVE  Len(t) = Len(s) /\ \A m \in 1 .. Len(s) : t[m] = s[Moves(b, k, w, m)]
<1>0. b \in Nat \ {0} /\ k \in Nat /\ w \in Nat \ {0} /\ b < k /\ k + w - 1 <= Len(s)
  BY DEF CanMove
<1> DEFINE n == Len(s)
           front == SubSeq(s, 1, b - 1)
           moved == SubSeq(s, k, k + w - 1)
           behind == SubSeq(s, b, k - 1)
           rest == SubSeq(s, k + w, n)
<1>1. n \in Nat /\ \A j \in 1 .. n : s[j] \in S
  BY <1>0
<1>2. t = front \o moved \o behind \o rest
  BY DEF BroughtForward
<1>3. front \in Seq(S) /\ Len(front) = b - 1 /\ \A j \in 1 .. b - 1 : front[j] = s[j]
  <2>1. \A j \in 1 .. b - 1 : s[j] \in S
    BY <1>0, <1>1
  <2> QED
    BY <1>0, <1>1, <2>1, SubSeqProperties
<1>4. moved \in Seq(S) /\ Len(moved) = w /\ \A j \in 1 .. w : moved[j] = s[k + j - 1]
  <2>1. (\A j \in k .. k + w - 1 : s[j] \in S) /\ k \in Int /\ k + w - 1 \in Int
    BY <1>0, <1>1
  <2>2. (k + w - 1) - k + 1 = w /\ k <= (k + w - 1) + 1
    BY <1>0
  <2> QED
    BY <1>0, <2>1, <2>2, SubSeqProperties
<1>5. behind \in Seq(S) /\ Len(behind) = k - b /\ \A j \in 1 .. k - b : behind[j] = s[b + j - 1]
  <2>1. (\A j \in b .. k - 1 : s[j] \in S) /\ b \in Int /\ k - 1 \in Int
    BY <1>0, <1>1
  <2>2. (k - 1) - b + 1 = k - b /\ b <= (k - 1) + 1
    BY <1>0
  <2> QED
    BY <1>0, <2>1, <2>2, SubSeqProperties
<1>6. rest \in Seq(S) /\ Len(rest) = n - (k + w) + 1 /\ \A j \in 1 .. n - (k + w) + 1 : rest[j] = s[k + w + j - 1]
  <2>1. (\A j \in k + w .. n : s[j] \in S) /\ k + w \in Int /\ n \in Int
    BY <1>0, <1>1
  <2>2. k + w <= n + 1
    BY <1>0, <1>1
  <2> QED
    BY <1>0, <2>1, <2>2, SubSeqProperties
<1> HIDE DEF front, moved, behind, rest, n
<1>7. /\ front \o moved \in Seq(S) /\ Len(front \o moved) = b - 1 + w
      /\ \A m \in 1 .. b - 1 + w : (front \o moved)[m] = IF m < b THEN s[m] ELSE s[m + (k - b)]
  <2>1. \A m \in 1 .. b - 1 + w : (front \o moved)[m] = IF m <= b - 1 THEN front[m] ELSE moved[m - (b - 1)]
    <3>1. PICK p, q : p = b - 1 /\ q = w
      BY <1>0
    <3>2. front \in Seq(S) /\ moved \in Seq(S) /\ Len(front) = p /\ Len(moved) = q
      BY <1>0, <1>3, <1>4, <3>1
    <3>3. /\ front \o moved \in Seq(S) /\ Len(front \o moved) = p + q
          /\ \A m \in 1 .. p + q : (front \o moved)[m] = IF m <= p THEN front[m] ELSE moved[m - p]
      BY ONLY <3>2, Joined
    <3> QED
      BY ONLY <3>1, <3>3
  <2>2. ASSUME NEW m \in 1 .. b - 1 + w, ~(m < b) PROVE moved[m - (b - 1)] = s[m + (k - b)]
    <3>1. m - (b - 1) \in 1 .. w /\ k + (m - (b - 1)) - 1 = m + (k - b)
      BY <1>0, <2>2
    <3> QED
      BY <1>0, <1>4, <3>1
  <2>3. \A m \in 1 .. b - 1 + w : m < b => m <= b - 1 /\ front[m] = s[m]
    BY <1>0, <1>3
  <2>4. \A m \in 1 .. b - 1 + w : ~(m < b) => ~(m <= b - 1)
    BY <1>0
  <2> QED
    BY <1>0, <1>3, <1>4, <2>1, <2>2, <2>3, <2>4, ConcatProperties
<1> DEFINE two == front \o moved
<1>8. /\ two \in Seq(S) /\ Len(two) = b - 1 + w
      /\ \A m \in 1 .. b - 1 + w : two[m] = IF m < b THEN s[m] ELSE s[m + (k - b)]
  BY <1>0, <1>7
<1> HIDE DEF two
<1>9. /\ two \o behind \in Seq(S) /\ Len(two \o behind) = k - 1 + w
      /\ \A m \in 1 .. k - 1 + w : (two \o behind)[m] = IF m < b + w THEN two[m] ELSE s[m - w]
  <2>1. /\ two \o behind \in Seq(S) /\ Len(two \o behind) = k - 1 + w
        /\ \A m \in 1 .. k - 1 + w :
               (two \o behind)[m] = IF m <= b - 1 + w THEN two[m] ELSE behind[m - (b - 1 + w)]
    <3>1. b - 1 + w + (k - b) = k - 1 + w
      BY <1>0
    <3> QED
      <4>1. PICK p, q : p = b - 1 + w /\ q = k - b
        BY <1>0
      <4>2. two \in Seq(S) /\ behind \in Seq(S) /\ Len(two) = p /\ Len(behind) = q
        BY <1>0, <1>5, <1>8, <4>1
      <4>3. /\ two \o behind \in Seq(S) /\ Len(two \o behind) = p + q
            /\ \A m \in 1 .. p + q : (two \o behind)[m] = IF m <= p THEN two[m] ELSE behind[m - p]
        BY ONLY <4>2, Joined
      <4>4. p + q = k - 1 + w
        BY <1>0, <3>1, <4>1
      <4> QED
        BY ONLY <4>1, <4>3, <4>4
  <2>2. ASSUME NEW m \in 1 .. k - 1 + w, ~(m < b + w) PROVE behind[m - (b - 1 + w)] = s[m - w]
    <3>1. m - (b - 1 + w) \in 1 .. k - b /\ b + (m - (b - 1 + w)) - 1 = m - w
      BY <1>0, <2>2
    <3> QED
      BY <1>0, <1>5, <3>1
  <2>3. \A m \in 1 .. k - 1 + w : m <= b - 1 + w <=> m < b + w
    BY <1>0
  <2> QED
    BY <1>0, <2>1, <2>2, <2>3
<1> DEFINE three == two \o behind
<1>10. /\ three \in Seq(S) /\ Len(three) = k - 1 + w
       /\ \A m \in 1 .. k - 1 + w : three[m] = IF m < b + w THEN two[m] ELSE s[m - w]
  BY <1>0, <1>9
<1> HIDE DEF three
<1>11. /\ Len(three \o rest) = n
       /\ \A m \in 1 .. n : (three \o rest)[m] = IF m < k + w THEN three[m] ELSE s[m]
  <2>1. /\ Len(three \o rest) = n
        /\ \A m \in 1 .. n : (three \o rest)[m] = IF m <= k - 1 + w THEN three[m] ELSE rest[m - (k - 1 + w)]
    <3>1. k - 1 + w + (n - (k + w) + 1) = n
      BY <1>0, <1>1
    <3> QED
      <4>1. PICK p, q : p = k - 1 + w /\ q = n - (k + w) + 1
        BY <1>0
      <4>2. three \in Seq(S) /\ rest \in Seq(S) /\ Len(three) = p /\ Len(rest) = q
        BY <1>0, <1>6, <1>10, <4>1
      <4>3. /\ Len(three \o rest) = p + q
            /\ \A m \in 1 .. p + q : (three \o rest)[m] = IF m <= p THEN three[m] ELSE rest[m - p]
        BY ONLY <4>2, Joined
      <4>4. p + q = n
        BY <1>0, <3>1, <4>1
      <4> QED
        BY ONLY <4>1, <4>3, <4>4
  <2>2. ASSUME NEW m \in 1 .. n, ~(m < k + w) PROVE rest[m - (k - 1 + w)] = s[m]
    <3>1. m - (k - 1 + w) \in 1 .. n - (k + w) + 1 /\ k + w + (m - (k - 1 + w)) - 1 = m
      BY <1>0, <1>1, <2>2
    <3> QED
      BY <1>0, <1>6, <3>1
  <2>3. \A m \in 1 .. n : m <= k - 1 + w <=> m < k + w
    BY <1>0, <1>1
  <2> QED
    BY <1>0, <2>1, <2>2, <2>3
<1>12. t = three \o rest
  BY <1>0, <1>2 DEF two, three
<1>13. ASSUME NEW m \in 1 .. n PROVE t[m] = s[Moves(b, k, w, m)]
  <2>1. m \in Nat /\ b + w <= k + w
    BY <1>0, <1>1
  <2>2. CASE m < b
    <3>1. m \in 1 .. b - 1 + w /\ m \in 1 .. k - 1 + w /\ m < b + w /\ m < k + w
      BY <1>0, <2>1, <2>2
    <3> QED
      BY <1>0, <1>8, <1>10, <1>11, <1>12, <2>2, <3>1 DEF Moves
  <2>3. CASE ~(m < b) /\ m < b + w
    <3>1. m \in 1 .. b - 1 + w /\ m \in 1 .. k - 1 + w /\ m < k + w
      BY <1>0, <2>1, <2>3
    <3> QED
      BY <1>0, <1>8, <1>10, <1>11, <1>12, <2>3, <3>1 DEF Moves
  <2>4. CASE ~(m < b) /\ ~(m < b + w) /\ m < k + w
    <3>1. m \in 1 .. k - 1 + w
      BY <1>0, <2>1, <2>4
    <3> QED
      BY <1>0, <1>10, <1>11, <1>12, <2>4, <3>1 DEF Moves
  <2>5. CASE ~(m < b) /\ ~(m < b + w) /\ ~(m < k + w)
    BY <1>0, <1>11, <1>12, <2>5 DEF Moves
  <2> QED
    BY <1>0, <2>2, <2>3, <2>4, <2>5
<1> QED
  BY <1>0, <1>11, <1>12, <1>13 DEF n

\* No word is lost, and none is there twice.
LEMMA MovesAll ==
    ASSUME NEW n, NEW b, NEW k, NEW w, CanMove(b, k, w, n)
    PROVE  /\ \A m \in 1 .. n : Moves(b, k, w, m) \in 1 .. n
           /\ \A j, m \in 1 .. n : Moves(b, k, w, j) = Moves(b, k, w, m) => j = m
           /\ \A p \in 1 .. n : \E m \in 1 .. n : Moves(b, k, w, m) = p
<1>1. \A m \in 1 .. n : Moves(b, k, w, m) \in 1 .. n
  BY DEF Moves, CanMove
<1>2. \A j, m \in 1 .. n : Moves(b, k, w, j) = Moves(b, k, w, m) => j = m
  BY DEF Moves, CanMove
<1>3. ASSUME NEW p \in 1 .. n PROVE \E m \in 1 .. n : Moves(b, k, w, m) = p
  <2>1. CASE p < b \/ p >= k + w
    <3>1. Moves(b, k, w, p) = p
      BY <2>1 DEF Moves, CanMove
    <3> QED
      BY <3>1
  <2>2. CASE b <= p /\ p < k
    <3>1. p + w \in 1 .. n /\ Moves(b, k, w, p + w) = p
      BY <2>2 DEF Moves, CanMove
    <3> QED
      BY <3>1
  <2>3. CASE k <= p /\ p < k + w
    <3>1. p - (k - b) \in 1 .. n /\ Moves(b, k, w, p - (k - b)) = p
      BY <2>3 DEF Moves, CanMove
    <3> QED
      BY <3>1
  <2> QED
    BY <2>1, <2>2, <2>3 DEF CanMove
<1> QED
  BY <1>1, <1>2, <1>3

\* getopt() has found its next option, and moves it.
LEMMA Found ==
    ASSUME typed \in CommandLines, WordsInv, NEW pi, Arranged(pi), InPlace(pi), ~AtOption,
           NEW k \in LaterOptions, \A j \in LaterOptions : k <= j, k + Width(k) - 1 <= Len(argv)
    PROVE  /\ next = <<>> /\ At = optind /\ optind \in Nat \ {0} /\ k \in Nat /\ optind < k
           /\ Width(k) \in {1, 2} /\ k + Width(k) - 1 <= Size
           /\ \A m \in optind .. k - 1 : pi[m] \in Plain
           /\ \A m \in k .. k + Width(k) - 1 : pi[m] \notin Plain
           /\ IsOpt(pi[k]) /\ (Hungry(pi[k]) <=> Width(k) = 2)
           /\ Width(k) = 2 => IsArgument[pi[k + 1]]
<1>1. /\ next = <<>> /\ At = optind /\ optind \in Nat \ {0} /\ Size \in Nat /\ Len(argv) = Size
      /\ DOMAIN argv = 1 .. Size
  BY TypedWords DEF AtOption, At, WordsInv, Arranged
<1>2. k \in 1 .. Size /\ k > optind /\ IsOption(argv[k])
  BY <1>1 DEF LaterOptions
<1>3. Width(k) \in {1, 2} /\ (Width(k) = 2 <=> Seqs!Last(argv[k].letters) \in TakesArgument)
  BY DEF Width
<1>4. \A m \in optind .. k - 1 : ~IsOption(argv[m])
  <2>1. ~IsOption(argv[optind])
    BY <1>1, <1>2 DEF AtOption
  <2>2. ASSUME NEW m \in optind + 1 .. k - 1, IsOption(argv[m]) PROVE FALSE
    <3>1. m \in LaterOptions /\ ~(k <= m)
      BY <1>1, <1>2, <2>2 DEF LaterOptions
    <3> QED
      BY <3>1
  <2>3. \A m \in optind .. k - 1 : m = optind \/ m \in optind + 1 .. k - 1
    BY <1>1, <1>2
  <2> QED
    BY <2>1, <2>2, <2>3
<1>5. ASSUME NEW m \in optind .. k, IsArgument[pi[m]] PROVE FALSE
  <2>1. m \in 1 .. Size
    BY <1>1, <1>2
  <2>2. m # optind
    BY <1>1, <1>5, <2>1 DEF InPlace
  <2>3. m - 1 \in 1 .. Size /\ Hungry(pi[m - 1])
    BY <1>5, <2>1, WordBefore
  <2>4. m - 1 \in optind .. k - 1
    BY <1>1, <1>2, <2>2
  <2>5. IsOption(argv[m - 1])
    BY <2>3, WordsAt
  <2> QED
    BY <1>4, <2>4, <2>5
<1>6. \A m \in optind .. k - 1 : pi[m] \in Plain
  <2> SUFFICES ASSUME NEW m \in optind .. k - 1 PROVE pi[m] \in Plain
    OBVIOUS
  <2>1. m \in 1 .. Size /\ m \in optind .. k
    BY <1>1, <1>2
  <2> QED
    BY <1>4, <1>5, <2>1, WordsAt
<1>7. IsOpt(pi[k]) /\ (Hungry(pi[k]) <=> Width(k) = 2)
  <2>1. k \in optind .. k
    BY <1>1, <1>2
  <2> QED
    BY <1>2, <1>3, <1>5, <2>1, WordsAt
<1>8. k + Width(k) - 1 <= Size
  BY <1>1
<1>9. Width(k) = 2 => IsArgument[pi[k + 1]]
  <2>1. Width(k) = 2 => k < Size
    BY <1>1, <1>2, <1>8
  <2> QED
    BY <1>2, <1>7, <2>1, NextWord
<1>10. \A m \in k .. k + Width(k) - 1 : pi[m] \notin Plain
  <2>1. pi[k] \notin Plain
    BY <1>7 DEF Plain, IsOpt
  <2>2. Width(k) = 2 => pi[k + 1] \notin Plain
    BY <1>9 DEF Plain
  <2>3. \A m \in k .. k + Width(k) - 1 : m = k \/ (Width(k) = 2 /\ m = k + 1)
    BY <1>2, <1>3
  <2> QED
    BY <2>1, <2>2, <2>3
<1> QED
  BY <1>1, <1>2, <1>3, <1>6, <1>7, <1>8, <1>9, <1>10

\* Words that are neither option nor argument (P), arguments (A), and the options
\* that take one (H).
Placed(n, pi, P, A, H) ==
    /\ pi \in [1 .. n -> 1 .. n]
    /\ \A j, m \in 1 .. n : pi[j] = pi[m] => j = m
    /\ \A p \in 1 .. n : \E m \in 1 .. n : pi[m] = p
    /\ \A j, m \in 1 .. n : j < m /\ (pi[j] \in P <=> pi[m] \in P) => pi[j] < pi[m]
    /\ \A m \in 1 .. n : pi[m] \in A => m > 1 /\ pi[m - 1] = pi[m] - 1
    /\ \A m \in 1 .. n : pi[m] = n /\ pi[m] \in H => m = n

\* Words that stand in their places stand in them after a move.
LEMMA Rearranged ==
    ASSUME NEW n, NEW b, NEW k, NEW w \in {1, 2}, CanMove(b, k, w, n),
           NEW P, NEW A, NEW H, NEW pi, Placed(n, pi, P, A, H),
           A \cap H = {}, A \cap P = {}, H \cap P = {},
           \A m \in 1 .. n : pi[m] \in A => m > 1 /\ pi[m - 1] \in H,
           \A m \in b .. k - 1 : pi[m] \in P,
           \A m \in k .. k + w - 1 : pi[m] \notin P,
           pi[k] \notin A, pi[k] \in H <=> w = 2, w = 2 => pi[k + 1] \in A,
           NEW rho, rho = [m \in 1 .. n |-> pi[Moves(b, k, w, m)]]
    PROVE  Placed(n, rho, P, A, H)
<1>1. b \in Nat \ {0} /\ k \in Nat /\ w \in {1, 2} /\ n \in Nat /\ b < k /\ k + w - 1 <= n
  BY DEF CanMove
<1>2. PICK F \in [1 .. n -> 1 .. n] : \A m \in 1 .. n : F[m] = Moves(b, k, w, m)
  <2>1. [m \in 1 .. n |-> Moves(b, k, w, m)] \in [1 .. n -> 1 .. n]
    BY MovesAll
  <2> QED
    BY <2>1
<1>3. /\ \A j, m \in 1 .. n : F[j] = F[m] => j = m
      /\ \A p \in 1 .. n : \E m \in 1 .. n : F[m] = p
  BY <1>2, MovesAll
<1>4. /\ \A m \in 1 .. n : m < b => F[m] = m
      /\ \A m \in 1 .. n : ~(m < b) /\ m < b + w => F[m] = m + (k - b)
      /\ \A m \in 1 .. n : ~(m < b) /\ ~(m < b + w) /\ m < k + w => F[m] = m - w
      /\ \A m \in 1 .. n : ~(m < b) /\ ~(m < b + w) /\ ~(m < k + w) => F[m] = m
  BY <1>2 DEF Moves
<1>5. /\ pi \in [1 .. n -> 1 .. n]
      /\ \A j, m \in 1 .. n : pi[j] = pi[m] => j = m
      /\ \A p \in 1 .. n : \E m \in 1 .. n : pi[m] = p
      /\ \A j, m \in 1 .. n : j < m /\ (pi[j] \in P <=> pi[m] \in P) => pi[j] < pi[m]
      /\ \A m \in 1 .. n : pi[m] \in A => m > 1 /\ pi[m - 1] = pi[m] - 1
      /\ \A m \in 1 .. n : pi[m] = n /\ pi[m] \in H => m = n
  BY DEF Placed
<1>6. \A m \in 1 .. n : rho[m] = pi[F[m]] /\ F[m] \in 1 .. n
  BY <1>2
<1>7. rho \in [1 .. n -> 1 .. n]
  <2>1. pi \in [1 .. n -> 1 .. n]
    BY <1>5
  <2>2. \A m \in 1 .. n : Moves(b, k, w, m) \in 1 .. n
    BY <1>2
  <2>3. \A m \in 1 .. n : pi[Moves(b, k, w, m)] \in 1 .. n
    BY ONLY <2>1, <2>2
  <2> QED
    BY <2>3
<1>8. ASSUME NEW j \in 1 .. n, NEW m \in 1 .. n, rho[j] = rho[m] PROVE j = m
  <2>1. PICK x \in 1 .. n : x = F[j]
    BY <1>6
  <2>2. PICK y \in 1 .. n : y = F[m]
    BY <1>6
  <2>3. x = y
    BY <1>5, <1>6, <1>8, <2>1, <2>2
  <2> QED
    BY <1>3, <2>1, <2>2, <2>3
<1>9. ASSUME NEW p \in 1 .. n PROVE \E m \in 1 .. n : rho[m] = p
  <2>1. PICK j \in 1 .. n : pi[j] = p
    BY <1>5
  <2>2. PICK m \in 1 .. n : F[m] = j
    BY <1>3
  <2> QED
    BY <1>6, <2>1, <2>2
<1>10. ASSUME NEW j \in 1 .. n, NEW m \in 1 .. n, j < m, rho[j] \in P <=> rho[m] \in P
       PROVE  rho[j] < rho[m]
  <2>1. PICK x \in 1 .. n : x = F[j] /\ x = Moves(b, k, w, j)
    BY <1>2
  <2>2. PICK y \in 1 .. n : y = F[m] /\ y = Moves(b, k, w, m)
    BY <1>2
  <2>3. rho[j] = pi[x] /\ rho[m] = pi[y]
    BY <1>6, <2>1, <2>2
  <2>4. x < y \/ (x \in k .. k + w - 1 /\ y \in b .. k - 1)
    <3>1. j < m
      BY <1>10
    <3> QED
      BY ONLY <1>1, <2>1, <2>2, <3>1, j \in 1 .. n, m \in 1 .. n DEF Moves
  <2>5. ~(x \in k .. k + w - 1 /\ y \in b .. k - 1)
    BY <1>10, <2>3
  <2>6. x < y /\ (pi[x] \in P <=> pi[y] \in P)
    BY <1>10, <2>3, <2>4, <2>5
  <2>7. pi[x] < pi[y]
    BY <1>5, <2>6
  <2> QED
    BY <2>3, <2>7
<1>11. ASSUME NEW m \in 1 .. n, rho[m] \in A PROVE m > 1 /\ rho[m - 1] = rho[m] - 1
  <2>1. PICK j \in 1 .. n : j = F[m]
    BY <1>6
  <2>2. pi[j] \in A /\ rho[m] = pi[j]
    BY <1>6, <1>11, <2>1
  <2>3. j > 1 /\ pi[j - 1] = pi[j] - 1 /\ pi[j - 1] \in H
    BY <1>5, <2>2
  <2>4. ~(j \in b .. k - 1) /\ j # k
    BY <2>2
  <2>5. m > 1 /\ F[m - 1] = j - 1
    <3>1. CASE m < b
      <4>1. j = m /\ m - 1 \in 1 .. n /\ m - 1 < b
        BY <1>1, <1>4, <2>1, <2>3, <3>1
      <4> QED
        BY <1>4, <2>3, <4>1
    <3>2. CASE ~(m < b) /\ m < b + w
      <4>1. j = m + (k - b)
        BY <1>4, <2>1, <3>2
      <4>2. m = b + 1 /\ w = 2 /\ j = k + 1
        <5>1. w = 1 => m = b
          BY ONLY <1>1, <3>2, m \in 1 .. n
        <5>2. w = 2 => m = b \/ m = b + 1
          BY ONLY <1>1, <3>2, m \in 1 .. n
        <5>3. m = b => j = k
          BY ONLY <1>1, <4>1
        <5>4. m = b + 1 => j = k + 1
          BY ONLY <1>1, <4>1
        <5> QED
          BY <1>1, <2>4, <5>1, <5>2, <5>3, <5>4
      <4>3. F[b] = b + (k - b)
        BY <1>1, <1>4
      <4>4. m - 1 = b /\ j - 1 = b + (k - b) /\ m > 1
        BY <1>1, <4>2
      <4> QED
        BY <4>3, <4>4
    <3>3. CASE ~(m < b) /\ ~(m < b + w) /\ m < k + w
      <4>1. j = m - w
        BY <1>4, <2>1, <3>3
      <4> QED
        BY <1>1, <2>4, <3>3, <4>1
    <3>4. CASE ~(m < b) /\ ~(m < b + w) /\ ~(m < k + w)
      <4>1. j = m
        BY <1>4, <2>1, <3>4
      <4>2. m # k + w
        <5>1. ASSUME m = k + w, w = 1 PROVE FALSE
          <6>1. j - 1 = k
            BY <1>1, <4>1, <5>1
          <6> QED
            BY <2>3, <5>1, <6>1
        <5>2. ASSUME m = k + w, w = 2 PROVE FALSE
          <6>1. j - 1 = k + 1
            BY <1>1, <4>1, <5>2
          <6> QED
            BY <2>3, <5>2, <6>1
        <5> QED
          BY <5>1, <5>2
      <4>3. m - 1 \in 1 .. n /\ ~(m - 1 < b) /\ ~(m - 1 < b + w) /\ ~(m - 1 < k + w)
        BY <1>1, <3>4, <4>2
      <4> QED
        BY <1>4, <2>3, <4>1, <4>3
    <3> QED
      BY <3>1, <3>2, <3>3, <3>4
  <2>6. rho[m - 1] = pi[j - 1]
    <3>1. m - 1 \in 1 .. n
      BY <1>1, <2>5
    <3> QED
      BY <1>6, <2>5, <3>1
  <2> QED
    BY <2>2, <2>3, <2>5, <2>6
<1>12. ASSUME NEW m \in 1 .. n, rho[m] = n, rho[m] \in H PROVE m = n
  <2>1. PICK j \in 1 .. n : j = F[m]
    BY <1>6
  <2>2. pi[j] = n /\ pi[j] \in H
    BY <1>6, <1>12, <2>1
  <2>3. j = n /\ ~(j \in b .. k - 1)
    BY <1>5, <2>2
  <2>4. j # k
    <3>1. j = k => w = 2
      BY <2>2
    <3> QED
      BY <1>1, <2>3, <3>1
  <2>5. ASSUME w = 2, j = k + 1 PROVE FALSE
    <3>1. pi[j] \in A /\ pi[j] \in H
      BY <2>2, <2>5
    <3> QED
      BY <3>1
  <2>6. ~(j \in k .. k + w - 1)
    <3>1. w = 2 => j # k + 1
      BY <2>5, Zenon
    <3> QED
      BY ONLY <1>1, <2>4, <3>1, j \in 1 .. n
  <2>7. CASE m < b
    BY <1>1, <1>4, <2>1, <2>3, <2>7
  <2>8. CASE ~(m < b)
    <3>1. j = Moves(b, k, w, m)
      BY <1>2, <2>1
    <3>2. j = m
      BY ONLY <1>1, <2>3, <2>6, <2>8, <3>1, j \in 1 .. n, m \in 1 .. n DEF Moves
    <3> QED
      BY <2>3, <3>2
  <2> QED
    BY <2>7, <2>8
<1> QED
  BY <1>7, <1>8, <1>9, <1>10, <1>11, <1>12 DEF Placed

\* So are the words of a command line: the arguments are placed behind the
\* options that take them.
Taken  == {p \in 1 .. Size : IsArgument[p]}
Takers == {p \in 1 .. Size : Hungry(p)}

LEMMA ArrangedPlaces ==
    ASSUME typed \in CommandLines, NEW pi, Arranged(pi)
    PROVE  /\ Placed(Size, pi, Plain, Taken, Takers)
           /\ Taken \cap Takers = {} /\ Taken \cap Plain = {} /\ Takers \cap Plain = {}
           /\ \A m \in 1 .. Size : pi[m] \in Taken => m > 1 /\ pi[m - 1] \in Takers
<1> PICK P, A, H : P = Plain /\ A = Taken /\ H = Takers
  OBVIOUS
<1>1. /\ pi \in [1 .. Size -> 1 .. Size]
      /\ \A j, m \in 1 .. Size : pi[j] = pi[m] => j = m
      /\ \A p \in 1 .. Size : \E m \in 1 .. Size : pi[m] = p
      /\ \A j, m \in 1 .. Size : j < m /\ (pi[j] \in Plain <=> pi[m] \in Plain) => pi[j] < pi[m]
      /\ \A m \in 1 .. Size : IsArgument[pi[m]] => m > 1 /\ pi[m - 1] = pi[m] - 1
      /\ \A m \in 1 .. Size : pi[m] = Size /\ Hungry(pi[m]) => m = Size
  BY Zenon DEF Arranged
<1>0. P = Plain /\ A = {p \in 1 .. Size : IsArgument[p]} /\ H = {p \in 1 .. Size : Hungry(p)}
  BY DEF Taken, Takers
<1>2. \A m \in 1 .. Size : pi[m] \in A => IsArgument[pi[m]]
  BY <1>0
<1>3. \A m \in 1 .. Size : pi[m] \in H => Hungry(pi[m])
  BY <1>0
<1>4. Placed(Size, pi, P, A, H)
  BY <1>0, <1>1, <1>2, <1>3 DEF Placed
<1>5. A \cap H = {} /\ A \cap P = {} /\ H \cap P = {}
  BY <1>0, Kinds
<1>6. ASSUME NEW m \in 1 .. Size, pi[m] \in A PROVE m > 1 /\ pi[m - 1] \in H
  <2>1. m > 1 /\ m - 1 \in 1 .. Size /\ Hungry(pi[m - 1])
    BY <1>2, <1>6, WordBefore
  <2> QED
    BY <1>0, <1>1, <2>1
<1> QED
  BY <1>4, <1>5, <1>6

\* Permute leaves the words arranged.
LEMMA PermuteArranges ==
    ASSUME typed \in CommandLines, WordsInv, NEW pi, Arranged(pi), InPlace(pi),
           ~AtOption, library = "permutes",
           NEW k \in LaterOptions, \A j \in LaterOptions : k <= j, k + Width(k) - 1 <= Len(argv),
           argv' = SubSeq(argv, 1, optind - 1) \o SubSeq(argv, k, k + Width(k) - 1)
                   \o SubSeq(argv, optind, k - 1) \o SubSeq(argv, k + Width(k), Len(argv)),
           UNCHANGED <<typed, library>>
    PROVE  \E rho \in [1 .. Size -> 1 .. Size] :
               /\ Arranged(rho)'
               /\ \A m \in 1 .. Size : m < optind => rho[m] = pi[m]
               /\ \A m \in 1 .. Size : m = optind => ~IsArgument[rho[m]]
<1>1. PICK b, w, n : b = optind /\ w = Width(k) /\ n = Size
  OBVIOUS
<1>2. Len(argv) = n /\ n \in Nat /\ argv \in Seq(Words)
  BY <1>1, TypedWords DEF Arranged, WordsInv
<1>3. /\ b \in Nat \ {0} /\ k \in Nat /\ b < k /\ w \in {1, 2} /\ k + w - 1 <= n
      /\ \A m \in b .. k - 1 : pi[m] \in Plain
      /\ \A m \in k .. k + w - 1 : pi[m] \notin Plain
      /\ IsOpt(pi[k]) /\ (Hungry(pi[k]) <=> w = 2)
      /\ w = 2 => IsArgument[pi[k + 1]]
  BY <1>1, Found
<1>4. CanMove(b, k, w, n) /\ k \in 1 .. n /\ (w = 2 => k + 1 \in 1 .. n)
  BY <1>2, <1>3 DEF CanMove
<1>5. PICK P, A, H : P = Plain /\ A = Taken /\ H = Takers
  OBVIOUS
<1>0. A = {p \in 1 .. n : IsArgument[p]} /\ H = {p \in 1 .. n : Hungry(p)}
  BY <1>1, <1>5 DEF Taken, Takers
<1>6. /\ Placed(n, pi, P, A, H) /\ A \cap H = {} /\ A \cap P = {} /\ H \cap P = {}
      /\ \A m \in 1 .. n : pi[m] \in A => m > 1 /\ pi[m - 1] \in H
  <2>1. typed \in CommandLines /\ Arranged(pi) /\ n = Size
    BY <1>1
  <2>2. /\ Placed(Size, pi, Plain, Taken, Takers)
        /\ Taken \cap Takers = {} /\ Taken \cap Plain = {} /\ Takers \cap Plain = {}
        /\ \A m \in 1 .. Size : pi[m] \in Taken => m > 1 /\ pi[m - 1] \in Takers
    BY ONLY <2>1, ArrangedPlaces
  <2> QED
    BY ONLY <1>5, <2>1, <2>2
<1>7. pi \in [1 .. n -> 1 .. n]
  BY <1>6 DEF Placed
<1>8. pi[k] \notin A /\ (pi[k] \in H <=> w = 2) /\ (w = 2 => pi[k + 1] \in A)
  <2>1. ~IsArgument[pi[k]] /\ pi[k] \in 1 .. n
    BY <1>3, <1>4, <1>7 DEF IsOpt
  <2>2. pi[k] \in H <=> Hungry(pi[k])
    BY <1>0, <1>5, <2>1
  <2>3. w = 2 => pi[k + 1] \in 1 .. n
    BY <1>4, <1>7
  <2> QED
    BY <1>3, <1>0, <1>5, <2>1, <2>2, <2>3
<1>9. PICK rho : rho = [m \in 1 .. n |-> pi[Moves(b, k, w, m)]]
  OBVIOUS
<1>10. Placed(n, rho, P, A, H)
  <2>1. /\ \A m \in b .. k - 1 : pi[m] \in P
        /\ \A m \in k .. k + w - 1 : pi[m] \notin P
        /\ w \in {1, 2}
    BY <1>3, <1>0, <1>5
  <2> QED
    BY ONLY <1>4, <1>6, <1>8, <1>9, <2>1, Rearranged
<1>11. Len(argv') = n /\ \A m \in 1 .. n : argv'[m] = argv[Moves(b, k, w, m)]
  <2>1. PICK s \in Seq(Words) : s = argv
    BY <1>2
  <2>2. PICK t : t = argv'
    OBVIOUS
  <2>3. t = BroughtForward(s, b, k, w) /\ Len(s) = n
    BY <1>1, <1>2, <2>1, <2>2 DEF BroughtForward
  <2>4. Len(t) = n /\ \A m \in 1 .. n : t[m] = s[Moves(b, k, w, m)]
    BY ONLY <1>4, <2>3, MovedWords, s \in Seq(Words)
  <2> QED
    BY <2>1, <2>2, <2>4
<1>12. \A m \in 1 .. n : Moves(b, k, w, m) \in 1 .. n
  BY <1>4, MovesAll
<1>13. \A m \in 1 .. n : argv'[m] = typed[rho[m]]
  <2>1. \A m \in 1 .. n : argv[m] = typed[pi[m]]
    BY <1>1 DEF Arranged
  <2> QED
    BY <1>9, <1>11, <1>12, <2>1
<1>14. Arranged(rho)'
  <2>1. /\ rho \in [1 .. n -> 1 .. n]
        /\ \A j, m \in 1 .. n : rho[j] = rho[m] => j = m
        /\ \A p \in 1 .. n : \E m \in 1 .. n : rho[m] = p
        /\ \A j, m \in 1 .. n : j < m /\ (rho[j] \in P <=> rho[m] \in P) => rho[j] < rho[m]
        /\ \A m \in 1 .. n : rho[m] \in A => m > 1 /\ rho[m - 1] = rho[m] - 1
        /\ \A m \in 1 .. n : rho[m] = n /\ rho[m] \in H => m = n
    BY <1>10, Zenon DEF Placed
  <2>2. \A m \in 1 .. n : (rho[m] \in A <=> IsArgument[rho[m]]) /\ (rho[m] \in H <=> Hungry(rho[m]))
    BY <1>0, <1>5, <2>1
  <2>3. /\ Size' = n /\ IsArgument' = IsArgument /\ Plain' = P
        /\ \A m \in 1 .. n : Hungry(rho[m])' <=> Hungry(rho[m])
    BY <1>1, <1>0, <1>5, SameWords
  <2>4. /\ \A m \in 1 .. n : IsArgument'[rho[m]] => m > 1 /\ rho[m - 1] = rho[m] - 1
        /\ \A m \in 1 .. n : rho[m] = n /\ Hungry(rho[m])' => m = n
    BY <2>1, <2>2, <2>3
  <2>5. typed' = typed /\ library' = "permutes"
    OBVIOUS
  <2>6. Len(argv') = n
    BY <1>11
  <2> QED
    BY ONLY <1>13, <2>1, <2>3, <2>4, <2>5, <2>6 DEF Arranged
<1>15. \A m \in 1 .. n : m < b => rho[m] = pi[m]
  BY <1>9 DEF Moves
<1>16. \A m \in 1 .. n : m = b => ~IsArgument[rho[m]]
  <2>1. b \in 1 .. n => Moves(b, k, w, b) = k
    BY <1>3 DEF Moves
  <2>2. ~IsArgument[pi[k]]
    BY <1>3 DEF IsOpt
  <2> QED
    BY <1>9, <2>1, <2>2
<1>17. rho \in [1 .. Size -> 1 .. Size]
  BY <1>1, <1>10 DEF Placed
<1> QED
  BY <1>1, <1>14, <1>15, <1>16, <1>17

\* Words and letters are counted from one.
LEMMA LettersCount ==
    ASSUME typed \in CommandLines, NEW u \in Uses
    PROVE  u[1] \in 1 .. Size /\ u[2] \in DOMAIN typed[u[1]].letters /\ u[2] \in Nat \ {0}
<1>1. u[1] \in 1 .. Size /\ u[2] \in DOMAIN typed[u[1]].letters
  BY DEF Uses, Size
<1>2. typed[u[1]].letters \in Seq(AllLetters)
  BY <1>1, TypedWords, WordTypes
<1> QED
  BY <1>1, <1>2

\* The words in front of getopt() are not moved.
LEMMA PermuteMeans ==
    ASSUME MeansInv, DaemonInv, Permute, ~Reject
    PROVE  parsing' = "first" /\ InFirstPass'
<1>1. parsing \in {"first", "second"} /\ library = "permutes" /\ ~AtOption /\ LaterOptions # {}
  BY DEF Permute
<1>2. PICK k \in LaterOptions :
        /\ \A j \in LaterOptions : k <= j
        /\ k + Width(k) - 1 <= Len(argv)
        /\ argv' = SubSeq(argv, 1, optind - 1) \o SubSeq(argv, k, k + Width(k) - 1)
                   \o SubSeq(argv, optind, k - 1) \o SubSeq(argv, k + Width(k), Len(argv))
        /\ UNCHANGED <<typed, library, optind, next, settings, tests, parsing>>
  <2>1. PICK k \in LaterOptions :
          /\ \A j \in LaterOptions : k <= j
          /\ IF k + Width(k) - 1 > Len(argv)
             THEN Reject
             ELSE /\ argv' = SubSeq(argv, 1, optind - 1) \o SubSeq(argv, k, k + Width(k) - 1)
                             \o SubSeq(argv, optind, k - 1) \o SubSeq(argv, k + Width(k), Len(argv))
                  /\ UNCHANGED <<typed, library, optind, next, settings, tests, parsing>>
    BY Zenon DEF Permute
  <2>2. ~(k + Width(k) - 1 > Len(argv))
    BY <2>1, Zenon
  <2>3. k \in Nat /\ Width(k) \in Nat /\ Len(argv) \in Nat
    BY DEF LaterOptions, Width, DaemonInv, WordsInv
  <2>4. k + Width(k) - 1 <= Len(argv)
    BY ONLY <2>2, <2>3
  <2> QED
    BY <2>1, <2>2, <2>4, Zenon
<1>3. typed \in CommandLines /\ WordsInv
  BY DEF MeansInv, DaemonInv
<1>4. PICK same \in BOOLEAN : same <=> UNCHANGED <<typed, library, optind, next, settings, tests, parsing>>
  OBVIOUS
<1>5. same
  BY <1>2, <1>4
<1>6. parsing = "first"
  <2> SUFFICES ASSUME parsing = "second" PROVE FALSE
    BY <1>1
  <2>1. PICK pi, e :
          /\ pi \in [1 .. Size -> 1 .. Size] /\ e \in 1 .. Size + 1
          /\ Arranged(pi) /\ Front(pi, e) /\ InPlace(pi) /\ Stops(e) /\ optind <= e
    BY DEF MeansInv, InSecondPass
  <2>2. optind = e
    BY <1>1, <2>1, SecondPassStops
  <2>3. k \in e .. Size /\ IsOption(argv[k])
    BY <1>3, <2>1, <2>2, TypedWords DEF LaterOptions, Arranged, WordsInv
  <2> QED
    BY <1>1, <2>1, <2>3 DEF Stops
<1>7. PICK pi \in [1 .. Size -> 1 .. Size] :
        /\ Arranged(pi) /\ Front(pi, optind) /\ InPlace(pi)
        /\ \A x \in Early : Stands(x, settings[x], Done(pi))
  BY <1>6 DEF MeansInv, InFirstPass
<1>8. PICK rho \in [1 .. Size -> 1 .. Size] :
        /\ Arranged(rho)'
        /\ \A m \in 1 .. Size : m < optind => rho[m] = pi[m]
        /\ \A m \in 1 .. Size : m = optind => ~IsArgument[rho[m]]
  <2>1. UNCHANGED <<typed, library>>
    BY <1>2
  <2> QED
    BY <1>1, <1>2, <1>3, <1>7, <2>1, PermuteArranges
<1>9. /\ typed' = typed /\ library' = library /\ optind' = optind /\ next' = next
      /\ settings' = settings /\ parsing' = "first"
  BY <1>4, <1>5, <1>6
<1>10. next = <<>> /\ At = optind /\ optind \in Nat \ {0} /\ Size \in Nat /\ At' = optind
  BY <1>1, <1>3, <1>9, TypedWords DEF AtOption, At, WordsInv
<1>11. Front(rho, optind)'
  <2>1. /\ optind \in 1 .. Size + 1
        /\ \A m \in 1 .. optind - 1 : pi[m] \notin Plain /\ (Hungry(pi[m]) => m + 1 < optind)
    BY ONLY <1>7, <1>10 DEF Front
  <2>2. \A m \in 1 .. optind - 1 : rho[m] = pi[m]
    BY ONLY <1>8, <1>10, <2>1
  <2>3. Size' = Size /\ Plain' = Plain /\ \A p : Hungry(p)' <=> Hungry(p)
    BY <1>9, SameWords
  <2>4. \A m \in 1 .. optind - 1 : rho[m] \notin Plain' /\ (Hungry(rho[m])' => m + 1 < optind)
    BY ONLY <2>1, <2>2, <2>3
  <2> QED
    BY ONLY <1>9, <2>1, <2>3, <2>4 DEF Front
<1>12. InPlace(rho)'
  <2>1. IsArgument' = IsArgument /\ Size' = Size /\ next' = <<>>
    BY <1>9, <1>10, SameWords
  <2> QED
    BY ONLY <1>8, <1>10, <2>1 DEF InPlace
<1>13. Done(rho)' = Done(pi)
  <2>1. Done(rho)' = ReadTo(rho, optind, 0) /\ Done(pi) = ReadTo(pi, optind, 0)
    <3>1. ReadTo(rho, optind, 0)' = ReadTo(rho, optind, 0)
      <4>1. PICK b : b = optind
        OBVIOUS
      <4>2. ReadTo(rho, b, 0)' = ReadTo(rho, b, 0)
        BY <1>9, SameReads
      <4> QED
        BY <1>9, <4>1, <4>2
    <3>2. Done(rho)' = ReadTo(rho, optind, 0)'
      BY ONLY <1>9, <1>10 DEF Done
    <3> QED
      BY ONLY <1>10, <3>1, <3>2 DEF Done
  <2>2. ASSUME NEW u \in Uses, NEW j \in 1 .. Size
        PROVE  (j < optind \/ (j = optind /\ u[2] <= 0)) <=> j < optind
    BY <1>3, LettersCount
  <2>3. ASSUME NEW j \in 1 .. Size, j < optind PROVE rho[j] = pi[j]
    BY ONLY <1>8, <2>3
  <2> QED
    BY ONLY <2>1, <2>2, <2>3 DEF ReadTo
<1>14. \A x \in Early : Stands(x, settings[x], Done(rho))'
  BY <1>7, <1>9, <1>13, DoneStands
<1> QED
  BY <1>8, <1>9, <1>11, <1>12, <1>14, SameWords DEF InFirstPass

-----------------------------------------------------------------------------
\* No word has been moved, and no letter read.
LEMMA MeansInitially == OptionsInit => MeansInv
<1> SUFFICES ASSUME OptionsInit PROVE MeansInv
  OBVIOUS
<1>1. /\ typed \in CommandLines /\ argv = typed /\ optind = 1 /\ next = <<>> /\ settings = Default
      /\ parsing = IF typed = <<>> THEN "rejected" ELSE "first"
  BY DEF OptionsInit
<1>2. WordsInv
  BY DaemonInitially DEF DaemonInv
<1>3. Size \in Nat /\ At = 1 /\ Len(argv) = Size
  BY <1>1, TypedWords DEF At, Size
<1>4. ASSUME parsing = "first" PROVE InFirstPass
  <2>1. PICK pi : pi = [k \in 1 .. Size |-> k]
    OBVIOUS
  <2>2. pi \in [1 .. Size -> 1 .. Size] /\ \A k \in 1 .. Size : pi[k] = k
    BY ONLY <2>1
  <2>3. ASSUME NEW k \in 1 .. Size, IsArgument[k] PROVE k > 1
    BY <1>1, <2>3, Kinds
  <2>4. Size > 0
    BY <1>1, <1>3, <1>4 DEF Size
  <2>5. Arranged(pi)
    <3>1. /\ \A j, k \in 1 .. Size : pi[j] = pi[k] => j = k
          /\ \A p \in 1 .. Size : \E k \in 1 .. Size : pi[k] = p
          /\ \A j, k \in 1 .. Size : j < k => pi[j] < pi[k]
          /\ \A k \in 1 .. Size : k > 1 => pi[k - 1] = pi[k] - 1
          /\ \A k \in 1 .. Size : pi[k] = Size => k = Size
      BY ONLY <1>3, <2>2
    <3>2. \A k \in 1 .. Size : argv[k] = typed[pi[k]]
      BY <1>1, <2>2
    <3>3. \A k \in 1 .. Size : IsArgument[pi[k]] => k > 1 /\ pi[k - 1] = pi[k] - 1
      BY <2>2, <2>3, <3>1
    <3> QED
      BY ONLY <1>3, <2>2, <3>1, <3>2, <3>3 DEF Arranged
  <2>6. Front(pi, optind)
    <3>1. 1 .. optind - 1 = {} /\ optind \in 1 .. Size + 1
      BY <1>1, <1>3
    <3> QED
      BY ONLY <3>1 DEF Front
  <2>7. InPlace(pi)
    <3>1. 1 \in 1 .. Size => ~IsArgument[pi[1]]
      BY <2>2, <2>3
    <3> QED
      BY ONLY <1>1, <1>3, <3>1 DEF InPlace
  <2>8. Done(pi) = {}
    <3>1. Done(pi) = ReadTo(pi, 1, 0)
      BY ONLY <1>1, <1>3 DEF Done
    <3>2. \A u \in Uses, j \in 1 .. Size : ~(j < 1 \/ (j = 1 /\ u[2] <= 0))
      BY <1>1, <1>3, LettersCount
    <3> QED
      BY ONLY <3>1, <3>2 DEF ReadTo
  <2>9. ASSUME NEW x \in Early PROVE Stands(x, settings[x], Done(pi))
    BY ONLY <1>1, <2>8 DEF Stands, Makers
  <2> QED
    BY <2>2, <2>5, <2>6, <2>7, <2>9 DEF InFirstPass
<1> QED
  BY <1>1, <1>4 DEF MeansInv

\* Nothing is lost while nothing happens.
LEMMA SameMeans ==
    ASSUME MeansInv, DaemonInv, UNCHANGED optionsVars
    PROVE  MeansInv'
<1>1. UNCHANGED <<typed, library, argv, optind, next, settings, tests, parsing>>
  BY DEF optionsVars
<1>2. /\ \A pi : Arranged(pi) => Arranged(pi)'
      /\ \A pi, e : Front(pi, e) => Front(pi, e)'
      /\ \A pi : InPlace(pi) => InPlace(pi)'
      /\ \A e : Stops(e) => Stops(e)'
  BY <1>1, SameWords DEF Arranged, Front, InPlace, Stops, At
<1>3. /\ \A pi, x : Stands(x, settings[x], Done(pi)) => Stands(x, settings[x], Done(pi))'
      /\ \A pi, e, x : Stands(x, settings[x], Before(pi, e)) => Stands(x, settings[x], Before(pi, e))'
  <2>1. ASSUME NEW pi PROVE Done(pi)' = Done(pi)
    BY <1>1, SameWords DEF Done, ReadTo, At
  <2>2. ASSUME NEW pi, NEW e PROVE Before(pi, e)' = Before(pi, e)
    BY <1>1, SameWords DEF Before, ReadTo
  <2> QED
    BY <1>1, <2>1, <2>2, DoneStands, BeforeStands
<1>4. parsing = "first" => InFirstPass'
  BY <1>1, <1>2, <1>3, SameWords DEF MeansInv, InFirstPass
<1>5. parsing = "second" => InSecondPass'
  BY <1>1, <1>2, <1>3, SameWords DEF MeansInv, InSecondPass
<1>6. parsing \in {"tests", "accepted"} => InTests'
  <2>1. {Parsed(word) : word \in Words}' = {Parsed(word) : word \in Words}
    BY <1>1 DEF Parsed
  <2>2. \A k : Parsed(argv[k])' = Parsed(argv[k])
    BY <1>1 DEF Parsed
  <2> QED
    BY <1>1, <1>2, <1>3, <2>1, <2>2, SameWords DEF MeansInv, InTests
<1> QED
  BY <1>1, <1>4, <1>5, <1>6, SameWords DEF MeansInv

\* One step of parse_settings(), or none.
LEMMA MeansStep == MeansInv /\ DaemonInv /\ [OptionsNext]_optionsVars => MeansInv'
<1> SUFFICES ASSUME MeansInv, DaemonInv, [OptionsNext]_optionsVars PROVE MeansInv'
  OBVIOUS
<1>1. CASE UNCHANGED optionsVars
  BY <1>1, SameMeans
<1>2. CASE Reject
  BY <1>2 DEF Reject, MeansInv
<1>3. ASSUME OptionsNext, ~Reject PROVE MeansInv'
  <2>1. typed' = typed /\ typed \in CommandLines
    BY <1>3 DEF OptionsNext, Permute, FirstPass, EndFirstPass, SecondPass, EndSecondPass, Rest, Reject,
                MeansInv
  <2>2. CASE Permute
    BY <1>3, <2>1, <2>2, PermuteMeans DEF MeansInv
  <2>3. CASE FirstPass
    BY <1>3, <2>1, <2>3, FirstPassMeans DEF MeansInv
  <2>4. CASE EndFirstPass
    BY <1>3, <2>1, <2>4, FirstPassEnds DEF MeansInv
  <2>5. CASE SecondPass
    BY <1>3, <2>1, <2>5, SecondPassMeans DEF MeansInv
  <2>6. CASE EndSecondPass
    BY <1>3, <2>1, <2>6, SecondPassEnds DEF MeansInv
  <2>7. CASE Rest
    <3>1. /\ parsing' \in {"tests", "accepted"} /\ InTests'
          /\ parsing' = "accepted" => optind' > Size
      BY <1>3, <2>7, RestMeans
    <3>2. Size' = Size
      BY <2>1, SameWords
    <3> QED
      BY <2>1, <3>1, <3>2 DEF MeansInv
  <2> QED
    BY <1>3, <2>2, <2>3, <2>4, <2>5, <2>6, <2>7 DEF OptionsNext
<1> QED
  BY <1>1, <1>2, <1>3

-----------------------------------------------------------------------------
\* What stands from place e to place m.
Holds(n, pi, e, m, T) ==
    /\ n \in Nat /\ pi \in [1 .. n -> 1 .. n]
    /\ \A j, k \in 1 .. n : pi[j] = pi[k] => j = k
    /\ e \in 1 .. n + 1 /\ m \in e - 1 .. n
    /\ \A p : p \in T <=> \E j \in e .. m : pi[j] = p

\* They are as many as the places.
LEMMA CountedPlaces ==
    ASSUME NEW n, NEW pi, NEW e, NEW m, NEW T, Holds(n, pi, e, m, T)
    PROVE  Cardinality(T) = m - e + 1
<1>0. /\ n \in Nat /\ pi \in [1 .. n -> 1 .. n]
      /\ \A j, k \in 1 .. n : pi[j] = pi[k] => j = k
      /\ e \in 1 .. n + 1 /\ m \in e - 1 .. n
      /\ \A p : p \in T <=> \E j \in e .. m : pi[j] = p
  BY Zenon DEF Holds
<1>1. PICK c \in Nat : c = m - e + 1
  BY <1>0
<1>2. PICK g : g = [a \in 1 .. c |-> pi[e + a - 1]]
  OBVIOUS
<1>3. \A a \in 1 .. c : e + a - 1 \in e .. m /\ e + a - 1 \in 1 .. n /\ g[a] = pi[e + a - 1]
  BY <1>0, <1>1, <1>2
<1>4. g \in [1 .. c -> T]
  BY <1>0, <1>2, <1>3
<1>5. \A a, j \in 1 .. c : g[a] = g[j] => a = j
  <2> SUFFICES ASSUME NEW a \in 1 .. c, NEW j \in 1 .. c, g[a] = g[j] PROVE a = j
    OBVIOUS
  <2>1. e + a - 1 = e + j - 1
    BY <1>0, <1>3
  <2> QED
    BY ONLY <1>0, <2>1, a \in 1 .. c, j \in 1 .. c, c \in Nat
<1>6. ASSUME NEW t \in T PROVE \E a \in 1 .. c : g[a] = t
  <2>1. PICK j \in e .. m : pi[j] = t
    BY <1>0
  <2>2. PICK a \in 1 .. c : a = j - e + 1
    BY <1>0, <1>1
  <2>3. e + a - 1 = j
    BY <1>0, <2>2
  <2> QED
    BY <1>3, <2>1, <2>3
<1>7. g \in Bijection(1 .. c, T)
  BY <1>4, <1>5, <1>6 DEF Bijection, Injection, Surjection, IsInjective
<1>8. IsFiniteSet(1 .. c) /\ Cardinality(1 .. c) = c
  BY FS_Interval
<1>9. Cardinality(T) = c
  BY <1>7, <1>8, FS_Bijection DEF ExistsBijection
<1> QED
  BY <1>1, <1>9

\* Where the tests were read there is nothing else.
LEMMA OnlyTests ==
    ASSUME MeansInv, DaemonInv, parsing = "accepted",
           NEW pi \in [1 .. Size -> 1 .. Size], NEW e \in 1 .. Size + 1,
           Arranged(pi), Front(pi, e), \A k \in e .. Size : argv[k].test
    PROVE  /\ \A k \in 1 .. Size : pi[k] \in Plain <=> k >= e
           /\ Before(pi, e) = Uses
<1>1. typed \in CommandLines /\ WordsInv /\ Size \in Nat
  BY TypedWords DEF MeansInv, DaemonInv
<1>2. ASSUME NEW k \in e .. Size PROVE k \in 1 .. Size /\ ~IsOption(argv[k])
  <2>1. k \in 1 .. Size
    BY <1>1
  <2> QED
    BY <1>1, <2>1, WordsAt
<1>3. ASSUME NEW k \in e .. Size, IsArgument[pi[k]] PROVE FALSE
  <2>1. k > 1 /\ k - 1 \in 1 .. Size /\ Hungry(pi[k - 1])
    BY <1>1, <1>2, <1>3, WordBefore
  <2>2. IsOption(argv[k - 1])
    BY <1>1, <2>1, WordsAt
  <2>3. k = e
    <3>1. ASSUME k # e PROVE k - 1 \in e .. Size
      BY ONLY <1>1, <3>1, k \in e .. Size, e \in 1 .. Size + 1
    <3> QED
      BY <1>2, <2>2, <3>1
  <2>4. k - 1 \in 1 .. e - 1 /\ ~(k - 1 + 1 < e)
    BY <1>1, <2>1, <2>3
  <2> QED
    BY <2>1, <2>4 DEF Front
<1>4. \A k \in 1 .. Size : k >= e => pi[k] \in Plain
  <2> SUFFICES ASSUME NEW k \in 1 .. Size, k >= e PROVE pi[k] \in Plain
    OBVIOUS
  <2>1. k \in e .. Size
    OBVIOUS
  <2> QED
    BY <1>1, <1>2, <1>3, <2>1, WordsAt
<1>5. \A k \in 1 .. Size : ~(k >= e) => pi[k] \notin Plain
  <2>1. \A k \in 1 .. Size : ~(k >= e) => k \in 1 .. e - 1
    BY <1>1
  <2> QED
    BY <2>1 DEF Front
<1>6. ASSUME NEW u \in Uses PROVE u \in Before(pi, e)
  <2>1. u[1] \in 1 .. Size /\ u[2] \in DOMAIN typed[u[1]].letters
    BY <1>1, LettersCount
  <2>2. IsOption(typed[u[1]])
    BY <2>1, EmptySeq DEF IsOption
  <2>3. u[1] \notin Plain
    BY <2>2 DEF Plain
  <2>4. PICK j \in 1 .. Size : pi[j] = u[1]
    <3>1. \A p \in 1 .. Size : \E j \in 1 .. Size : pi[j] = p
      BY Zenon DEF Arranged
    <3> QED
      BY <2>1, <3>1
  <2>5. j < e
    BY <1>1, <1>4, <2>3, <2>4
  <2> QED
    BY <2>4, <2>5 DEF Before, ReadTo
<1> QED
  BY <1>4, <1>5, <1>6 DEF Before, ReadTo

\* All words have been read, and that is what the settings and the tests say.
LEMMA MeansImplies == MeansInv /\ DaemonInv => MeansWhatItSays
<1> SUFFICES ASSUME MeansInv, DaemonInv, parsing = "accepted" PROVE MeansWhatItSays
  BY DEF MeansWhatItSays
<1>1. PICK pi, e :
        /\ pi \in [1 .. Size -> 1 .. Size] /\ e \in 1 .. Size + 1
        /\ Arranged(pi) /\ Front(pi, e) /\ optind \in e .. Size + 1
        /\ \A x \in DOMAIN Default : Stands(x, settings[x], Before(pi, e))
        /\ Len(tests) = optind - e
        /\ \A k \in e .. optind - 1 : argv[k].test /\ tests[k - e + 1] = Parsed(argv[k])
  BY DEF MeansInv, InTests
<1>2. typed \in CommandLines /\ WordsInv /\ Size \in Nat /\ optind = Size + 1
  <2>1. typed \in CommandLines /\ WordsInv /\ optind > Size
    BY DEF MeansInv, DaemonInv
  <2>2. Size \in Nat
    BY <2>1, TypedWords
  <2>3. optind = Size + 1
    BY ONLY <1>1, <2>1, <2>2
  <2> QED
    BY <2>1, <2>2, <2>3
<1>3. Len(tests) = Size - e + 1 /\ \A k \in e .. Size : argv[k].test /\ tests[k - e + 1] = Parsed(argv[k])
  <2>1. optind - e = Size - e + 1 /\ optind - 1 = Size
    BY ONLY <1>1, <1>2
  <2> QED
    BY ONLY <1>1, <2>1
<1>4. /\ \A k \in 1 .. Size : pi[k] \in Plain <=> k >= e
      /\ Before(pi, e) = Uses
  BY <1>1, <1>3, OnlyTests
<1>5. ASSUME NEW x \in DOMAIN Default
      PROVE  IF Setters(x) = {} THEN settings[x] = Default[x]
             ELSE \E u \in Setters(x) :
                      IsLast(u, Setters(x)) /\ settings[x] = Change(LetterAt(u), ArgumentAt(u))[x]
  <2>1. Stands(x, settings[x], Uses) /\ Makers(x, Uses) = Setters(x)
    BY <1>1, <1>4 DEF Makers, Setters
  <2> QED
    BY <2>1 DEF Stands, Value
<1>6. /\ \A j, k \in 1 .. Size : pi[j] = pi[k] => j = k
      /\ \A p \in 1 .. Size : \E k \in 1 .. Size : pi[k] = p
      /\ \A j, k \in 1 .. Size : j < k /\ (pi[j] \in Plain <=> pi[k] \in Plain) => pi[j] < pi[k]
  BY <1>1, Zenon DEF Arranged
<1>7. ASSUME NEW p \in Plain PROVE \E k \in e .. Size : pi[k] = p
  <2>1. PICK k \in 1 .. Size : pi[k] = p
    BY <1>6 DEF Plain, Size
  <2>2. k \in e .. Size
    BY <1>1, <1>2, <1>4, <2>1
  <2> QED
    BY <2>1, <2>2
<1>8. \A k \in e .. Size : k \in 1 .. Size /\ pi[k] \in Plain
  BY <1>1, <1>2, <1>4
<1>9. Cardinality(Plain) = Len(tests)
  <2>1. \A p : p \in Plain <=> \E k \in e .. Size : pi[k] = p
    BY <1>7, <1>8
  <2>2. Size \in e - 1 .. Size
    BY <1>1, <1>2
  <2>3. Cardinality(Plain) = Size - e + 1
    <3>1. Holds(Size, pi, e, Size, Plain)
      BY ONLY <1>1, <1>2, <1>6, <2>1, <2>2 DEF Holds
    <3> QED
      BY ONLY <3>1, CountedPlaces
  <2> QED
    BY <1>3, <2>3
<1>10. ASSUME NEW k \in e .. Size PROVE Rank(pi[k]) = k - e + 1
  <2>1. ASSUME NEW m \in e .. Size PROVE pi[m] <= pi[k] <=> m <= k
    <3>1. m \in 1 .. Size /\ k \in 1 .. Size /\ pi[m] \in Plain /\ pi[k] \in Plain
      BY <1>8
    <3>2. m < k => pi[m] < pi[k]
      BY <1>6, <3>1
    <3>3. k < m => pi[k] < pi[m]
      BY <1>6, <3>1
    <3>4. pi[m] \in 1 .. Size /\ pi[k] \in 1 .. Size
      BY <1>1, <3>1
    <3>5. PICK x, y : x = pi[m] /\ y = pi[k]
      OBVIOUS
    <3>6. m = k => x = y
      BY <3>5
    <3> QED
      BY ONLY <1>2, <3>1, <3>2, <3>3, <3>4, <3>5, <3>6
  <2> DEFINE T == {j \in Plain : j <= pi[k]}
  <2>2. \A p : p \in T <=> \E m \in e .. k : pi[m] = p
    <3>1. ASSUME NEW p \in T PROVE \E m \in e .. k : pi[m] = p
      <4>1. PICK m \in e .. Size : pi[m] = p
        BY <1>7
      <4>2. m <= k
        BY <2>1, <4>1
      <4> QED
        BY <1>1, <1>2, <4>1, <4>2
    <3>2. ASSUME NEW m \in e .. k PROVE pi[m] \in T
      <4>1. m \in e .. Size /\ m <= k
        BY <1>1, <1>2
      <4> QED
        BY <1>8, <2>1, <4>1
    <3> QED
      BY <3>1, <3>2
  <2>3. k \in e - 1 .. Size
    BY <1>1, <1>2
  <2> HIDE DEF T
  <2>4. Cardinality(T) = k - e + 1
    <3>1. Holds(Size, pi, e, k, T)
      BY ONLY <1>1, <1>2, <1>6, <2>2, <2>3 DEF Holds
    <3> QED
      BY ONLY <3>1, CountedPlaces
  <2> QED
    BY <2>4 DEF Rank, T
<1>11. ASSUME NEW p \in Plain
       PROVE  tests[Rank(p)] = [word |-> typed[p], host |-> settings.server_host, port |-> settings.port]
  <2>1. PICK k \in e .. Size : pi[k] = p
    BY <1>7
  <2>2. Rank(p) = k - e + 1 /\ argv[k] = typed[p]
    BY <1>1, <1>8, <1>10, <2>1 DEF Arranged
  <2> QED
    BY <1>3, <2>1, <2>2 DEF Parsed
<1> QED
  BY <1>5, <1>9, <1>11 DEF MeansWhatItSays

\* Whatever the command line, with either getopt(): a command line that is
\* accepted does what it says, each setting what its last option makes it, the
\* tests in their order.
THEOREM MeansWhatItSaysCorrect == OptionsSpec => []MeansWhatItSays
<1>1. OptionsSpec => []DaemonInv
  BY DaemonInitially, OptionsStep, PTL DEF OptionsSpec
<1>2. OptionsSpec => []MeansInv
  BY <1>1, MeansInitially, MeansStep, PTL DEF OptionsSpec
<1> QED
  BY <1>1, <1>2, MeansImplies, PTL

-----------------------------------------------------------------------------
(***************************************************************************)
(* The types of the options: no settings are made that the program asserts *)
(* against.                                                                *)
(***************************************************************************)
\* What each setting may be.
Flags == {"daemon", "verbose", "dirty", "timestamp", "disable_nagles", "reverse", "quiet"}

Fits(x, a) ==
    /\ x \in Flags => a \in BOOLEAN
    /\ x \in {"duration", "message_size"} => a \in Nat
    /\ x = "rate" => a \in Nat \cup {Unlimited}
    /\ x = "port" => a \in 1 .. 2 ^ 16 - 1
    /\ x = "confidence" => a \in Nat \X Nat
    /\ x = "iterations" => a \in Nat \X (Nat \ {0})
    /\ x = "server_host" => a \in Hosts \cup {None}
    /\ x = "threaded_model" => a \in {"t", "p"}
    /\ x = "type" => a \in {"stream", "datagram"}
    /\ x = "protocol" => a \in {"tcp", "udp"}

Fit(changes) == \A x \in DOMAIN changes : Fits(x, changes[x])

LEMMA DefaultsFit == Fit(Default)
<1>1. ASSUME NEW x \in Flags PROVE Default[x] = FALSE
  BY <1>1 DEF Flags, Default
<1>2. ASSUME NEW x \in Flags PROVE Default[x] \in BOOLEAN
  BY <1>1, Zenon
<1>3. /\ Default["duration"] = 10 /\ Default["message_size"] = 1024 /\ Default["rate"] = Unlimited
      /\ Default["port"] = 1234 /\ Default["confidence"] = <<0, 0>> /\ Default["iterations"] = <<1, 1>>
      /\ Default["server_host"] = None /\ Default["threaded_model"] = "t"
      /\ Default["type"] = "stream" /\ Default["protocol"] = "tcp"
  BY DEF Default
<1>4. 1234 \in 1 .. 2 ^ 16 - 1
  OBVIOUS
<1>5. ASSUME NEW x \in DOMAIN Default PROVE Fits(x, Default[x])
  BY <1>2, <1>3, <1>4 DEF Fits
<1> QED
  BY <1>5 DEF Fit

LEMMA AllFit ==
    ASSUME NEW s, s = [x \in DOMAIN Default |-> s[x]], Fit(s)
    PROVE  s \in Settings
<1>1. DOMAIN s = DOMAIN Default
  OBVIOUS
<1>2. ASSUME NEW x \in Flags PROVE s[x] \in BOOLEAN
  <2>1. x \in DOMAIN s
    BY <1>1 DEF Flags, Default
  <2> QED
    BY <1>2, <2>1, Zenon DEF Fit, Fits
<1>3. /\ s.daemon \in BOOLEAN /\ s.verbose \in BOOLEAN /\ s.dirty \in BOOLEAN /\ s.timestamp \in BOOLEAN
      /\ s.disable_nagles \in BOOLEAN /\ s.reverse \in BOOLEAN /\ s.quiet \in BOOLEAN
  BY <1>2, Zenon DEF Flags
<1>4. /\ s.duration \in Nat /\ s.message_size \in Nat /\ s.rate \in Nat \cup {Unlimited}
      /\ s.port \in 1 .. 2 ^ 16 - 1 /\ s.confidence \in Nat \X Nat
      /\ s.iterations \in Nat \X (Nat \ {0}) /\ s.server_host \in Hosts \cup {None}
      /\ s.threaded_model \in {"t", "p"} /\ s.type \in {"stream", "datagram"}
      /\ s.protocol \in {"tcp", "udp"}
  <2>1. {"duration", "message_size", "rate", "port", "confidence", "iterations", "server_host",
         "threaded_model", "type", "protocol"} \subseteq DOMAIN s
    BY <1>1 DEF Default
  <2> QED
    BY <2>1, Zenon DEF Fit, Fits
<1> QED
  BY <1>1, <1>3, <1>4 DEF Settings, Default

\* The CASEs of MinMax and LevelInterval.
LEMMA HowMany == ASSUME NEW s \in Seq(Nat) PROVE Len(s) = 0 \/ Len(s) = 1 \/ Len(s) > 1
<1>1. PICK n \in Nat : n = Len(s)
  OBVIOUS
<1>2. n = 0 \/ n = 1 \/ n > 1
  BY ONLY <1>1
<1> QED
  BY <1>1, <1>2

LEMMA ChangesFit ==
    ASSUME NEW c, NEW word \in Words, Makes(c, word)
    PROVE  Fit(Change(c, word))
<1>1. word.numbers \in Seq(Nat) /\ Len(word.numbers) \in Nat
  BY DEF Words, Word
<1>2. CASE c \in DOMAIN Flag
  <2>1. PICK y \in Flags : y = Flag[c]
    BY <1>2 DEF Flag, Flags
  <2>2. c \notin DOMAIN Number /\ c \notin {"i", "c", "H", "m", "t", "u"}
    BY <1>2 DEF Flag, Number
  <2>3. Change(c, word) = [x \in {y} |-> TRUE]
    BY <1>2, <2>1, <2>2 DEF Change
  <2>4. Fits(y, TRUE)
    BY <2>1 DEF Flags, Fits
  <2> QED
    BY <2>3, <2>4 DEF Fit
<1>3. CASE c \in DOMAIN Number
  <2>1. PICK y, a : y = Number[c] /\ a = atoi(c, word)
    OBVIOUS
  <2>2. c \notin DOMAIN Flag /\ c \notin {"i", "c", "H", "m", "t", "u"}
    BY <1>3 DEF Flag, Number
  <2>3. Change(c, word) = [x \in {y} |-> a] /\ a # 0
    BY <1>3, <2>1, <2>2 DEF Change, Makes
  <2>4. Fits(y, a)
    <3>1. word.numbers # <<>> /\ word.numbers[1] \in Nat
      BY <1>1, <2>1, <2>3 DEF atoi
    <3>2. CASE c = "p"
      <4>1. PICK w \in Nat \ {0} : w = 2 ^ 16
        OBVIOUS
      <4>2. a = word.numbers[1] % w
        BY <2>1, <3>1, <3>2, <4>1 DEF atoi
      <4>3. a \in 1 .. w - 1
        BY <2>3, <3>1, <4>2
      <4>4. y = "port"
        BY <2>1, <3>2 DEF Number
      <4>5. a \in 1 .. 2 ^ 16 - 1
        BY <4>1, <4>3, Zenon
      <4> QED
        BY <4>4, <4>5, Zenon DEF Fits, Flags
    <3>3. CASE c # "p"
      <4>1. a \in Nat
        BY <2>1, <3>1, <3>3 DEF atoi
      <4>2. y \in {"duration", "message_size", "rate"}
        BY <1>3, <2>1, <3>3 DEF Number
      <4> QED
        BY <4>1, <4>2 DEF Fits, Flags
    <3> QED
      BY <3>2, <3>3
  <2> QED
    BY <2>3, <2>4 DEF Fit
<1>4. CASE c = "i"
  <2>1. c \notin DOMAIN Flag /\ c \notin DOMAIN Number
    BY <1>4 DEF Flag, Number
  <2>2. PICK a : a = MinMax(word)
    OBVIOUS
  <2>3. Change(c, word) = [iterations |-> a] /\ a[2] # 0
    BY <1>4, <2>1, <2>2 DEF Change, Makes
  <2>4. a \in Nat \X Nat
    <3>1. CASE Len(word.numbers) = 0
      BY <2>2, <3>1 DEF MinMax
    <3>2. CASE Len(word.numbers) = 1
      BY <1>1, <2>2, <3>2 DEF MinMax
    <3>3. CASE Len(word.numbers) > 1
      <4>1. word.numbers[1] \in Nat /\ word.numbers[2] \in Nat
        BY <1>1, <3>3
      <4>2. a = <<word.numbers[1], word.numbers[2]>>
        BY <1>1, <2>2, <3>3 DEF MinMax
      <4> QED
        BY <4>1, <4>2
    <3>4. Len(word.numbers) = 0 \/ Len(word.numbers) = 1 \/ Len(word.numbers) > 1
      BY <1>1, HowMany
    <3> QED
      BY ONLY <3>1, <3>2, <3>3, <3>4
  <2>5. Fits("iterations", a)
    BY <2>3, <2>4 DEF Fits, Flags
  <2> QED
    BY <2>3, <2>5 DEF Fit
<1>5. CASE c = "c"
  <2>1. c \notin DOMAIN Flag /\ c \notin DOMAIN Number
    BY <1>5 DEF Flag, Number
  <2>2. PICK a : a = LevelInterval(word)
    OBVIOUS
  <2>3. Change(c, word) = [confidence |-> a]
    BY <1>5, <2>1, <2>2 DEF Change
  <2>4. a \in Nat \X Nat
    <3>1. CASE Len(word.numbers) = 0
      BY <2>2, <3>1 DEF LevelInterval
    <3>2. CASE Len(word.numbers) = 1
      BY <1>1, <2>2, <3>2 DEF LevelInterval
    <3>3. CASE Len(word.numbers) > 1
      <4>1. word.numbers[1] \in Nat /\ word.numbers[2] \in Nat
        BY <1>1, <3>3
      <4>2. a = <<word.numbers[1], word.numbers[2]>>
        BY <1>1, <2>2, <3>3 DEF LevelInterval
      <4> QED
        BY <4>1, <4>2
    <3>4. Len(word.numbers) = 0 \/ Len(word.numbers) = 1 \/ Len(word.numbers) > 1
      BY <1>1, HowMany
    <3> QED
      BY ONLY <3>1, <3>2, <3>3, <3>4
  <2>5. Fits("confidence", a)
    BY <2>4 DEF Fits, Flags
  <2> QED
    BY <2>3, <2>5 DEF Fit
<1>6. CASE c \in {"H", "m"}
  <2>1. c \notin DOMAIN Flag /\ c \notin DOMAIN Number
    BY <1>6 DEF Flag, Number
  <2>2. PICK y, a : y = (IF c = "H" THEN "server_host" ELSE "threaded_model") /\ a = word.text
    OBVIOUS
  <2>3. Change(c, word) = [x \in {y} |-> a]
    <3>1. CASE c = "H"
      BY <2>1, <2>2, <3>1 DEF Change
    <3>2. CASE c = "m"
      BY <2>1, <2>2, <3>2 DEF Change
    <3> QED
      BY <1>6, <3>1, <3>2
  <2>4. Fits(y, a)
    <3>1. CASE c = "H"
      BY <2>1, <2>2, <3>1 DEF Makes, Fits, Flags
    <3>2. CASE c = "m"
      BY <2>1, <2>2, <3>2 DEF Makes, Fits, Flags
    <3> QED
      BY <1>6, <3>1, <3>2
  <2> QED
    BY <2>3, <2>4 DEF Fit
<1>7. CASE c \in {"t", "u"}
  <2>1. c \notin DOMAIN Flag /\ c \notin DOMAIN Number
    BY <1>7 DEF Flag, Number
  <2>2. Change(c, word) \in {[type |-> "stream", protocol |-> "tcp"], [type |-> "datagram", protocol |-> "udp"]}
    BY <1>7, <2>1 DEF Change
  <2>3. /\ Fits("type", "stream") /\ Fits("type", "datagram")
        /\ Fits("protocol", "tcp") /\ Fits("protocol", "udp")
    BY DEF Fits, Flags
  <2>4. PICK s : s = Change(c, word)
    OBVIOUS
  <2>5. DOMAIN s = {"type", "protocol"} /\ Fits("type", s["type"]) /\ Fits("protocol", s["protocol"])
    BY <2>2, <2>3, <2>4
  <2> QED
    BY <2>4, <2>5 DEF Fit
<1>8. CASE c \notin DOMAIN Flag /\ c \notin DOMAIN Number /\ c \notin {"i", "c", "H", "m", "t", "u"}
  <2>1. Change(c, word) = <<>>
    BY <1>8 DEF Change
  <2> QED
    BY <2>1 DEF Fit
<1> QED
  BY <1>2, <1>3, <1>4, <1>5, <1>6, <1>7, <1>8

\* getopt() is on the command line, and no word is lost.
OnTheLine ==
    /\ Len(argv) = Size /\ optind \in 1 .. Size + 1
    /\ parsing \in {"first", "second", "tests", "accepted", "rejected"}

OptionsTypes == Fit(settings) /\ OnTheLine

\* So it is as long as nothing has been rejected.
NotRejected == parsing \in {"first", "second", "tests", "accepted"} => OnTheLine

LEMMA MeansOnTheLine == MeansInv /\ DaemonInv => NotRejected
<1> SUFFICES ASSUME MeansInv, WordsInv, parsing \in {"first", "second", "tests", "accepted"}
             PROVE  OnTheLine
  BY DEF NotRejected, DaemonInv
<1>1. CASE parsing = "first"
  BY <1>1 DEF MeansInv, InFirstPass, Arranged, Front, OnTheLine
<1>2. CASE parsing = "second"
  <2>1. PICK pi, e : e \in 1 .. Size + 1 /\ Arranged(pi) /\ optind <= e
    BY <1>2 DEF MeansInv, InSecondPass
  <2>2. optind \in 1 .. Size + 1
    BY <2>1, TypedWords DEF WordsInv, MeansInv
  <2> QED
    BY <1>2, <2>1, <2>2 DEF Arranged, OnTheLine
<1>3. CASE parsing \in {"tests", "accepted"}
  <2>1. PICK pi, e : e \in 1 .. Size + 1 /\ Arranged(pi) /\ optind \in e .. Size + 1
    BY <1>3 DEF MeansInv, InTests
  <2>2. optind \in 1 .. Size + 1
    BY <2>1, TypedWords DEF MeansInv
  <2> QED
    BY <1>3, <2>1, <2>2 DEF Arranged, OnTheLine
<1> QED
  BY <1>1, <1>2, <1>3

LEMMA TypesInitially == OptionsInit => OptionsTypes
<1> SUFFICES ASSUME OptionsInit PROVE OptionsTypes
  OBVIOUS
<1>1. Fit(settings)
  BY DefaultsFit DEF OptionsInit
<1>2. OnTheLine
  <2>1. Len(argv) = Size /\ optind = 1 /\ parsing \in {"first", "rejected"}
    BY DEF OptionsInit, Size
  <2>2. Size \in Nat
    BY TypedWords DEF OptionsInit
  <2> QED
    BY <2>1, <2>2 DEF OnTheLine
<1> QED
  BY <1>1, <1>2 DEF OptionsTypes

\* What a letter changes fits, and leaves the rest.
LEMMA ChangedFits ==
    ASSUME SettingsInv, Fit(settings), NEW changes, Fit(changes), settings' = Changed(changes)
    PROVE  Fit(settings')
<1>1. DOMAIN settings = DOMAIN Default
  BY DEF SettingsInv
<1>2. DOMAIN settings' = DOMAIN settings
  BY DEF Changed
<1>3. ASSUME NEW x \in DOMAIN settings
      PROVE  settings'[x] = IF x \in DOMAIN changes THEN changes[x] ELSE settings[x]
  BY <1>3 DEF Changed
<1> QED
  BY <1>2, <1>3 DEF Fit

LEMMA TypesStep ==
    MeansInv /\ DaemonInv /\ NotRejected' /\ OptionsTypes /\ [OptionsNext]_optionsVars
        => OptionsTypes'
<1> SUFFICES ASSUME MeansInv, DaemonInv, NotRejected', OptionsTypes, [OptionsNext]_optionsVars
             PROVE  OptionsTypes'
  OBVIOUS
<1>1. typed' = typed /\ Size' = Size
  BY SameWords DEF OptionsNext, Permute, FirstPass, EndFirstPass, SecondPass, EndSecondPass, Rest, Reject,
                   MeansInv, optionsVars
<1>2. CASE Reject \/ UNCHANGED optionsVars
  <2>1. UNCHANGED <<argv, optind, settings>> /\ parsing' \in {parsing, "rejected"}
    BY <1>2 DEF Reject, optionsVars
  <2> QED
    BY <1>1, <2>1 DEF OptionsTypes, OnTheLine
<1>3. ASSUME OptionsNext, ~Reject PROVE OptionsTypes'
  <2>1. OnTheLine'
    <3>1. parsing' \in {"first", "second", "tests", "accepted"}
      BY <1>3 DEF OptionsNext, Permute, FirstPass, EndFirstPass, SecondPass, EndSecondPass, Rest
    <3> QED
      BY <3>1 DEF NotRejected
  <2>2. CASE FirstPass
    <3>1. settings' = IF Letter \in {"D", "v"} THEN Changed(Change(Letter, Argument)) ELSE settings
      BY <1>3, <2>2 DEF FirstPass
    <3>2. CASE Letter \in {"D", "v"}
      <4>1. PICK y : y = IF Letter = "D" THEN "daemon" ELSE "verbose"
        OBVIOUS
      <4>2. Change(Letter, Argument) = [x \in {y} |-> TRUE]
        <5>1. Change(Letter, Argument) = [x \in {IF Letter = "D" THEN "daemon" ELSE "verbose"} |-> TRUE]
          BY <3>2, LettersOfDaemon
        <5> QED
          BY <4>1, <5>1, Zenon
      <4>3. Fits(y, TRUE)
        BY <4>1 DEF Fits, Flags
      <4>4. Fit(Change(Letter, Argument))
        BY <4>2, <4>3 DEF Fit
      <4> QED
        BY <2>1, <3>1, <3>2, <4>4, ChangedFits DEF OptionsTypes, DaemonInv
    <3>3. CASE Letter \notin {"D", "v"}
      BY <2>1, <3>1, <3>3 DEF OptionsTypes
    <3> QED
      BY <3>2, <3>3
  <2>3. CASE SecondPass
    <3>1. /\ settings' = IF Letter \in ForDaemon THEN settings ELSE Changed(Change(Letter, Argument))
          /\ Makes(Letter, Argument) /\ Getopt /\ AtOption
      BY <1>3, <2>3 DEF SecondPass
    <3>2. PICK word \in Words : Change(Letter, word) = Change(Letter, Argument) /\ Makes(Letter, word)
      <4>1. /\ argv \in Seq(Words) /\ Len(argv) = Size /\ Size \in Nat /\ At \in 1 .. Size
            /\ Letter \in TakesArgument => Follow = At + 1
        BY <3>1, Reads, TypedWords DEF DaemonInv, WordsInv, MeansInv, OptionsTypes, OnTheLine
      <4>2. CASE Letter \in TakesArgument
        <5>1. optind' = Follow + 1 /\ optind' <= Size + 1
          BY <1>1, <2>1, <3>1, <4>2 DEF Getopt, OnTheLine
        <5>2. Follow \in 1 .. Size
          BY <4>1, <4>2, <5>1
        <5>3. Argument \in Words
          BY <4>1, <4>2, <5>2 DEF Argument
        <5> QED
          BY <3>1, <5>3
      <4>3. CASE Letter \notin TakesArgument
        <5>1. argv[At] \in Words
          BY <4>1
        <5>2. Change(Letter, argv[At]) = Change(Letter, Argument)
          BY <4>3, NoArgument
        <5>3. Makes(Letter, argv[At])
          BY <4>3 DEF Makes, Number, TakesArgument
        <5> QED
          BY <5>1, <5>2, <5>3
      <4> QED
        BY <4>2, <4>3
    <3>3. Fit(Change(Letter, Argument))
      <4>1. Fit(Change(Letter, word))
        BY <3>2, ChangesFit
      <4> QED
        BY <3>2, <4>1, Zenon
    <3> QED
      BY <2>1, <3>1, <3>3, ChangedFits DEF OptionsTypes, DaemonInv
  <2>4. CASE Permute \/ EndFirstPass \/ EndSecondPass \/ Rest
    <3>1. settings' = settings
      BY <1>3, <2>4 DEF Permute, EndFirstPass, EndSecondPass, Rest, Reject
    <3> QED
      BY <2>1, <3>1 DEF OptionsTypes
  <2> QED
    BY <1>3, <2>2, <2>3, <2>4 DEF OptionsNext
<1> QED
  BY <1>2, <1>3

LEMMA TypesImply == DaemonInv /\ OptionsTypes => OptionsTypeOK
<1> SUFFICES ASSUME DaemonInv, OptionsTypes PROVE OptionsTypeOK
  OBVIOUS
<1>1. argv \in Seq(Word)
  BY DEF DaemonInv, WordsInv, Words
<1>2. settings \in Settings
  BY AllFit DEF DaemonInv, SettingsInv, OptionsTypes
<1> QED
  BY <1>1, <1>2 DEF OptionsTypes, OnTheLine, OptionsTypeOK, Size

\* parse.c:127-451: whatever the command line, each setting is one that the program
\* does not assert against, and getopt() is never past the end.
THEOREM OptionsTypeCorrect == OptionsSpec => []OptionsTypeOK
<1>1. OptionsSpec => []DaemonInv
  BY DaemonInitially, OptionsStep, PTL DEF OptionsSpec
<1>2. OptionsSpec => []MeansInv
  BY <1>1, MeansInitially, MeansStep, PTL DEF OptionsSpec
<1>3. OptionsSpec => []OptionsTypes
  BY <1>1, <1>2, MeansOnTheLine, TypesInitially, TypesStep, PTL DEF OptionsSpec
<1> QED
  BY <1>1, <1>3, TypesImply, PTL
=============================================================================
