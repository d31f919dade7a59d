-------------------------------- MODULE Wire --------------------------------
(***************************************************************************)
(* The byte stream of a control connection (serialise.c): send_settings()  *)
(* at one end and read_settings() at the other, or send_results() several  *)
(* times and as many read_results().  In RemoteRun these are messages that *)
(* arrive or do not.  A recv() returns any part of what has been sent.     *)
(*                                                                         *)
(* A byte is named by the message it is part of and its place in there.    *)
(***************************************************************************)
EXTENDS Integers, Sequences
Sizes == INSTANCE FiniteSetsExt

CONSTANTS
    HeaderSize,    \* sizeof(struct network_settings)
    StatsSize,     \* sizeof(struct network_stats)
    TextSizes,     \* the lengths of a test in text
    TestsWidth,    \* net_settings.tests is a uint8_t: 2^8
    MaxTests, MaxResults

ASSUME SizesAssumption ==
    /\ HeaderSize \in Nat \ {0} /\ StatsSize \in Nat \ {0}
    /\ TextSizes \subseteq Nat \ {0} /\ TestsWidth \in Nat \ {0}
    /\ MaxTests \in Nat /\ MaxResults \in Nat

VARIABLES
    kind,          \* what the connection is used for: "settings" or "results"
    texts,         \* settings->test of the sender: the length of each, in text
    message,       \* the next message to be sent
    open,          \* has the sender not closed the connection
    wire,          \* the bytes sent and not read
    buffer,        \* what the loop of read_results() has read
    buflen,        \* the length byte of the test that is being read
    expected,      \* settings->tests of the reader
    parsed,        \* settings->test of the reader
    results,       \* the statistics read
    reading        \* of the reader

sender   == <<kind, texts, message, open>>
received == <<buffer, buflen, expected, parsed, results, reading>>
wireVars == <<sender, wire, received>>

ReaderSteps == {"header", "length", "text", "stats", "read", "failed"}

\* What may be sent: any tests with the settings, and no test with results.
TestLists(of) == UNION {[1 .. n -> TextSizes] : n \in 0 .. (IF of = "settings" THEN MaxTests ELSE 0)}

WireInit ==
    /\ kind \in {"settings", "results"}
    /\ texts \in TestLists(kind)
    /\ message = IF kind = "settings" THEN 0 ELSE 1
    /\ open = TRUE /\ wire = <<>>
    /\ buffer = <<>> /\ buflen = 0 /\ expected = 0 /\ parsed = <<>>
    /\ results = <<>>
    /\ reading = IF kind = "settings" THEN "header" ELSE "stats"

-----------------------------------------------------------------------------
(***************************************************************************)
(* send_settings() and send_results()                                      *)
(***************************************************************************)

LengthByte(n) == n

Bytes(message_, first, size) ==
    [k \in 1 .. size |-> [of |-> message_, place |-> first + k - 1, value |-> k]]

Header  == [Bytes(0, 1, HeaderSize) EXCEPT ![HeaderSize].value = Len(texts) % TestsWidth]
Text(m) == <<[of |-> m, place |-> 0, value |-> LengthByte(texts[m])]>> \o Bytes(m, 1, texts[m])

Message(m) == CASE kind = "results" -> Bytes(m, 1, StatsSize)
                [] kind = "settings" /\ m = 0 -> Header
                [] OTHER -> Text(m)
MessageNumbers == IF kind = "settings" THEN 0 .. Len(texts) ELSE 1 .. MaxResults

SendMessage ==
    /\ open /\ message \in MessageNumbers
    /\ wire' = wire \o Message(message)
    /\ message' = message + 1
    /\ UNCHANGED <<kind, texts, open, received>>

\* A send() fails, perhaps after some bytes, and the sender closes the connection.
SendFails ==
    /\ open /\ message \in MessageNumbers
    /\ \E n \in 0 .. Len(Message(message)) - 1 : wire' = wire \o SubSeq(Message(message), 1, n)
    /\ open' = FALSE
    /\ UNCHANGED <<kind, texts, message, received>>

-----------------------------------------------------------------------------
(***************************************************************************)
(* read_settings() and read_results()                                      *)
(***************************************************************************)

\* What recv() may return when it is asked for n bytes.
Recv(n) == {SubSeq(wire, 1, k) : k \in 1 .. Sizes!Min({n, Len(wire)})}
Took(bytes) == wire' = SubSeq(wire, Len(bytes) + 1, Len(wire))

ReadHeader ==
    /\ reading = "header"
    /\ \E bytes \in Recv(HeaderSize) :
          /\ Took(bytes)
          /\ IF Len(bytes) = HeaderSize
             THEN /\ expected' = bytes[HeaderSize].value
                  /\ reading' = IF expected' = 0 THEN "read" ELSE "length"
             ELSE reading' = "failed" /\ UNCHANGED expected
    /\ UNCHANGED <<sender, buffer, buflen, parsed, results>>

ReadLength ==
    /\ reading = "length"
    /\ \E bytes \in Recv(1) : Took(bytes) /\ buflen' = bytes[1].value
    /\ reading' = "text"
    /\ UNCHANGED <<sender, buffer, expected, parsed, results>>

IsComplete(bytes) == Len(bytes) = buflen

\* parse_test(): part of a test may be another test.
Another == 0
ParsedTest(bytes) ==
    IF \E m \in DOMAIN texts : bytes = Bytes(m, 1, texts[m]) THEN bytes[1].of ELSE Another

AllParsed == Len(parsed') = expected

ReadText ==
    /\ reading = "text"
    /\ \E bytes \in Recv(buflen) :
          /\ Took(bytes)
          /\ IF IsComplete(bytes)
             THEN /\ parsed' = Append(parsed, ParsedTest(bytes))
                  /\ reading' = IF AllParsed THEN "read" ELSE "length"
             ELSE reading' = "failed" /\ UNCHANGED parsed
    /\ UNCHANGED <<sender, buffer, buflen, expected, results>>

\* Mutant: every recv() asks for the whole structure.
p_len_Mutant == StatsSize
p_len == StatsSize - Len(buffer)

ReadStats ==
    /\ reading = "stats"
    /\ \E bytes \in Recv(p_len) :
          LET got == buffer \o bytes
          IN /\ Took(bytes)
             /\ IF Len(got) >= StatsSize
                THEN /\ buffer' = <<>>
                     /\ results' = Append(results, IF got = Bytes(got[1].of, 1, StatsSize) THEN got[1].of ELSE Another)
                     /\ reading' = IF Len(results') = MaxResults THEN "read" ELSE reading
                ELSE buffer' = got /\ UNCHANGED <<results, reading>>
    /\ UNCHANGED <<sender, buflen, expected, parsed>>

GivesUp == reading' = "failed"

\* recv() returns 0 when the connection is closed, and fails when nothing comes
\* in time.
RecvEnds ==
    /\ reading \in {"header", "length", "text", "stats"} /\ wire = <<>>
    /\ GivesUp
    /\ UNCHANGED <<sender, wire, buffer, buflen, expected, parsed, results>>

WireNext == \/ SendMessage \/ SendFails
        \/ ReadHeader \/ ReadLength \/ ReadText \/ ReadStats \/ RecvEnds

WireSpec == WireInit /\ [][WireNext]_wireVars

-----------------------------------------------------------------------------
(***************************************************************************)
(* Properties.                                                             *)
(***************************************************************************)
WireTypeOK ==
    /\ kind \in {"settings", "results"} /\ texts \in Seq(TextSizes)
    /\ message \in 0 .. Sizes!Max({MaxTests, MaxResults}) + 1
    /\ open \in BOOLEAN
    /\ wire \in Seq([of : Nat, place : Nat, value : Nat])
    /\ Len(buffer) < StatsSize
    /\ buflen \in {0} \cup TextSizes /\ expected \in 0 .. TestsWidth - 1
    /\ parsed \in Seq(Nat) /\ results \in Seq(Nat)
    /\ reading \in ReaderSteps

\* However the stream is cut into pieces and wherever it ends, every test and
\* every result that is taken is one that was sent, whole and in its order: part
\* of a test is never taken for another test, and results never run together.
\* Settings that are accepted are all that was sent, if their number fits into
\* its byte, and leave nothing behind: the next byte is READY or GO.
OnlyWhatWasSent ==
    /\ \A k \in DOMAIN parsed : parsed[k] = k
    /\ \A k \in DOMAIN results : results[k] = k
    /\ reading = "read" /\ kind = "settings" /\ Len(texts) < TestsWidth =>
           Len(parsed) = Len(texts) /\ wire = <<>>
=============================================================================
