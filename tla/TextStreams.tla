----------------------------- MODULE TextStreams ----------------------------
(***************************************************************************)
(* Text between a Wine process and the host, cut up on the way.            *)
(*                                                                         *)
(* Output: JuiceConsumeOutput (app/JuiceLaunchHardening.m) reads a pipe in *)
(* chunks of any size, gives whole lines to the log and to the recognizer  *)
(* of the JIT marker (app/JuiceJITAck.h), and repairs malformed UTF-8      *)
(* (app/JuiceUTF8Stream.c).                                                *)
(*                                                                         *)
(* Input: JuiceSendTextPayload (app/JuiceTextInputHardening.m) cuts a      *)
(* paste into packets of bounded size (app/JuiceUTF16.h).                  *)
(*                                                                         *)
(* The two share no state, so a behaviour has one of them to do.           *)
(***************************************************************************)
EXTENDS Integers, Sequences, SequencesExt

CONSTANTS
    Outputs,    \* the byte sequences a process may write
    MaxPaste,   \* bound on the UTF-16 units of a paste
    Marker,     \* the launch's acknowledgement, without its newline
    FlushAt,    \* the 64 KiB at which an unfinished line is logged
    ChunkBytes  \* JUICE_TEXT_CHUNK_BYTES

ASSUME OutputsAssumption ==
    Outputs \subseteq Seq(0..255) /\ Marker \in Seq(32..126) /\ Marker # <<>>
(* A marker line is shorter than the flush, and a surrogate pair fits into a packet. *)
ASSUME LimitsAssumption ==
    /\ FlushAt \in Nat /\ FlushAt > Len(Marker) + 1 /\ FlushAt > 3
    /\ ChunkBytes \in Nat /\ ChunkBytes >= 4
ASSUME PasteAssumption == MaxPaste \in Nat

VARIABLES
    output,   \* what the process writes before it closes the pipe
    read,     \* bytes of it that have been read
    pending,  \* the reader's `pending'
    log,      \* the bytes appended to the log
    ack,      \* the JuiceJITAck of the session
    cut,      \* history: an unfinished line has been flushed
    ended,    \* the reader has seen the end
    paste,    \* UTF-16 units to send
    packets   \* payloads sent

textVars == <<output, read, pending, log, ack, cut, ended, paste, packets>>

LF == 10
CR == 13
Replacement == <<239, 191, 189>>   \* U+FFFD
UTF16 == {"other", "high", "low"}

NoAck == [matched |-> 0, discarded |-> FALSE, carriageReturn |-> FALSE, ready |-> FALSE]

TextInit ==
    /\ \/ output \in Outputs /\ paste = <<>>
       \/ output = <<>> /\ paste \in BoundedSeq(UTF16, MaxPaste)
    /\ read = 0 /\ pending = <<>> /\ log = <<>>
    /\ ack = NoAck /\ cut = FALSE /\ ended = FALSE /\ packets = <<>>

-----------------------------------------------------------------------------
(* JuiceUTF8Stream.c *)

Need(a) == CASE a \in 194..223 -> 2
             [] a \in 224..239 -> 3
             [] a \in 240..244 -> 4
             [] OTHER -> -1

(* The second byte excludes overlong forms, surrogates and what is above U+10FFFF. *)
BadSecond(a, b) == \/ a = 224 /\ b < 160
                   \/ a = 237 /\ b >= 160
                   \/ a = 240 /\ b < 144
                   \/ a = 244 /\ b >= 144

(* scalar: a length, 0 for incomplete, -1 for malformed. *)
Scalar(s) ==
    IF s = <<>> THEN 0
    ELSE IF s[1] < 128 THEN 1
    ELSE IF Need(s[1]) = -1 THEN -1
    ELSE IF \E i \in 2..Len(s) : i <= Need(s[1]) /\
               (s[i] \notin 128..191 \/ (i = 2 /\ BadSecond(s[1], s[2]))) THEN -1
    ELSE IF Len(s) < Need(s[1]) THEN 0 ELSE Need(s[1])

From(s, i) == SubSeq(s, i, Len(s))

CompletePrefixWithin2(s) ==   \* mutant: only the last two bytes are looked at
    LET cuts == {i \in 1..Len(s) : i > Len(s) - 2 /\ Scalar(From(s, i)) = 0} IN
    IF cuts = {} THEN Len(s) ELSE (CHOOSE i \in cuts : \A j \in cuts : i <= j) - 1

(* JuiceUTF8CompletePrefix *)
CompletePrefix(s) ==
    LET cuts == {i \in 1..Len(s) : i > Len(s) - 3 /\ Scalar(From(s, i)) = 0} IN
    IF cuts = {} THEN Len(s) ELSE (CHOOSE i \in cuts : \A j \in cuts : i <= j) - 1

(* JuiceUTF8Sanitize, into `capacity' bytes. *)
Sanitize(s, capacity) ==
    LET step[i \in 1..Len(s) + 1, used \in 0..capacity] ==
            LET width == IF i > Len(s) THEN 0 ELSE Scalar(From(s, i))
                emitted == IF width > 0 THEN SubSeq(s, i, i + width - 1) ELSE Replacement
                next == i + IF width > 0 THEN width ELSE 1
            IN  IF i > Len(s) \/ Len(emitted) > capacity - used
                THEN [out |-> <<>>, consumed |-> i - 1]
                ELSE [step[next, used + Len(emitted)] EXCEPT !.out = emitted \o @]
    IN  step[1, 0]

(* JuiceDecodeOutput *)
Decode(s) == LET clean == Sanitize(s, 3 * Len(s)) IN
             IF clean.consumed = Len(s) THEN clean.out ELSE <<>>

-----------------------------------------------------------------------------
(* JuiceJITAckFeed, a byte at a time; nothing is read after the marker. *)

AckByteAnySuffix(a, c) ==   \* mutant: a mismatch is not remembered to the end of the line
    CASE a.ready -> a
      [] c = LF -> [NoAck EXCEPT !.ready = a.matched = Len(Marker)]
      [] c = CR /\ a.matched = Len(Marker) -> a
      [] a.matched < Len(Marker) /\ c = Marker[a.matched + 1] -> [a EXCEPT !.matched = @ + 1]
      [] OTHER -> NoAck

AckByte(a, c) ==
    CASE a.ready -> a
      [] ~a.ready /\ c = LF ->
            [NoAck EXCEPT !.ready = ~a.discarded /\ a.matched = Len(Marker)]
      [] ~a.ready /\ c # LF /\ a.discarded -> a
      [] ~a.ready /\ c # LF /\ ~a.discarded ->
            IF c = CR /\ a.matched = Len(Marker) /\ ~a.carriageReturn
            THEN [a EXCEPT !.carriageReturn = TRUE]
            ELSE IF ~a.carriageReturn /\ a.matched < Len(Marker)
                    /\ c = Marker[a.matched + 1]
            THEN [a EXCEPT !.matched = @ + 1]
            ELSE [a EXCEPT !.discarded = TRUE]

Feed(a, line) == FoldLeft(AckByte, a, line)

-----------------------------------------------------------------------------
(* JuiceConsumeOutput *)

(* The whole lines of s, and how long they are together. *)
LinesLength(s) == LET ends == {i \in 1..Len(s) : s[i] = LF} \cup {0} IN
                  CHOOSE i \in ends : \A j \in ends : j <= i
Lines(s) ==
    LET line[i \in 1..Len(s) + 1, start \in 1..Len(s) + 1] ==
            IF i > Len(s) THEN <<>>
            ELSE IF s[i] = LF THEN <<SubSeq(s, start, i)>> \o line[i + 1, i + 1]
            ELSE line[i + 1, start]
    IN  line[1, 1]

(* How much of an unfinished line is logged now. *)
Flush(s) == IF Len(s) >= FlushAt THEN CompletePrefix(s) ELSE 0

Read(n) ==
    LET s == pending \o SubSeq(output, read + 1, read + n)
        lines == [i \in DOMAIN Lines(s) |-> Decode(Lines(s)[i])]
        rest == From(s, LinesLength(s) + 1)
        flushed == Flush(rest)
    IN
    /\ ~ended
    /\ read' = read + n
    /\ log' = log \o FlattenSeq(lines) \o Decode(SubSeq(rest, 1, flushed))
    /\ ack' = FoldLeft(Feed, ack, lines)
    /\ pending' = From(rest, flushed + 1)
    /\ cut' = (cut \/ flushed > 0)
    /\ UNCHANGED <<output, ended, paste, packets>>

(* End of file: what is left is logged, and no marker is looked for in it. *)
End ==
    /\ ~ended /\ read = Len(output) /\ paste = <<>>
    /\ ended' = TRUE
    /\ log' = log \o Decode(pending)
    /\ pending' = <<>>
    /\ UNCHANGED <<output, read, ack, cut, paste, packets>>

-----------------------------------------------------------------------------
(* JuiceSendTextPayload *)

Offset == 2 * Len(FlattenSeq(packets))

ChunkAnywhere(bytes) ==   \* mutant: a pair may be split
    IF bytes < ChunkBytes THEN bytes ELSE ChunkBytes - (ChunkBytes % 2)

(* JuiceUTF16ChunkLength of the bytes that remain. *)
ChunkLength(bytes) ==
    LET least == IF bytes < ChunkBytes THEN bytes ELSE ChunkBytes
        length == least - (least % 2)
        last == (Offset + length) \div 2
    IN  IF /\ length < bytes
           /\ paste[last] = "high" /\ paste[last + 1] = "low"
        THEN length - 2 ELSE length

(* A packet is sent, or refused: then the rest is not sent either. *)
SendChunk ==
    LET remaining == 2 * Len(paste) - Offset
        length == ChunkLength(remaining)
    IN
    /\ ~ended /\ remaining > 0
    /\ \/ /\ length > 0
          /\ packets' = Append(packets, SubSeq(paste, Offset \div 2 + 1,
                                               (Offset + length) \div 2))
          /\ ended' = (length = remaining)
       \/ ended' = TRUE /\ UNCHANGED packets
    /\ UNCHANGED <<output, read, pending, log, ack, cut, paste>>

-----------------------------------------------------------------------------
TextNext ==
    \/ \E n \in 1..Len(output) - read : Read(n)
    \/ End \/ SendChunk

TextSpec == TextInit /\ [][TextNext]_textVars

-----------------------------------------------------------------------------
(* Reference: the well-formed byte sequences of the Unicode standard, table 3-7. *)
Cont == 128..191
WellFormed ==
    {<<0..127>>, <<194..223, Cont>>,
     <<{224}, 160..191, Cont>>, <<225..236, Cont, Cont>>, <<{237}, 128..159, Cont>>,
     <<238..239, Cont, Cont>>, <<{240}, 144..191, Cont, Cont>>,
     <<241..243, Cont, Cont, Cont>>, <<{244}, 128..143, Cont, Cont>>}

(* The character at position i of s, or {} when there is none. *)
CharAt(s, i) ==
    {SubSeq(s, i, i + Len(w) - 1) : w \in {v \in WellFormed :
        i + Len(v) - 1 <= Len(s) /\ \A k \in 1..Len(v) : s[i + k - 1] \in v[k]}}

(* Every byte that is not part of a character is replaced. *)
Repaired(s) ==
    LET at[i \in 1..Len(s) + 1] ==
            IF i > Len(s) THEN <<>>
            ELSE IF CharAt(s, i) = {} THEN Replacement \o at[i + 1]
            ELSE LET c == CHOOSE c \in CharAt(s, i) : TRUE IN c \o at[i + Len(c)]
    IN  at[1]

(* Some line of s is the marker, with or without a carriage return. *)
MarkerLines == {Append(Marker, LF), Marker \o <<CR, LF>>}
MarkerSeen(s) == \E i \in DOMAIN Lines(s) : Lines(s)[i] \in MarkerLines
MarkerEndsALine(s) == \E i \in DOMAIN Lines(s), m \in MarkerLines : IsSuffix(m, Lines(s)[i])

SoFar == SubSeq(output, 1, read)

(* What is logged does not depend on how the output was cut into reads, lines and
   flushes: it is the text as a whole with every malformed byte replaced, complete at
   the end and a prefix of it before; and no more than the flush limit is held back. *)
LogIsTheRepairedOutput ==
    /\ Len(pending) < FlushAt
    /\ IsPrefix(log, Repaired(output))
    /\ ended /\ paste = <<>> => log = Repaired(output)

(* "Accept exactly one complete LF or CRLF-terminated marker line; prefixes, suffixes
   and unterminated markers never count" (JuiceJITAck.h:31-32), however the output is
   cut: the session is acknowledged exactly when a line of the output read so far is
   the marker.  Only after a flush in the middle of a line is its end taken for one. *)
AckIsTheMarkerLine ==
    /\ MarkerSeen(SoFar) => ack.ready
    /\ ack.ready => MarkerSeen(SoFar) \/ (cut /\ MarkerEndsALine(SoFar))

(* The packets of a paste are its text in order, and none of them ends inside a
   surrogate pair or exceeds the limit. *)
PacketsKeepPairs ==
    /\ IsPrefix(FlattenSeq(packets), paste)
    /\ \A i \in DOMAIN packets :
          /\ packets[i] # <<>> /\ 2 * Len(packets[i]) <= ChunkBytes
          /\ i < Len(packets) =>
                ~(Last(packets[i]) = "high" /\ Head(packets[i + 1]) = "low")
=============================================================================
