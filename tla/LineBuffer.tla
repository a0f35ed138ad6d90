----------------------------- MODULE LineBuffer -----------------------------
(***************************************************************************)
(* From the bytes of a connection to lines (client_callback_data_in): the  *)
(* stream arrives in chunks, one for each read, and what a chunk leaves    *)
(* without a line end waits in line_buffer.                                *)
(*                                                                         *)
(* line_buffer is the sequence of the characters in front of               *)
(* line_buffer_pos; what is behind them is never looked at.                *)
(***************************************************************************)
EXTENDS Integers, SequencesExt

CONSTANTS
    Byte,      \* characters
    CR, LF,    \* carriage return and line feed, two of them
    ReadMax,   \* the size of the read buffer (512)
    LineMax,   \* the size of line_buffer (RFC_MESSAGE_MAXLENGTH, 512)
    MaxSent    \* bound: characters sent over a connection

ASSUME LineBufferAssumption ==
    /\ {CR, LF} \subseteq Byte /\ CR # LF
    /\ ReadMax \in Nat \ {0} /\ LineMax \in Nat
    /\ ReadMax <= LineMax
    /\ MaxSent \in Nat

VARIABLES
    line_buffer,  \* the unterminated characters of earlier chunks
    overrun,      \* memcpy was called with a length of -1
    stream,       \* history: all that was read
    handled,      \* history: the lines given to message_parse
    damaged       \* history: a line was cut, lost or overlooked

vars == <<line_buffer, overrun, stream, handled, damaged>>

Init ==
    /\ line_buffer = <<>>
    /\ overrun = FALSE
    /\ stream = <<>>
    /\ handled = <<>>
    /\ damaged = FALSE

-----------------------------------------------------------------------------
(***************************************************************************)
(* Variants with a fault.  Nothing uses them: each one put in the place of *)
(* the definition it varies violates a property of this module.            *)
(***************************************************************************)
KeptBehind(rest) == IF rest = <<>> THEN <<>> ELSE line_buffer \o rest

WaitingTwice(k) == line_buffer

TooLongByOne(buffer, line) == Len(buffer) + Len(line) > LineMax

-----------------------------------------------------------------------------
\* The positions of the line feeds of the line ends within s
LineEnds(s) == {i \in 2..Len(s) : s[i - 1] = CR /\ s[i] = LF}

(***************************************************************************)
(* The lines found in s once the position is i, and where the one that is  *)
(* not ended yet starts, behind the last line end                          *)
(***************************************************************************)
Split(s) ==
    LET Scan[i \in 0..Len(s)] ==
          LET before == Scan[i - 1]
          IN  IF i = 0 THEN [lines |-> <<>>, start |-> 0]
              ELSE IF i \in LineEnds(s)
                THEN [lines |-> Append(before.lines,
                                  SubSeq(s, before.start + 1, i - 2)),
                      start |-> i]
              ELSE before
    IN  Scan[Len(s)]

Lines(s) == Split(s).lines

Rest(s) == SubSeq(s, Split(s).start + 1, Len(s))

\* The k-th line of a chunk finds this in line_buffer.
Waiting(k) == IF k = 1 THEN line_buffer ELSE <<>>

\* One place is left for the '\0' at the end.
TooLong(buffer, line) == Len(buffer) + Len(line) >= LineMax

Appended(buffer, line) ==
    IF TooLong(buffer, line)
      THEN buffer \o SubSeq(line, 1, LineMax - Len(buffer) - 1)
      ELSE buffer \o line

\* A line end was found, and line_buffer is full: the length becomes -1.
Overruns(chunk) == LineEnds(chunk) # {} /\ Len(line_buffer) >= LineMax

\* The rest is copied to the start of line_buffer, whatever is there.
Kept(rest) == rest

(***************************************************************************)
(* What goes wrong with a chunk: a rest is overwritten, a CR that waits    *)
(* and the LF at the start of the chunk are not taken for a line end, or   *)
(* the first line is cut.                                                  *)
(***************************************************************************)
Damages(chunk) ==
    /\ line_buffer # <<>>
    /\ \/ LineEnds(chunk) = {}
       \/ Last(line_buffer) = CR /\ Head(chunk) = LF
       \/ TooLong(line_buffer, Head(Lines(chunk)))

\* client_callback_data_in
DataIn(chunk) ==
    /\ ~overrun
    /\ stream' = stream \o chunk
    /\ damaged' = (damaged \/ Damages(chunk))
    /\ IF Overruns(chunk)
         THEN /\ overrun' = TRUE
              /\ UNCHANGED <<line_buffer, handled>>
         ELSE /\ handled' = handled \o [k \in DOMAIN Lines(chunk) |->
                                Appended(Waiting(k), Lines(chunk)[k])]
              /\ line_buffer' = Kept(Rest(chunk))
              /\ UNCHANGED overrun

Chunks == UNION {[1..n -> Byte] : n \in 1..ReadMax}

Next ==
    \E chunk \in Chunks :
       Len(stream) + Len(chunk) <= MaxSent /\ DataIn(chunk)

Spec == Init /\ [][Next]_vars

-----------------------------------------------------------------------------
TypeOK ==
    /\ line_buffer \in Seq(Byte) /\ Len(line_buffer) <= LineMax
    /\ handled \in Seq(Seq(Byte))
    /\ stream \in Seq(Byte)
    /\ overrun \in BOOLEAN /\ damaged \in BOOLEAN

(***************************************************************************)
(* However the stream is cut into reads, the lines handled and the rest    *)
(* that waits, put together again, are the stream, and none of them        *)
(* contains a line end: client_callback_data_in neither loses, repeats nor *)
(* joins lines, except in the cases that Damages names.                    *)
(***************************************************************************)
LinesExact ==
    ~damaged =>
       /\ FlattenSeq([k \in DOMAIN handled |-> handled[k] \o <<CR, LF>>])
            \o line_buffer = stream
       /\ \A k \in DOMAIN handled : LineEnds(handled[k]) = {}
       /\ LineEnds(line_buffer) = {}

(***************************************************************************)
(* A line given to message_parse has room for its '\0' in line_buffer,     *)
(* however long the stream goes on without a line end, and length -1 comes *)
(* up for a buffer filled by one read only.                                *)
(***************************************************************************)
LinesFit ==
    /\ \A k \in DOMAIN handled : Len(handled[k]) < LineMax
    /\ overrun => Len(line_buffer) = LineMax /\ ReadMax = LineMax
=============================================================================
