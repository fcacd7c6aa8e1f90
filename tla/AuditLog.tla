------------------------------ MODULE AuditLog ------------------------------
(***************************************************************************)
(* src/audit/logger.py: the JSONL file that every process appends to, as   *)
(* operators over the file's content.                                      *)
(*                                                                         *)
(* A file is a sequence of lines, each an event or text that is no JSON    *)
(* object any more.  "open" says that the last line has no newline yet: a  *)
(* write that the disk or the death of the process cut short left it so,   *)
(* and the next write goes on in the same line.                            *)
(***************************************************************************)
EXTENDS Integers, Sequences, SequencesExt

CONSTANT Garbled    \* a line json.loads() refuses

EmptyFile == [lines |-> <<>>, open |-> FALSE]

Files(events) == [lines : Seq(events \cup {Garbled}), open : BOOLEAN]

(* Slip: the file is opened with mode "w".                                 *)
MutWriteTruncates(file, e) ==
    [lines |-> IF file.open THEN <<Garbled>> ELSE <<e>>, open |-> FALSE]

(* log(): the event and its newline reach the end of the file.  What an    *)
(* open line held before and this event are one line from then on.         *)
Write(file, e) ==
    [lines |-> IF file.open THEN Append(Front(file.lines), Garbled)
               ELSE Append(file.lines, e),
     open |-> FALSE]

(* log() is cut short in the middle of the object, or between the object   *)
(* and its newline.                                                        *)
CutShort(file, e) ==
    {[lines |-> IF file.open THEN Append(Front(file.lines), Garbled)
                ELSE Append(file.lines, text),
      open |-> TRUE] : text \in {e, Garbled}}

(* Python's lines[-limit:].  A limit of 0 is lines[0:], the whole file,    *)
(* and a negative one leaves out that many of the oldest lines.            *)
LastLines(lines, limit) ==
    LET from == IF limit > 0 THEN Len(lines) - limit ELSE -limit
    IN SubSeq(lines, 1 + (IF from > 0 THEN from ELSE 0), Len(lines))

(* Slip: an unreadable line is skipped instead of ending the loop.         *)
MutReadRecentSkips(file, limit) ==
    SelectSeq(Reverse(LastLines(file.lines, limit)), LAMBDA l : l # Garbled)

(* read_recent(): newest first, up to the first line that cannot be        *)
(* parsed; the exception ends the loop and what was read is returned.      *)
ReadRecent(file, limit) ==
    LET newestFirst == Reverse(LastLines(file.lines, limit))
        readable == {n \in 0..Len(newestFirst) :
                        \A i \in 1..n : newestFirst[i] # Garbled}
    IN SubSeq(newestFirst, 1, CHOOSE n \in readable : \A m \in readable : m <= n)

=============================================================================
