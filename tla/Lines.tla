-------------------------------- MODULE Lines -------------------------------
(***************************************************************************)
(* ayr::fs::AyrFile::writelines and readlines (include/ayr/fs/File.hpp):   *)
(* a program writes lines to a file and reads them back with the coroutine *)
(* readlines, a Generator (include/ayr/coro/Generator.hpp) that reads the  *)
(* file in blocks into a Buffer.  Between two of its lines the generator   *)
(* is suspended.                                                           *)
(***************************************************************************)
EXTENDS ByteBuffer, SequencesExt

CONSTANTS
    Documents,  \* what a program writes: sequences of lines
    BlockSize   \* BLOCK_SIZE of readlines

VARIABLES
    document,   \* the lines to be written
    file,       \* the bytes in the file
    at,         \* where the program, or the generator it resumes, is
    frame,      \* the generator's buffer, the offset in the file, the place
                \* eol_pos is searched from, num_read and eol_pos
    got,        \* the lines that the program was given
    shifted     \* adjust_util has moved the buffer in place (history)

lineVars == <<document, file, at, frame, got, shifted>>

EOL == "NL"

Characters == UNION {ToSet(line) : line \in UNION {ToSet(lines) : lines \in Documents}}

(* A line has no line end in it.                                           *)
ASSUME LinesAssumption ==
    /\ BlockSize \in Nat \ {0}
    /\ Documents \subseteq Seq(Seq(Characters \ {EOL}))

(* The line ends stand between the lines.                                  *)
FileText(lines) ==
    FlattenSeq([i \in DOMAIN lines |-> IF i = 1 THEN lines[i] ELSE <<EOL>> \o lines[i]])

NewFrame == [buffer |-> NewBuffer(BlockSize), offset |-> 0, from |-> 0, num_read |-> 0,
             eol_pos |-> -1]

LinesInit ==
    /\ document \in Documents
    /\ file = <<>> /\ at = "write" /\ frame = NewFrame /\ got = <<>> /\ shifted = FALSE

(* write: each call of the system takes a part of what is left.            *)
WriteSome ==
    /\ at = "write"
    /\ \E k \in Len(file) + 1 .. Len(FileText(document)) : file' = SubSeq(FileText(document), 1, k)
    /\ UNCHANGED <<document, at, frame, got, shifted>>

(* The generator runs from the start when it is made.                      *)
WriteReturns ==
    /\ at = "write" /\ Len(file) = Len(FileText(document))
    /\ at' = "read"
    /\ UNCHANGED <<document, file, frame, got, shifted>>

(* read(buffer, BLOCK_SIZE) fills all the space that the buffer has.       *)
ReadBlock ==
    LET b == Adjust(frame.buffer, BlockSize)
        part == SubSeq(file, frame.offset + 1, Min({Len(file), frame.offset + Writeable(b)}))
    IN  /\ at = "read"
        /\ frame' = [frame EXCEPT !.buffer = Receive(b, part), !.offset = @ + Len(part),
                                  !.num_read = Len(part)]
        /\ shifted' = (shifted \/ Compacts(frame.buffer, BlockSize))
        /\ at' = "scan"
        /\ UNCHANGED <<document, file, got>>

(* The search for the next line end: a line is yielded.                    *)
YieldLine ==
    LET i == FindByte(frame.buffer, EOL, frame.from)
    IN  /\ at = "scan" /\ i # -1
        /\ frame' = [frame EXCEPT !.eol_pos = i]
        /\ at' = "yielded"
        /\ UNCHANGED <<document, file, got, shifted>>

(* Mutated form: the next search begins where the last read began.         *)
NextLineStale ==
    /\ at = "yielded"
    /\ got' = Append(got, Bytes(frame.buffer, frame.eol_pos))
    /\ frame' = [frame EXCEPT !.buffer = Retrieve(@, frame.eol_pos + 1)]
    /\ at' = "scan"
    /\ UNCHANGED <<document, file, shifted>>

(* The program looks at the line, a view of the buffer, and asks for the   *)
(* next: what was yielded is retrieved.                                    *)
NextLine ==
    /\ at = "yielded"
    /\ got' = Append(got, Bytes(frame.buffer, frame.eol_pos))
    /\ frame' = [frame EXCEPT !.buffer = Retrieve(@, frame.eol_pos + 1), !.from = 0]
    /\ at' = "scan"
    /\ UNCHANGED <<document, file, shifted>>

NoLine ==
    /\ at = "scan" /\ FindByte(frame.buffer, EOL, frame.from) = -1
    /\ frame' = [frame EXCEPT !.from = Readable(frame.buffer)]
    /\ at' = IF frame.num_read = BlockSize THEN "read" ELSE "end"
    /\ UNCHANGED <<document, file, got, shifted>>

(* The last line has no end: it is returned.                               *)
ReturnLast ==
    /\ at = "end" /\ Readable(frame.buffer) > 0
    /\ at' = "returned"
    /\ UNCHANGED <<document, file, frame, got, shifted>>

(* Without one the coroutine flows off its end, and its promise has no     *)
(* return_void: it is done, or anything may follow.                        *)
FlowOff ==
    /\ at = "end" /\ Readable(frame.buffer) = 0
    /\ at' \in {"done", "undefined"}
    /\ UNCHANGED <<document, file, frame, got, shifted>>

(* An iterator whose generator has returned gives the value once.          *)
TakeLast ==
    /\ at = "returned"
    /\ got' = Append(got, Unread(frame.buffer))
    /\ at' = "done"
    /\ UNCHANGED <<document, file, frame, shifted>>

LinesNext == WriteSome \/ WriteReturns \/ ReadBlock \/ YieldLine \/ NextLine \/ NoLine
             \/ ReturnLast \/ FlowOff \/ TakeLast

LinesSpec == LinesInit /\ [][LinesNext]_lineVars

-----------------------------------------------------------------------------
(* The program gets back the lines it wrote, except an empty last one, if  *)
(* the file is not longer than two blocks.  Of a longer one it gets the    *)
(* first part: the second read may give more than a block, and then        *)
(* readlines stops (File.hpp line 239).  A first line longer than a block  *)
(* can move the buffer in place (Buffer.hpp line 209).                     *)
LinesComeBack ==
    at = "done" /\ ~shifted =>
        /\ \A i \in DOMAIN got : EOL \notin ToSet(got[i])
        /\ IF Len(file) <= 2 * BlockSize THEN document \in {got, Append(got, <<>>)}
           ELSE IsPrefix(FileText(got), file) /\ Len(FileText(got)) >= 2 * BlockSize - 1
=============================================================================
