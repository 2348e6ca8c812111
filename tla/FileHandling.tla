---------------------------- MODULE FileHandling ----------------------------
(***************************************************************************)
(* The assembler (assemble.c, filehandling.c): a first pass that reads the *)
(* source file line by line, keeps the instructions and enters the labels  *)
(* into the symbol table, and a second pass that encodes the instructions  *)
(* and appends them to the output file.  One step is one line of a pass.   *)
(*                                                                         *)
(* A line of a file is an instruction, or what the assembler takes for one *)
(* (a comment, a word it does not know); a label, of which the first pass  *)
(* keeps what precedes the colon; Empty, no character at all; or Blank,    *)
(* spaces only, which has no tokens but is not empty.                      *)
(*                                                                         *)
(* The output file outlives the process.  A process can end in many ways,  *)
(* and the assembler can then be run again, on the same source or on       *)
(* another one: RunAgain keeps the output and nothing else.                *)
(***************************************************************************)
EXTENDS Assembly, HashTable, FiniteSets

CONSTANTS
  Files,       \* the source files a run may be given: sequences of lines
  Revisions,   \* the source files a later run may be given instead
  shortened,   \* a function from label names that are too long for a token to
               \* what a token keeps of them, their first 29 characters
  Leftovers,   \* what the output file may hold before the first run
  MAX_LINES,   \* lines the assembler has room for (1000 in the build)
  MaxLost,     \* bound: words that are not written, in one run
  MaxRuns      \* bound: runs of the assembler

(* The lines of the source files are words behind a mnemonic, and a label  *)
(* is a key of the hash table.                                             *)
SourceLines == UNION {Range(f) : f \in Files \cup Revisions}

ASSUME LinesAssumption == MAX_LINES \in Nat \ {0}

ASSUME FilesAssumption ==
  /\ Files \cup Revisions \subseteq Seq(SourceLines)
  /\ \A l \in SourceLines :
       /\ l = Asm(l.mnemonic, l.args)
       /\ l.args \in Seq(Range(l.args))
       /\ isLabel(l) => l.args # <<>> /\ labelName(l) \in DOMAIN hash

(* A file is read back as 32-bit words.                                    *)
ASSUME LeftoversAssumption == Leftovers \subseteq Seq(SUBSET (0 .. 31))

MAX_TOKENS_PER_LINE == 8

Empty == Asm("", <<>>)
Blank == Asm(" ", <<>>)

VARIABLES
  file,            \* the source file
  phase,           \* where the process is, or how it has ended
  position,        \* lines of the file that have been read
  tokenisedLines,  \* the lines kept for the second pass
  currentAddress,  \* the global the encoders read
  symbolTable,     \* a hash table from labels to addresses
  next,            \* index i of the second pass
  output,          \* the words in the output file
  lost,            \* the kept lines whose word could not be written
  runs             \* runs started so far

fileVars == <<file, phase, position, tokenisedLines, currentAddress,
              symbolTable, next, output, lost, runs>>

numLines == Len(tokenisedLines)

(* "done" and "unread" end with exit status 0; "rejected" in an encoder;   *)
(* "untouched" is a process killed before it had cleared the output, and   *)
(* "killed" one killed later.                                              *)
Successful == {"done", "unread"}
Ended      == Successful \cup {"rejected", "killed", "untouched"}

-----------------------------------------------------------------------------
FileInit ==
  /\ file \in Files
  /\ phase = "start"
  /\ position = 0
  /\ tokenisedLines = <<>>
  /\ currentAddress = 0
  /\ symbolTable = create_hash_table(1)
  /\ next = 0
  /\ output \in Leftovers
  /\ lost = {}
  /\ runs = 1

(* Mutant of ClearOutput: the output is opened for appending here too.     *)
ClearNothing ==
  /\ phase = "start"
  /\ phase' = "cleared"
  /\ UNCHANGED <<file, position, tokenisedLines, currentAddress, symbolTable, next, lost, output, runs>>

(* fclose(fopen(output, "w")).                                             *)
ClearOutput ==
  /\ phase = "start"
  /\ output' = <<>>
  /\ phase' = "cleared"
  /\ UNCHANGED <<file, position, tokenisedLines, currentAddress, symbolTable, next, lost, runs>>

(* The output cannot be opened: fclose is given a null pointer.            *)
CannotClear ==
  /\ phase = "start"
  /\ phase' = "untouched"
  /\ UNCHANGED <<file, position, tokenisedLines, currentAddress, symbolTable, next, lost, output, runs>>

(* The input is opened after the output has been cleared; if it cannot be, *)
(* main goes on to its end.                                                *)
OpenInput ==
  /\ phase = "cleared"
  /\ phase' \in {"first", "unread"}
  /\ UNCHANGED <<file, position, tokenisedLines, currentAddress, symbolTable, next, lost, output, runs>>

-----------------------------------------------------------------------------
(* The first pass.                                                         *)
Reading ==
  /\ phase = "first"
  /\ position < Len(file)
  /\ numLines < MAX_LINES

line == file[position + 1]

(* Mutant of SkipEmptyLine: the line is read again.                        *)
StayOnEmptyLine ==
  /\ Reading /\ line = Empty
  /\ UNCHANGED fileVars

SkipEmptyLine ==
  /\ Reading /\ line = Empty
  /\ position' = position + 1
  /\ UNCHANGED <<file, phase, tokenisedLines, currentAddress, symbolTable, next, lost, output, runs>>

(* A label stands for the current address.                                 *)
EnterLabel ==
  /\ Reading /\ isLabel(line)
  /\ symbolTable' =
       insert_into_hash_table(symbolTable, labelName(line), currentAddress)
  /\ position' = position + 1
  /\ UNCHANGED <<file, phase, tokenisedLines, currentAddress, next, lost, output, runs>>

(* The words of an instruction: eight, with its mnemonic, and as much of a *)
(* word as a token has room for.  (A label is entered with its whole name.)*)
token(word) ==
  IF word.kind = "label" /\ word.name \in DOMAIN shortened
    THEN Label(shortened[word.name]) ELSE word

tokenize(l) ==
  [l EXCEPT !.args = [k \in 1 .. Min({Len(@), MAX_TOKENS_PER_LINE - 1}) |-> token(@[k])]]

(* Mutant of Tokenize: the address is that of the line, not the next one.  *)
TokenizeBehind ==
  /\ Reading /\ line # Empty /\ ~isLabel(line)
  /\ tokenisedLines' = Append(tokenisedLines, tokenize(line))
  /\ currentAddress' = 4 * numLines
  /\ position' = position + 1
  /\ UNCHANGED <<file, phase, symbolTable, next, lost, output, runs>>

(* Everything else takes a slot and four bytes, a blank line included.     *)
Tokenize ==
  /\ Reading /\ line # Empty /\ ~isLabel(line)
  /\ tokenisedLines' = Append(tokenisedLines, tokenize(line))
  /\ currentAddress' = 4 * (numLines + 1)
  /\ position' = position + 1
  /\ UNCHANGED <<file, phase, symbolTable, next, lost, output, runs>>

(* The end of the file, or no room for another line.                       *)
EndFirstPass ==
  /\ phase = "first" /\ ~Reading
  /\ phase' = "second"
  /\ UNCHANGED <<file, position, tokenisedLines, currentAddress, symbolTable, next, lost, output, runs>>

-----------------------------------------------------------------------------
(* The second pass.                                                        *)
(* Mutant of Encoding: the last line is left out.                          *)
EncodingAllButLast == phase = "second" /\ next + 1 < numLines

Encoding == phase = "second" /\ next < numLines

current == tokenisedLines[next + 1]

SkipBlankLine ==
  /\ Encoding /\ current = Blank
  /\ next' = next + 1
  /\ UNCHANGED <<file, phase, position, tokenisedLines, currentAddress, symbolTable, lost, output, runs>>

(* The line is encoded, and the next one is looked at whether or not       *)
(* write_binary_to_file succeeds.                                          *)
Encodable ==
  /\ Encoding /\ current # Blank
  /\ accepts(current, contents(symbolTable))

Advancing ==
  /\ currentAddress' = 4 * next
  /\ next' = next + 1
  /\ UNCHANGED <<file, phase, position, tokenisedLines, symbolTable, runs>>

Encode ==
  /\ Encodable
  /\ output' = Append(output,
       instruction_processor(current, contents(symbolTable), 4 * next))
  /\ Advancing /\ UNCHANGED lost

(* The output file cannot be opened this time: perror, and the word is     *)
(* dropped.                                                                *)
LoseWord ==
  /\ Encodable
  /\ Cardinality(lost) < MaxLost
  /\ lost' = lost \cup {next + 1}
  /\ Advancing /\ UNCHANGED output

(* The process ends inside the encoder: it exits, an assertion fails, or   *)
(* it is killed.  A line that corrupts the heap may get through too.  The  *)
(* output stays as it is.                                                  *)
Reject ==
  /\ Encoding /\ current # Blank
  /\ ~accepts(current, contents(symbolTable)) \/ corruptsHeap(current)
  /\ phase' = "rejected"
  /\ currentAddress' = 4 * next
  /\ UNCHANGED <<file, position, tokenisedLines, symbolTable, next, lost, output, runs>>

Finish ==
  /\ phase = "second" /\ ~Encoding
  /\ phase' = "done"
  /\ UNCHANGED <<file, position, tokenisedLines, currentAddress, symbolTable, next, lost, output, runs>>

-----------------------------------------------------------------------------
AssemblerStep ==
  \/ ClearOutput
  \/ CannotClear
  \/ OpenInput
  \/ SkipEmptyLine
  \/ EnterLabel
  \/ Tokenize
  \/ EndFirstPass
  \/ SkipBlankLine
  \/ Encode
  \/ LoseWord
  \/ Reject
  \/ Finish

(* The process can be killed at any moment; a word is written in one call. *)
Kill ==
  /\ phase \notin Ended
  /\ phase' = IF phase = "start" THEN "untouched" ELSE "killed"
  /\ UNCHANGED <<file, position, tokenisedLines, currentAddress, symbolTable, next, lost, output, runs>>

(* A new process, with its globals as they were at the start.              *)
RunAgain ==
  /\ phase \in Ended
  /\ runs < MaxRuns
  /\ runs' = runs + 1
  /\ file' \in Revisions \cup {file}
  /\ phase' = "start"
  /\ position' = 0
  /\ tokenisedLines' = <<>>
  /\ currentAddress' = 0
  /\ symbolTable' = create_hash_table(1)
  /\ next' = 0
  /\ lost' = {}
  /\ UNCHANGED output

FileNext == AssemblerStep \/ Kill \/ RunAgain

(* One process that only waits for its files.  Nobody has to kill it, or   *)
(* to run it again.                                                        *)
FileSpec == FileInit /\ [][FileNext]_fileVars /\ WF_fileVars(AssemblerStep)

-----------------------------------------------------------------------------
(* The source the first pass has read: without the lines that hold nothing,*)
(* and with the instructions as far as there is room for their words.      *)
Source ==
  LET lines == Select(SubSeq(file, 1, position), LAMBDA l : l # Empty /\ l # Blank)
  IN  [i \in DOMAIN lines |-> IF isLabel(lines[i]) THEN lines[i] ELSE tokenize(lines[i])]

(* A comment is an instruction with an unknown mnemonic.                   *)
Comment == Asm("//", <<>>)

(* The lines the second pass has been through, and those it has a word of. *)
encodedLines == {i \in 1 .. next : tokenisedLines[i] # Blank}

written == Select([i \in 1 .. next |-> i], LAMBDA i : i \in encodedLines \ lost)

(* A blank line has a slot and an address and no word, and what follows it *)
(* is encoded for an address it will not have.  These are the files where  *)
(* nothing does.                                                           *)
BlanksTrail(files) ==
  \A f \in files : \A i, j \in DOMAIN f :
    i < j /\ f[i] = Blank => f[j] \in {Blank, Empty}

(* From the moment the output is cleared, and wherever the process ends,   *)
(* the output is the beginning of the program that was read, except for    *)
(* the words that could not be written: labels resolve, forwards and       *)
(* backwards, to where instructions will be loaded, and nothing of an      *)
(* earlier run is left, be it of another program or a run that was killed. *)
OutputIsPrefix ==
  phase \notin {"start", "untouched"} =>
    output = [k \in DOMAIN written |-> AssembledWord(Source, written[k])]

(* An assembler that gets to its end has been through the whole program,   *)
(* and has read the whole file unless it ran out of room for lines.        *)
DoneIsComplete ==
  phase = "done" =>
    /\ Cardinality(encodedLines) = Len(InstructionsOf(Source))
    /\ position = Len(file) \/ numLines = MAX_LINES

(* Every run ends: nothing it meets makes the assembler wait or go round.  *)
Ends == phase = "start" ~> phase \in Ended

-----------------------------------------------------------------------------
(* "set current address based on what instruction we are on"               *)
(* (filehandling.c:116): the address is where the instruction goes.        *)
AddressIsWhereWritten ==
  [][output' # output /\ phase = "second" => currentAddress' = 4 * Len(output)]_fileVars

=============================================================================
