------------------------------ MODULE StackTrace ------------------------------
(***************************************************************************)
(* The stack trace library (src/stacktrace): MapFile reads the linker's map *)
(* file into an array of entries and finds the entry of an address,         *)
(* StackTrace lists the callers and writes their names to a buffer.         *)
(* printStackTrace() is called once or twice; it keeps the map file that it *)
(* has read until StackTraceCleanup().                                      *)
(*                                                                          *)
(* A line of the map file has a kind ("other", "address" for the head of    *)
(* the table, "badhead" for another line that begins with its first word,   *)
(* "entry", "bad" for a line that is no entry, "blank") and an entry a name *)
(* and its address, rvabase.  Of a name there is left whether it is an      *)
(* internal function, and the length of the line printed for it.            *)
(***************************************************************************)
EXTENDS Integers, Sequences, SequencesExt, FiniteSetsExt

CONSTANTS
  Files,        \* the map files: sequences of lines
  Stacks,       \* the stacks: return addresses, the innermost first
  BufferSizes,
  MinBuffer,    \* the smallest buffer the program may pass (600)
  ErrorSize,    \* the length of the longest error text (below 550)
  MaxDepth,     \* min(maxDepth, MAX_DEPTH)
  Beyond        \* how far behind the last entry an address may be (10000)

VARIABLES
  file, line,   \* the map file and the number of the next line
  stack, bufferSize, again,  \* the call; again: it is the second one
  phase,        \* "open", "name", "scan", "head", "entries", "sort", "report",
                \* "collect", "print", "done", "clean" or "crashed"
  error,        \* map->error()
  entries,
  level, callers,          \* the level that is next, the callers found
  needed, output, printed, \* printed: the callers that are through
  written                  \* "nothing", an "error" text or a "trace"

vars == <<file, line, stack, bufferSize, again, phase, error, entries, level,
          callers, needed, output, printed, written>>

Init ==
  /\ file \in Files /\ stack \in Stacks /\ bufferSize \in BufferSizes
  /\ line = 1 /\ phase = "open" /\ error = FALSE
  /\ entries = <<>> /\ callers = <<>> /\ output = <<>>
  /\ level = 1 /\ needed = 0 /\ printed = 0
  /\ again = FALSE /\ written = "nothing"

parser == <<line, error, entries>>

tracer == <<level, callers, needed, output, printed, written>>

inputs == <<file, stack, bufferSize, again>>

AtEnd == line > Len(file)

This(kind) == ~ AtEnd /\ file[line].kind = kind

-----------------------------------------------------------------------------
(* MapFileImpl: the constructor and parseEntries()                          *)

(* A file that cannot be opened reads as an empty one, with an error.       *)
Open ==
  /\ phase = "open"
  /\ \/ phase' = "name" /\ UNCHANGED error
     \/ phase' = "sort" /\ error' = TRUE
  /\ UNCHANGED <<inputs, line, entries, tracer>>

(* The first word of the file is taken for its name: the constructor goes   *)
(* on behind it, and the head of a table in that line is not seen.          *)
ReadName ==
  /\ phase = "name" /\ ~ AtEnd
  /\ line' = line + 1
  /\ phase' = IF This("blank") THEN "name" ELSE "scan"
  /\ UNCHANGED <<inputs, error, entries, tracer>>

(* The constructor looks at the first word of each line.                    *)
Scan ==
  /\ phase = "scan" /\ ~ AtEnd
  /\ line' = line + 1
  /\ phase' = IF This("address") \/ This("badhead") THEN "head" ELSE "scan"
  /\ error' = (error \/ This("badhead"))
  /\ UNCHANGED <<inputs, entries, tracer>>

(* Blank lines between the head of the table and its first entry            *)
SkipBlank ==
  /\ phase = "head" /\ This("blank")
  /\ line' = line + 1
  /\ UNCHANGED <<inputs, phase, error, entries, tracer>>

(* An entry; the table goes on unless the next line is empty.               *)
ReadEntry ==
  /\ phase \in {"head", "entries"} /\ This("entry") /\ ~ error
  /\ entries' = Append(entries, file[line])
  /\ line' = line + 1
  /\ phase' = IF line < Len(file) /\ file[line + 1].kind = "blank"
                THEN "scan" ELSE "entries"
  /\ UNCHANGED <<inputs, error, tracer>>

(* A line that is no entry, or the end of the file: what was read of it is  *)
(* added all the same, and the error ends the table.                        *)
ReadBadEntry ==
  /\ phase \in {"head", "entries"} /\ ~ error
  /\ AtEnd \/ (~ This("entry") /\ ~ (phase = "head" /\ This("blank")))
  /\ error' = TRUE
  /\ entries' = Append(entries, [kind |-> "bad", rvabase |-> 0,
                                 internal |-> FALSE, length |-> 0])
  /\ line' = line + 1
  /\ phase' = "scan"
  /\ UNCHANGED <<inputs, tracer>>

(* A second table is not read behind an error.                              *)
SkipTable ==
  /\ phase = "head" /\ error
  /\ phase' = "scan"
  /\ UNCHANGED <<inputs, parser, tracer>>

EndOfFile ==
  /\ phase \in {"name", "scan"} /\ AtEnd
  /\ phase' = "sort"
  /\ UNCHANGED <<inputs, parser, tracer>>

(* std::sort(entries.begin(), entries.end()) compares the pointers: the     *)
(* order is the one in which the heap placed the entries, that is any.      *)
Sort ==
  /\ phase = "sort"
  /\ \E order \in Bijection(DOMAIN entries, DOMAIN entries) :
       entries' = [i \in 1 .. Len(entries) |-> entries[order[i]]]
  /\ phase' = IF error THEN "report" ELSE "collect"
  /\ UNCHANGED <<inputs, line, error, tracer>>

(* sprintf() writes the error text to the buffer, whatever its size.        *)
ReportError ==
  /\ phase = "report"
  /\ phase' = "done"
  /\ written' = "error"
  /\ UNCHANGED <<inputs, parser, level, callers, needed, output, printed>>

-----------------------------------------------------------------------------

(* Mutant: the search goes from the first entry to the last.                *)
FindEntry_First(addr) ==
  LET below == {i \in 1 .. Len(entries) : entries[i].rvabase <= addr}
  IN  IF addr = 0 \/ addr > Last(entries).rvabase + Beyond \/ below = {}
        THEN 0 ELSE Min(below)

(* findEntry(): the last entry that is not above the address; 0 if there is *)
(* none.  A table without entries has no last entry to compare with.        *)
FindEntry(addr) ==
  LET below == {i \in 1 .. Len(entries) : entries[i].rvabase <= addr}
  IN  IF addr = 0 \/ addr > Last(entries).rvabase + Beyond \/ below = {}
        THEN 0 ELSE Max(below)

(* getCaller(): the return address at a level, 0 behind the last one        *)
Caller(i) == IF i < Len(stack) THEN stack[i + 1] ELSE 0

(* One pass of the loop that lists the callers; it ends behind an address   *)
(* of 0, and the buffer is made empty.  Addresses without an entry are left *)
(* out.                                                                     *)
CollectCaller ==
  /\ phase = "collect"
  /\ LET addr == Caller(level)
         entry == FindEntry(addr)
     IN  IF entries = <<>> /\ addr # 0
           THEN phase' = "crashed" /\ UNCHANGED <<level, callers, written>>
           ELSE /\ callers' = IF addr = 0 \/ entry = 0 THEN callers
                              ELSE Append(callers, [addr |-> addr,
                                                    entry |-> entries[entry]])
                /\ level' = level + 1
                /\ IF addr = 0 \/ level + 1 >= MaxDepth
                     THEN phase' = "print" /\ written' = "trace"
                     ELSE UNCHANGED <<phase, written>>
  /\ UNCHANGED <<inputs, parser, needed, output, printed>>

(* One pass of the loop that prints them, the outermost first and each one  *)
(* space further right: needed counts every line, a line is appended while  *)
(* there is room.                                                           *)
PrintCaller ==
  /\ phase = "print" /\ printed < Len(callers)
  /\ printed' = printed + 1
  /\ LET caller == callers[Len(callers) - printed]
         size == caller.entry.length + printed + 1
     IN  IF caller.entry.internal
           THEN UNCHANGED <<needed, output>>
           ELSE /\ needed' = needed + size
                /\ output' = IF needed + size < bufferSize
                               THEN Append(output, [of |-> printed + 1,
                                                    size |-> size])
                               ELSE output
  /\ UNCHANGED <<inputs, phase, parser, level, callers, written>>

(* The terminating zero is written at buffer[needed] or at the end.         *)
EndTrace ==
  /\ phase = "print" /\ printed = Len(callers)
  /\ phase' = "done"
  /\ UNCHANGED <<inputs, parser, tracer>>

(* StackTraceCleanup(): ~MapFileImpl() deletes entries[size] down to        *)
(* entries[1], that is a pointer nobody has set, and not the first entry.   *)
Cleanup ==
  /\ phase = "done"
  /\ \/ entries # <<>> /\ phase' = "crashed" /\ UNCHANGED entries
     \/ phase' = "clean" /\ entries' = <<>>
  /\ UNCHANGED <<inputs, line, error, tracer>>

(* The next call of printStackTrace().  The map file is kept even if it     *)
(* could not be read: then this call returns at once.                       *)
CallAgain ==
  /\ phase \in {"done", "clean"} /\ ~ again
  /\ again' = TRUE
  /\ stack' \in Stacks
  /\ callers' = <<>> /\ output' = <<>> /\ level' = 1 /\ needed' = 0 /\ printed' = 0
  /\ written' = "nothing"
  /\ IF phase = "clean"
       THEN phase' = "open" /\ line' = 1 /\ error' = FALSE
       ELSE /\ phase' = IF error THEN "done" ELSE "collect"
            /\ UNCHANGED <<line, error>>
  /\ UNCHANGED <<file, bufferSize, entries>>

Next ==
  \/ Open \/ ReadName \/ Scan \/ SkipBlank
  \/ ReadEntry \/ ReadBadEntry \/ SkipTable \/ EndOfFile
  \/ Sort \/ ReportError \/ CollectCaller \/ PrintCaller \/ EndTrace
  \/ Cleanup \/ CallAgain

Spec == Init /\ [][Next]_vars

-----------------------------------------------------------------------------

Ascending ==
  \A i \in 1 .. Len(entries) - 1 : entries[i].rvabase <= entries[i + 1].rvabase

(* No entry lies between the one that names the caller and its address.     *)
Nearest(c) ==
  \A j \in 1 .. Len(entries) :
    entries[j].rvabase <= c.addr => entries[j].rvabase <= c.entry.rvabase

(* With entries in the order of their addresses every caller is printed     *)
(* under the name of the nearest entry below it; in any other order still   *)
(* under one that is not above it.                                          *)
CallersNamed ==
  \A i \in 1 .. Len(callers) :
    LET c == callers[i]
    IN  c.entry.rvabase <= c.addr /\ (Ascending => Nearest(c))

SizeOf(lines) ==
  LET total[i \in 0 .. Len(lines)] ==
        IF i = 0 THEN 0 ELSE total[i - 1] + lines[i].size
  IN  total[Len(lines)]

TraceSize == SizeOf(output)

TextSize == IF written = "error" THEN ErrorSize ELSE TraceSize

(* The text stays within the buffer with its terminating zero: a trace in a *)
(* buffer of any size, an error text in one of the size the program has to  *)
(* pass.  The zero has its place right behind a trace or in the last byte,  *)
(* and the trace consists of the first lines: no caller is left out before  *)
(* one that is printed.                                                     *)
TraceInBuffer ==
  /\ TraceSize < bufferSize
  /\ bufferSize >= MinBuffer => TextSize < bufferSize
  /\ written = "trace" /\ phase = "done" /\ needed < bufferSize => TraceSize = needed
  /\ \A i \in 1 .. Len(output) :
       \A j \in 1 .. output[i].of :
         callers[Len(callers) - j + 1].entry.internal
           \/ \E k \in 1 .. i : output[k].of = j

(* Both: what printStackTrace() leaves in the buffer is a sound trace.      *)
TraceSound == CallersNamed /\ TraceInBuffer

=============================================================================
