------------------------------ MODULE DumaPrint ------------------------------
(***************************************************************************)
(* DUMA's output without stdio (src/src/print.c): DUMA_vsprintf() and its   *)
(* number conversions, and DUMA_Print(), DUMA_Abort() and DUMA_Exit() on    *)
(* top of it.                                                               *)
(*                                                                          *)
(* A pattern is a sequence of its conversions and literal characters; the   *)
(* text is a sequence of characters, of which only digits, signs and marks  *)
(* for the rest are told apart.  long goes from -LONG_MAX - 1 to LONG_MAX,  *)
(* DUMA_ADDR is as wide.  The output buffer is large enough.                *)
(***************************************************************************)
EXTENDS Integers, Sequences, FiniteSets, SequencesExt

CONSTANTS
  LONG_MAX,     \* the largest long
  Patterns,     \* the patterns of messages
  Numbers       \* the numbers that are printed

VARIABLES
  msg,      \* the message: its pattern, its arguments, the function
  pos,      \* the next element of the pattern
  arg,      \* the next argument
  buffer, len,
  pieces,   \* ghost: where the text of each element is
  sinks,    \* what the program wrote to stdout, stderr and the file
  flags,    \* which of them are enabled; opening the file may fail
  status    \* "format", "print", "returned" or "ended"

vars == <<msg, pos, arg, buffer, len, pieces, sinks, flags, status>>

Modulus == 2 * (LONG_MAX + 1)

LongMin == - LONG_MAX - 1

(* A number as two's complement, signed and unsigned.                       *)
AsLong(n) == ((n - LongMin) % Modulus) + LongMin

AsAddr(n) == n % Modulus

Char == <<"0", "1", "2", "3", "4", "5", "6", "7",
          "8", "9", "a", "b", "c", "d", "e", "f">>

(* '0' + digit of a negative digit is none of the digits.                   *)
DigitChar(digit) == IF digit < 0 THEN "?" ELSE Char[digit + 1]

(* Mutant: a zero is printed as the empty text.                             *)
Sprint_NoZero(value, base) ==
  LET f[v \in 0 .. Modulus - 1] ==
        IF v = 0 THEN <<>>
          ELSE Append(f[v \div base], DigitChar(v % base))
  IN  IF value < 0 THEN <<DigitChar(-((-value) % base))>> ELSE f[value]

(* sprintAddr() and sprintLong(): digits from the last to the first, while  *)
(* (value /= base) > 0.  A negative value has one digit, value % base,      *)
(* which is not positive.                                                   *)
Sprint(value, base) ==
  LET f[v \in 0 .. Modulus - 1] ==
        IF v \div base > 0
          THEN Append(f[v \div base], DigitChar(v % base))
          ELSE <<DigitChar(v % base)>>
  IN  IF value < 0 THEN <<DigitChar(-((-value) % base))>> ELSE f[value]

(* The cases 'i' and 'l'                                                    *)
SprintSigned(n) ==
  IF n < 0 THEN <<"-">> \o Sprint(AsLong(-n), 10) ELSE Sprint(n, 10)

(* The text of one element, and whether it takes an argument.               *)
Converted(c, value) ==
  CASE c \in {"%a", "%x"} -> Sprint(AsAddr(value), 16)
    [] c = "%d"           -> Sprint(AsAddr(value), 10)
    [] c \in {"%i", "%l"} -> SprintSigned(value)
    [] c = "%c"           -> <<"c">>
    [] c = "%s"           -> IF value = 0 THEN <<"N", "U", "L", "L">>
                                          ELSE <<"s", "t", "r">>
    [] c = "%?"           -> <<>>
    [] OTHER              -> <<c>>

TakesArgument(c) == c \in {"%a", "%x", "%d", "%i", "%l", "%s", "%c"}

ArgumentsIn(p) == Cardinality({i \in 1 .. Len(p) : TakesArgument(p[i])})

NoSinks == [stdout |-> <<>>, stderr |-> <<>>, file |-> <<>>]

Prefix(fn) ==
  CASE fn = "DUMA_Print" -> <<>>
    [] fn = "DUMA_Abort" -> <<"Aborting">>
    [] fn = "DUMA_Exit"  -> <<"Exiting">>

Init ==
  /\ \E p \in Patterns, fn \in {"DUMA_Print", "DUMA_Abort", "DUMA_Exit"} :
       \E a \in [1 .. ArgumentsIn(p) -> Numbers] :
         /\ msg = [pattern |-> p, args |-> a, fn |-> fn]
         /\ buffer = Prefix(fn)
         /\ len = Len(Prefix(fn))
  /\ pos = 1 /\ arg = 1
  /\ pieces = <<>>
  /\ sinks = NoSinks
  /\ flags \in [stdout : {"on", "off"}, stderr : {"on", "off"},
                file : {"on", "off", "fails"}]
  /\ status = "format"

(* The sinks after text was written to the enabled ones.                    *)
Written(text) ==
  [f \in DOMAIN sinks |->
     IF flags[f] = "on" THEN sinks[f] \o text ELSE sinks[f]]

(* One pass of the loop of DUMA_vsprintf().  A bad specifier is reported in *)
(* a message of its own and takes no argument.                              *)
FormatElement ==
  /\ status = "format" /\ pos <= Len(msg.pattern)
  /\ LET c == msg.pattern[pos]
         value == IF TakesArgument(c) THEN msg.args[arg] ELSE 0
         text == Converted(c, value)
     IN  /\ buffer' = SubSeq(buffer, 1, len) \o text
         /\ len' = len + Len(text)
         /\ pieces' = Append(pieces, [c |-> c, value |-> value,
                                      first |-> len + 1,
                                      last |-> len + Len(text)])
         /\ arg' = IF TakesArgument(c) THEN arg + 1 ELSE arg
         /\ sinks' = IF c = "%?" THEN Written(<<"bad">>) ELSE sinks
  /\ pos' = pos + 1
  /\ UNCHANGED <<msg, flags, status>>

(* The end of the pattern: buffer[len] = '\0'.  DUMA_Abort() and            *)
(* DUMA_Exit() add a newline.                                               *)
EndPattern ==
  /\ status = "format" /\ pos > Len(msg.pattern)
  /\ buffer' = SubSeq(buffer, 1, len)
                 \o (IF msg.fn = "DUMA_Print" THEN <<>> ELSE <<"\n">>)
  /\ len' = Len(buffer')
  /\ status' = "print"
  /\ UNCHANGED <<msg, pos, arg, pieces, sinks, flags>>

(* The three writes of DUMA_Print(); then DUMA_Abort() and DUMA_Exit() end  *)
(* the process.                                                             *)
WriteMessage ==
  /\ status = "print"
  /\ sinks' = Written(SubSeq(buffer, 1, len))
  /\ status' = IF msg.fn = "DUMA_Print" THEN "returned" ELSE "ended"
  /\ UNCHANGED <<msg, pos, arg, buffer, len, pieces, flags>>

Next == FormatElement \/ EndPattern \/ WriteMessage

Spec == Init /\ [][Next]_vars

-----------------------------------------------------------------------------

(* The number a text denotes.                                               *)
DigitOf(c) == (CHOOSE i \in 1 .. 16 : Char[i] = c) - 1

NumberIn(text, base) ==
  LET sum[i \in 0 .. Len(text)] ==
        IF i = 0 THEN 0 ELSE sum[i - 1] * base + DigitOf(text[i])
  IN  sum[Len(text)]

SignedIn(text) ==
  IF text # <<>> /\ Head(text) = "-" THEN - NumberIn(Tail(text), 10)
                                     ELSE NumberIn(text, 10)

IsNumber(text) ==
  \A i \in 1 .. Len(text) : \E j \in 1 .. 16 : Char[j] = text[i]

(* What a reader of the message finds where the pattern has a conversion is *)
(* the argument, for every number but the smallest long, which has no       *)
(* negation; and no piece overwrites another one.                           *)
ReadsBack ==
  status \in {"returned", "ended"} =>
    \A i \in 1 .. Len(pieces) :
      LET p == pieces[i]
          text == SubSeq(buffer, p.first, p.last)
      IN  /\ p.c \in {"%a", "%x"} => /\ text # <<>> /\ IsNumber(text)
                                     /\ NumberIn(text, 16) = AsAddr(p.value)
          /\ p.c = "%d" => /\ text # <<>> /\ IsNumber(text)
                           /\ NumberIn(text, 10) = AsAddr(p.value)
          /\ p.c \in {"%i", "%l"} /\ p.value # LongMin =>
               /\ text # <<>>
               /\ IsNumber(IF Head(text) = "-" THEN Tail(text) ELSE text)
               /\ SignedIn(text) = p.value
          /\ i < Len(pieces) => pieces[i + 1].first = p.last + 1

(* Before the process ends, the whole message with its prefix has gone to   *)
(* every enabled sink, behind the complaints about the pattern itself.      *)
SaidBeforeEnd ==
  status = "ended" =>
    \A f \in DOMAIN sinks :
      IF flags[f] = "on"
        THEN \E i \in 0 .. Len(sinks[f]) :
               /\ SubSeq(sinks[f], i + 1, Len(sinks[f])) = buffer
               /\ \A j \in 1 .. i : sinks[f][j] = "bad"
               /\ Head(buffer) \in {"Aborting", "Exiting"}
               /\ Last(buffer) = "\n"
        ELSE sinks[f] = <<>>

(* Both: the messages of DUMA say what they were asked to say.              *)
MessageIntact == ReadsBack /\ SaidBeforeEnd

=============================================================================
