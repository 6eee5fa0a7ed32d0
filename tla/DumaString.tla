----------------------------- MODULE DumaString -----------------------------
(***************************************************************************)
(* DUMA's own memcpy(), memmove(), strcpy(), strncpy(), strcat() and        *)
(* strncat() (src/src/duma.c): byte loops behind a test whether the regions *)
(* overlap, which aborts the program.                                       *)
(*                                                                          *)
(* The memory is a short run of bytes.  The program calls one function with *)
(* arguments that the C standard allows but for the overlap: strings are    *)
(* terminated and the destination has room.  DUMA_MEMCPY_OVERLAP, which     *)
(* lets memcpy() to a lower address be, is set or not.                      *)
(***************************************************************************)
EXTENDS Naturals, FiniteSetsExt

CONSTANTS
  MemSize,          \* number of bytes
  Chars             \* the values of a byte; 0 is among them

VARIABLES
  mem,
  call,     \* the function that was called, its arguments and the old memory
  status    \* "ready", "done" or "aborted"

vars == <<mem, call, status>>

Addr == 0 .. MemSize - 1

(* strlen(); only asked of terminated strings                               *)
StrLen(m, s) == Min({i \in 0 .. MemSize - 1 - s : m[s + i] = 0})

Terminated(m, s) == \E i \in 0 .. MemSize - 1 - s : m[s + i] = 0

(* _duma_strnlen()                                                          *)
StrNLen(m, s, size) ==
  Min({size} \cup {i \in 0 .. size - 1 : s + i \in Addr /\ m[s + i] = 0})

(* for (i = 0; i < size; ++i) d[i] = s[i]                                   *)
CopyUp(m, d, s, size) ==
  LET f[i \in 0 .. size] ==
        IF i = 0 THEN m
          ELSE [f[i - 1] EXCEPT ![d + i - 1] = f[i - 1][s + i - 1]]
  IN  f[size]

(* The same from the last byte to the first                                 *)
CopyDown(m, d, s, size) ==
  LET f[i \in 0 .. size] ==
        IF i = 0 THEN m
          ELSE [f[i - 1] EXCEPT ![d + size - i] = f[i - 1][s + size - i]]
  IN  f[size]

(* Both loops of strncpy(): the first one stops at the end of src as it     *)
(* is then, the second one writes zeros.                                    *)
CopyPad(m, d, s, size) ==
  LET f[i \in 0 .. size] ==
        IF i = 0 THEN [mem |-> m, pad |-> FALSE]
          ELSE LET prev == f[i - 1]
                   pad == prev.pad \/ prev.mem[s + i - 1] = 0
               IN  [mem |-> [prev.mem EXCEPT ![d + i - 1] =
                               IF pad THEN 0 ELSE prev.mem[s + i - 1]],
                    pad |-> pad]
  IN  f[size].mem

Init ==
  /\ mem \in [Addr -> Chars]
  /\ call = [fn |-> "none", d |-> 0, s |-> 0, n |-> 0, old |-> mem]
  /\ status = "ready"

Called(fn, d, s, n) ==
  call' = [fn |-> fn, d |-> d, s |-> s, n |-> n, old |-> mem]

Finish(overlap, result) ==
  IF overlap
    THEN status' = "aborted" /\ UNCHANGED mem
    ELSE status' = "done" /\ mem' = result

-----------------------------------------------------------------------------

Memcpy ==
  \E d \in Addr, s \in Addr, n \in 0 .. MemSize, MEMCPY_OVERLAP \in BOOLEAN :
    /\ d + n <= MemSize /\ s + n <= MemSize
    /\ Called("memcpy", d, s, n)
    /\ Finish(\/ s < d /\ d < s + n
              \/ d < s /\ s < d + n /\ ~ MEMCPY_OVERLAP,
              CopyUp(mem, d, s, n))

Memmove ==
  \E d \in Addr, s \in Addr, n \in 0 .. MemSize :
    /\ d + n <= MemSize /\ s + n <= MemSize
    /\ Called("memmove", d, s, n)
    /\ Finish(FALSE, IF d < s THEN CopyUp(mem, d, s, n)
                              ELSE CopyDown(mem, d, s, n))

Strcpy ==
  \E d \in Addr, s \in Addr :
    /\ Terminated(mem, s)
    /\ LET size == StrLen(mem, s) + 1
       IN  /\ d + size <= MemSize
           /\ Called("strcpy", d, s, 0)
           /\ Finish(s < d /\ d < s + size, CopyUp(mem, d, s, size))

(* The overlap test takes srclen for the size of src, without its           *)
(* terminating zero.                                                        *)
Strncpy ==
  \E d \in Addr, s \in Addr, n \in 0 .. MemSize :
    /\ d + n <= MemSize
    /\ Terminated(mem, s) \/ s + n <= MemSize
    /\ Called("strncpy", d, s, n)
    /\ Finish(n > 0 /\ \/ s < d /\ d < s + StrNLen(mem, s, n)
                       \/ d < s /\ s < d + n,
              CopyPad(mem, d, s, n))

(* Mutant: the end of src is compared without its terminating zero.         *)
Strcat_NoZero ==
  \E d \in Addr, s \in Addr :
    /\ Terminated(mem, d) /\ Terminated(mem, s)
    /\ LET end == d + StrLen(mem, d)
           size == StrLen(mem, s) + 1
       IN  /\ end + size <= MemSize
           /\ Called("strcat", d, s, 0)
           /\ Finish(s < end /\ end < s + size - 1, CopyUp(mem, end, s, size))

Strcat ==
  \E d \in Addr, s \in Addr :
    /\ Terminated(mem, d) /\ Terminated(mem, s)
    /\ LET end == d + StrLen(mem, d)
           size == StrLen(mem, s) + 1
       IN  /\ end + size <= MemSize
           /\ Called("strcat", d, s, 0)
           /\ Finish(s < end /\ end < s + size, CopyUp(mem, end, s, size))

(* The zero is written after the loop.                                      *)
Strncat ==
  \E d \in Addr, s \in Addr, n \in 0 .. MemSize :
    /\ Terminated(mem, d)
    /\ Terminated(mem, s) \/ s + n <= MemSize
    /\ LET end == d + StrLen(mem, d)
           len == StrNLen(mem, s, n)
       IN  /\ end + len < MemSize
           /\ Called("strncat", d, s, n)
           /\ IF n = 0
                THEN Finish(FALSE, mem)
                ELSE Finish(s < end /\ end < s + len + 1,
                            [CopyUp(mem, end, s, len) EXCEPT ![end + len] = 0])

Next ==
  /\ status = "ready"
  /\ Memcpy \/ Memmove \/ Strcpy \/ Strncpy \/ Strcat \/ Strncat

Spec == Init /\ [][Next]_vars

-----------------------------------------------------------------------------
(* What the functions are for: size bytes at d become those that were at s, *)
(* all at once.                                                             *)

Moved(m, d, s, size) ==
  [a \in Addr |-> IF a \in d .. d + size - 1 THEN m[s + a - d] ELSE m[a]]

Expected ==
  LET m == call.old
      d == call.d
      s == call.s
      n == call.n
      len == StrNLen(m, s, n)
      end == d + StrLen(m, d)
  IN  CASE call.fn \in {"memcpy", "memmove"} -> Moved(m, d, s, n)
        [] call.fn = "strcpy"  -> Moved(m, d, s, StrLen(m, s) + 1)
        [] call.fn = "strncpy" ->
             [a \in Addr |-> IF a \in d + len .. d + n - 1 THEN 0
                             ELSE Moved(m, d, s, len)[a]]
        [] call.fn = "strcat"  -> Moved(m, end, s, StrLen(m, s) + 1)
        [] call.fn = "strncat" ->
             IF n = 0 THEN m
               ELSE [Moved(m, end, s, len) EXCEPT ![end + len] = 0]

(* The bytes the function reads from src and writes.                        *)
Overlapping ==
  LET m == call.old
      s == call.s
      n == call.n
      from == IF call.fn \in {"strcat", "strncat"}
                THEN call.d + StrLen(m, call.d) ELSE call.d
      size == CASE call.fn = "memcpy" -> n
                [] call.fn \in {"strcpy", "strcat"} -> StrLen(m, s) + 1
                [] call.fn = "strncpy" -> n
                [] call.fn = "strncat" -> StrNLen(m, s, n) + 1
  IN  (s .. s + size - 1) \cap (from .. from + size - 1) # {}

(* The destination of strncpy() begins on the zero that terminates src: the *)
(* first byte written takes the end of src away.                            *)
OnTerminator(m, d, s, n) == d = s + StrNLen(m, s, n) /\ d # s /\ d < s + n

Overrun ==
  call.fn = "strncpy" /\ OnTerminator(call.old, call.d, call.s, call.n)

(* A function either leaves exactly the memory that its C description asks  *)
(* for, although its loop may write on its own source, or it aborts, and    *)
(* then the regions do overlap.  The one exception is strncpy() to the      *)
(* terminating zero of its source: it passes the test and always goes wrong.*)
CopiesExactly ==
  /\ status = "done" => (mem = Expected <=> ~ Overrun)
  /\ status = "aborted" => Overlapping

=============================================================================
