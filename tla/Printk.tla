------------------------------- MODULE Printk -------------------------------
(***************************************************************************)
(* printk, src/printk.c: a step is one turn of its loop, a format a        *)
(* sequence of characters.  The console and the serial line are what was   *)
(* given to VGA_display_char and SER_write.                                *)
(***************************************************************************)
EXTENDS Integers, SequencesExt

CONSTANTS Formats,             \* the formats printk is called with
          SHORT, INT, LONG,    \* bits of short, int, and long and pointers
          Args,                \* arguments, as long bit patterns
          Strings              \* arguments of %s

PrintkAssumption == /\ 0 < SHORT /\ SHORT <= INT /\ INT <= LONG
                    /\ Args \subseteq 0 .. 2^LONG - 1

VARIABLES fmt, at, vga, ser, printed,
          last    \* the directive that ran last, its argument, its start

vars == <<fmt, at, vga, ser, printed, last>>

None == [type |-> "none", spec |-> "", arg |-> 0, from |-> 0]

Init == /\ fmt \in Formats
        /\ at = 1
        /\ vga = <<>> /\ ser = <<>> /\ printed = 0
        /\ last = None

-----------------------------------------------------------------------------
Bits == [short |-> SHORT, int |-> INT, long |-> LONG, long_long |-> LONG,
         pointer |-> LONG]

Unsigned(n, type) == n % 2^Bits[type]
Signed(n, type) == LET u == Unsigned(n, type)
                   IN  IF u < 2^(Bits[type] - 1) THEN u ELSE u - 2^Bits[type]

\* C's division rounds to zero.
Quotient(n, b) == IF n < 0 THEN -((-n) \div b) ELSE n \div b
Remainder(n, b) == n - b * Quotient(n, b)

\* The character for a digit; one below 0 is some other character.
DIGITS == <<"0", "1", "2", "3", "4", "5", "6", "7", "8", "9", "a", "b", "c",
            "d", "e", "f">>
Digit(r) == IF r < 0 THEN "?" ELSE DIGITS[r + 1]

\* buf after the do loop: the lowest digit first.
Buf(n, b) ==
    LET buf[m \in Int] ==
            <<Digit(Remainder(m, b))>>
                \o IF Quotient(m, b) > 0 THEN buf[Quotient(m, b)] ELSE <<>>
    IN  buf[n]

\* What a print function gives to the console, to the line, and returns.
Both(text) == [vga |-> text, ser |-> text, n |-> Len(text)]

print_unsigned(n, type) == Both(Reverse(Buf(Unsigned(n, type), 10)))

\* Fault: the digits are printed in the order they were found.
HexForwards(n, type) == Both(Buf(Unsigned(n, type), 16))

\* Only the long long version takes a signed number.
print_hex(n, type) ==
    LET m == IF type = "long_long" THEN Signed(n, type) ELSE Unsigned(n, type)
    IN  Both(Reverse(Buf(m, 16)))

\* -n of the most negative number wraps to itself, as the build compiles it.
print_signed(n, type) ==
    LET text == print_unsigned(-Signed(n, type), type)
    IN  IF Signed(n, type) < 0
        THEN [text EXCEPT !.vga = <<"-">> \o @, !.n = @ + 1]
        ELSE print_unsigned(n, type)

print_sized(n, type, spec) ==
    CASE spec = "d" -> print_signed(n, type)
      [] spec = "u" -> print_unsigned(n, type)
      [] spec = "x" -> print_hex(n, type)
      [] OTHER      -> Both(<<>>)

-----------------------------------------------------------------------------
\* A turn of the loop that uses k characters of the format.
Turn(k, out, directive) ==
    /\ at' = at + k
    /\ vga' = vga \o out.vga
    /\ ser' = ser \o out.ser
    /\ printed' = printed + out.n
    /\ last' = directive
    /\ UNCHANGED fmt

Numeric(k, type, spec) ==
    \E n \in Args : Turn(k, print_sized(n, type, spec),
        [type |-> type, spec |-> spec, arg |-> n, from |-> Len(vga)])

Modifiers == [h |-> "short", l |-> "long", q |-> "long_long"]

Directive(c) ==
    \/ c = "%" /\ Turn(2, Both(<<"%">>), None)
    \/ c = "s" /\ \E s \in Strings : Turn(2, Both(s), None)
    \/ c = "c" /\ \E s \in Strings : s # <<>> /\ Turn(2, Both(<<s[1]>>), None)
    \/ c \in {"d", "u", "x"} /\ Numeric(2, "int", c)
    \/ c = "p" /\ Numeric(2, "pointer", "x")
    \/ c \in DOMAIN Modifiers /\ Numeric(3, Modifiers[c], fmt[at + 2])
    \/ /\ c \notin {"%", "s", "c", "d", "u", "x", "p"} \cup DOMAIN Modifiers
       /\ Turn(2, Both(<<"%", c>>), None)

printk == /\ at <= Len(fmt)
          /\ \/ fmt[at] = "%" /\ Directive(fmt[at + 1])
             \/ fmt[at] # "%" /\ Turn(1, Both(<<fmt[at]>>), None)

Spec == Init /\ [][printk]_vars

-----------------------------------------------------------------------------
\* The text on the console, read as a number in base b.
Read(text, b) ==
    LET value(v, c) == v * b + SelectInSeq(DIGITS, LAMBDA d : d = c) - 1
    IN  IF text[1] = "-" THEN -FoldLeft(value, 0, Tail(text))
                         ELSE FoldLeft(value, 0, text)

Shown == SubSeq(vga, last.from + 1, Len(vga))

Value == IF last.spec = "d" THEN Signed(last.arg, last.type)
                            ELSE Unsigned(last.arg, last.type)

\* What a numeric directive of printk shows reads back as its argument, cut
\* to the size of its type, the most negative number and zero included,
\* without a zero in front; and printk counts every character it shows.  The
\* format %qx, which printk takes as well (printk.c:94 and 124), is not among
\* those of the instance: it is signed, shows no digits for a number with its
\* top bit set, and would break this.
ReadsBack ==
    /\ last.type # "none" /\ last.spec \in {"d", "u", "x"} =>
           /\ Read(Shown, IF last.spec = "x" THEN 16 ELSE 10) = Value
           /\ Shown[1] = "0" => Len(Shown) = 1
    /\ printed = Len(vga)
=============================================================================
