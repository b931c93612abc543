-------------------------- MODULE ParseIntegerArg --------------------------
(***************************************************************************)
(* parse_integer_arg, which the three platform layers carry as identical   *)
(* copies (uio_parse_integer_arg, devmem_parse_integer_arg and the Zephyr  *)
(* parse_integer_arg), and the strtol(optarg, NULL, 0) it calls.           *)
(*                                                                         *)
(* An argument is a sequence of one-character strings.  The function      *)
(* checks the characters with isdigit, or with isxdigit after a "0x" or   *)
(* "0X" prefix, then converts the whole string with strtol in base 0 and  *)
(* takes errno = ERANGE for an overflow.  strtol is modelled by what the  *)
(* C library does: base 16 after a 0x prefix followed by a hex digit,     *)
(* base 8 after a leading 0, else base 10; the longest prefix of digits of *)
(* that base is converted; a value above LONG_MAX gives LONG_MAX and sets  *)
(* errno to ERANGE; a successful call leaves errno as it was.              *)
(***************************************************************************)
EXTENDS Integers, Sequences, SequencesExt

CONSTANT LONG_MAX   \* the largest long, 2^63 - 1 in the code, scaled down

ERANGE == 34

\* The value of each character isxdigit accepts.
DigitValue ==
    ("0" :> 0 @@ "1" :> 1 @@ "2" :> 2 @@ "3" :> 3 @@ "4" :> 4 @@ "5" :> 5 @@
     "6" :> 6 @@ "7" :> 7 @@ "8" :> 8 @@ "9" :> 9 @@
     "a" :> 10 @@ "b" :> 11 @@ "c" :> 12 @@ "d" :> 13 @@ "e" :> 14 @@ "f" :> 15 @@
     "A" :> 10 @@ "B" :> 11 @@ "C" :> 12 @@ "D" :> 13 @@ "E" :> 14 @@ "F" :> 15)

isxdigit(ch) == ch \in DOMAIN DigitValue
isdigit(ch)  == isxdigit(ch) /\ DigitValue[ch] < 10

\* optarg[0] == '0' && (optarg[1] == 'x' || optarg[1] == 'X')
HasHexPrefix(s) == Len(s) >= 2 /\ s[1] = "0" /\ s[2] \in {"x", "X"}

\* The loop over the string, from after the trimmed "0x" on: every
\* character passes the digit test chosen by the prefix.
is_all_digit(s) ==
    IF HasHexPrefix(s) THEN \A i \in 3..Len(s) : isxdigit(s[i])
    ELSE \A i \in 1..Len(s) : isdigit(s[i])

(***************************************************************************)
(* strtol(s, NULL, 0) on a string of digits and prefix characters.         *)
(***************************************************************************)
StrtolBase(s) ==
    CASE HasHexPrefix(s) /\ Len(s) >= 3 /\ isxdigit(s[3]) -> 16
      [] Len(s) >= 1 /\ s[1] = "0"                        -> 8
      [] OTHER                                            -> 10

\* The digits strtol converts: from after the prefix up to the first
\* character that is not a digit of the base.
StrtolDigits(s) ==
    LET base == StrtolBase(s)
        rest == IF base = 16 THEN SubSeq(s, 3, Len(s)) ELSE s
        stop == SelectInSeq(rest, LAMBDA ch : ~(isxdigit(ch) /\ DigitValue[ch] < base))
    IN  IF stop = 0 THEN rest ELSE SubSeq(rest, 1, stop - 1)

StrtolValue(s) ==
    FoldLeft(LAMBDA acc, ch : acc * StrtolBase(s) + DigitValue[ch], 0, StrtolDigits(s))

\* The result of strtol and errno after it.
strtol(s, errno) ==
    IF StrtolValue(s) > LONG_MAX THEN [val |-> LONG_MAX, errno |-> ERANGE]
    ELSE [val |-> StrtolValue(s), errno |-> errno]

(***************************************************************************)
(* parse_integer_arg: the value stored, and errno afterwards.  A string    *)
(* with a character that fails the digit test gives 0 and no strtol call; *)
(* otherwise the value is 0 whenever errno is ERANGE after strtol, which   *)
(* strtol does not clear on success.                                       *)
(***************************************************************************)
parse_integer_arg(s, errno) ==
    IF ~is_all_digit(s) THEN [ret |-> 0, errno |-> errno]
    ELSE LET r == strtol(s, errno)
         IN  [ret |-> IF r.errno = ERANGE THEN 0 ELSE r.val, errno |-> r.errno]
=============================================================================
