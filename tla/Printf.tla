------------------------------- MODULE Printf -------------------------------
(***************************************************************************)
(* The integer and string conversions of printf: lib/__v_printf.c and      *)
(* lib/__ltostr.c.                                                         *)
(*                                                                         *)
(* A directive is a sequence of flags, a width, a precision (-1: none) and *)
(* a conversion.  An argument is an int of IntBits bits, or a string of so *)
(* many letters.  Floating point and %c are left out.                      *)
(***************************************************************************)
EXTENDS Integers, Sequences, SequencesExt

CONSTANTS MaxFlags, MaxWidth, MaxPrec,    \* bounds: the directives tried
          Magnitudes, \* of the arguments
          IntBits,    \* 32
          ShortBits   \* 16

Nothing == <<"nothing">>

VARIABLES directive, arg, printed

pfvars == <<directive, arg, printed>>

Directives ==
  [flags : UNION {[1 .. n -> {"#", "-", "+", " ", "0"}] : n \in 0 .. MaxFlags},
   width : 0 .. MaxWidth, prec : -1 .. MaxPrec, conv : {"d", "u", "x", "o", "s"}]

Arguments == Magnitudes \cup {-n : n \in Magnitudes}

PInit ==
  /\ directive \in Directives /\ arg \in Arguments
  /\ directive.conv = "s" => arg >= 0
  /\ printed = Nothing

-----------------------------------------------------------------------------
Digit == <<"0", "1", "2", "3", "4", "5", "6", "7", "8", "9", "a", "b", "c", "d", "e", "f">>

(* __ltostr: the digits of a number, at least one. *)
Ltostr(n, base) ==
  LET digits[i \in Nat] == IF i < base THEN <<Digit[i + 1]>> ELSE digits[i \div base] \o <<Digit[(i % base) + 1]>>
  IN  digits[n]

Base(conv) == CASE conv \in {"d", "u"} -> 10 [] conv = "x" -> 16 [] conv = "o" -> 8

Flag(d, c) == \E i \in DOMAIN d.flags : d.flags[i] = c

(* A zero counts unless a minus came before it. *)
PadWith(d) ==
  IF \E i \in DOMAIN d.flags : d.flags[i] = "0" /\ \A j \in 1 .. i - 1 : d.flags[j] # "-"
  THEN "0" ELSE " "

WritePad(n, c) == [i \in 1 .. n |-> c]

(* Mutant: the sign is not taken off the width. *)
PrintOutWide(s, todo, width, prec, left, pad, precpad) ==
  IF width = 0 /\ prec <= 0 THEN s
  ELSE LET sign  == SubSeq(s, 1, todo)
           body  == SubSeq(s, todo + 1, Len(s))
           w     == IF prec >= 0 /\ width = 0 THEN prec ELSE width
           preci == IF prec >= 0 THEN prec ELSE Len(body)
           fill  == WritePad(w - preci, pad)
       IN  (IF ~left /\ pad = " " THEN fill ELSE <<>>) \o sign
           \o (IF ~left /\ pad # " " THEN fill ELSE <<>>)
           \o WritePad(preci - Len(body), precpad) \o body \o (IF left THEN fill ELSE <<>>)

(* print_out: the sign or prefix is the first todo characters of s. *)
PrintOut(s, todo, width, prec, left, pad, precpad) ==
  IF width = 0 /\ prec <= 0 THEN s
  ELSE LET sign  == SubSeq(s, 1, todo)
           body  == SubSeq(s, todo + 1, Len(s))
           w     == IF prec >= 0 /\ width = todo THEN prec ELSE width - todo
           preci == IF prec >= 0 THEN prec ELSE Len(body)
           fill  == WritePad(w - preci, pad)
       IN  (IF ~left /\ pad = " " THEN fill ELSE <<>>) \o sign
           \o (IF ~left /\ pad # " " THEN fill ELSE <<>>)
           \o WritePad(preci - Len(body), precpad) \o body \o (IF left THEN fill ELSE <<>>)

PrintString(d) ==
  LET sz == IF d.prec >= 0 /\ arg > d.prec THEN d.prec ELSE arg
  IN  PrintOut([i \in 1 .. sz |-> "a"], 0, d.width, -1, Flag(d, "-"), " ", " ")

(* num_printf.  The flag # also makes a long of an int, and a short of an  *)
(* int: it goes on as h does.                                              *)
PrintNumber(d) ==
  LET signed == d.conv = "d"
      n      == IF ~signed THEN arg % 2^IntBits ELSE IF arg < 0 THEN -arg ELSE arg
      digits == Ltostr(IF Flag(d, "#") THEN n % 2^ShortBits ELSE n, Base(d.conv))
      prefix == IF ~Flag(d, "#") \/ d.conv \in {"d", "u"} THEN <<>>
                ELSE IF d.conv = "x" THEN <<"0", "x">> ELSE <<"0">>
      empty  == d.prec >= 0 /\ digits = <<"0">>
      sign   == IF ~signed THEN <<>>
                ELSE IF arg < 0 THEN <<"-">>
                ELSE IF Flag(d, "+") THEN <<"+">> ELSE IF Flag(d, " ") THEN <<" ">> ELSE <<>>
      lead   == IF empty THEN sign ELSE sign \o prefix
      width  == IF d.conv = "x" /\ d.prec > d.width THEN d.prec ELSE d.width
  IN  PrintOut(lead \o (IF empty THEN <<>> ELSE digits), Len(lead), width, d.prec,
               Flag(d, "-"), PadWith(d), "0")

VPrintf ==
  /\ printed = Nothing
  /\ printed' = IF directive.conv = "s" THEN PrintString(directive) ELSE PrintNumber(directive)
  /\ UNCHANGED <<directive, arg>>

PNext == VPrintf

PSpec == PInit /\ [][PNext]_pfvars

-----------------------------------------------------------------------------
Value(d) == IF d.conv # "d" THEN arg % 2^IntBits ELSE IF arg < 0 THEN -arg ELSE arg

Figures(d) == IF Value(d) = 0 /\ d.prec = 0 THEN <<>> ELSE Ltostr(Value(d), Base(d.conv))

(* What the C standard says of a directive: the digits, with zeros up to   *)
(* the precision, sign and prefix before them, and padding to the width,   *)
(* by zeros if there is neither a minus nor a precision.                   *)
Expected(d) ==
  LET value  == Value(d)
      all    == Figures(d)
      digits == WritePad(d.prec - Len(all), "0") \o all
      lead   == CASE d.conv = "d" -> IF arg < 0 THEN <<"-">> ELSE IF Flag(d, "+") THEN <<"+">>
                                     ELSE IF Flag(d, " ") THEN <<" ">> ELSE <<>>
                  [] d.conv = "u" -> <<>>
                  [] d.conv = "x" -> IF Flag(d, "#") /\ value # 0 THEN <<"0", "x">> ELSE <<>>
                  [] d.conv = "o" -> IF Flag(d, "#") /\ (digits = <<>> \/ digits[1] # "0")
                                     THEN <<"0">> ELSE <<>>
      fill   == d.width - Len(lead) - Len(digits)
  IN  IF Flag(d, "-") THEN lead \o digits \o WritePad(fill, " ")
      ELSE IF Flag(d, "0") /\ d.prec < 0 THEN lead \o WritePad(fill, "0") \o digits
      ELSE WritePad(fill, " ") \o lead \o digits

ExpectedString(d) ==
  LET sz   == IF d.prec >= 0 /\ arg > d.prec THEN d.prec ELSE arg
      text == [i \in 1 .. sz |-> "a"]
  IN  IF Flag(d, "-") THEN text \o WritePad(d.width - sz, " ") ELSE WritePad(d.width - sz, " ") \o text

Asked == IF directive.conv = "s" THEN ExpectedString(directive) ELSE Expected(directive)

(* The directives that __v_printf has trouble with: the flag #, a zero     *)
(* that is to be ignored, and a width with a precision below the number of *)
(* digits.                                                                 *)
Unusual ==
  \/ Flag(directive, "#")
  \/ PadWith(directive) = "0" /\ (Flag(directive, "-") \/ directive.prec >= 0)
  \/ directive.width > 0 /\ directive.prec \in 0 .. Len(Figures(directive)) - 1

(* printf puts sign, padding and digits in the order that the standard     *)
(* asks for and to the width that was asked for, whatever flags, width and *)
(* precision are combined, short of the unusual ones.                      *)
PrintedRight ==
  printed # Nothing /\ (directive.conv = "s" \/ ~Unusual) => printed = Asked

(* test/printftest.exp, line 12: where there is a precision the flag 0 is  *)
(* ignored, and %022.5d is padded with spaces.                             *)
ZeroFlagIgnored ==
  /\ printed # Nothing /\ directive.conv # "s"
  /\ Flag(directive, "0") /\ ~Flag(directive, "#") /\ ~Flag(directive, "-")
  /\ directive.prec >= Len(Figures(directive))
  => printed = Asked
=============================================================================
