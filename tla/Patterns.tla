------------------------------ MODULE Patterns ------------------------------
(***************************************************************************)
(* Matching a text with a pattern: regexec (libregex/rx.c) and fnmatch     *)
(* (libshell/fnmatch.c), pure functions that are tried on their inputs.    *)
(***************************************************************************)
EXTENDS Integers, Sequences, SequencesExt

-----------------------------------------------------------------------------
(***************************************************************************)
(* regexec and the matcher of libregex/rx.c.                               *)
(*                                                                         *)
(* A regular expression is what regcomp makes of it: a sequence of         *)
(* branches, a branch a sequence of pieces, a piece an atom and how often  *)
(* it may match.  Positions in the text are numbers of characters before   *)
(* them; a matcher returns the position behind what it matched, or -1.     *)
(* Parsing, REG_ICASE, what is noted of the brackets and back references   *)
(* are left out.                                                           *)
(***************************************************************************)

CONSTANTS Expressions,   \* the trees that are tried
          Texts,
          Alnum,         \* the letters
          Newline

VARIABLES rx, subject,
          flags,    \* REG_NEWLINE of regcomp, REG_NOTBOL and REG_NOTEOL of regexec
          match     \* what regexec returned

xxvars == <<rx, subject, flags, match>>

GInit ==
  /\ rx \in Expressions /\ subject \in Texts
  /\ flags \in {{}, {"REG_NEWLINE"}, {"REG_NOTBOL", "REG_NOTEOL"}}
  /\ match = <<>>

-----------------------------------------------------------------------------
At(o) == IF o < Len(subject) THEN subject[o + 1] ELSE "end"

IsAlnum(o) == o >= 0 /\ At(o) \in Alnum

LineEnds(o) ==
  \/ "REG_NEWLINE" \in flags /\ At(o) = Newline
  \/ At(o) \in {"end", Newline} /\ "REG_NOTEOL" \notin flags

(* The atoms that match a place, or so many characters. *)
Length1(a, o, notbol) ==
  LET any == At(o) # "end" /\ ~(At(o) = Newline /\ "REG_NEWLINE" \in flags)
  IN  CASE a.type = "EMPTY"     -> 0
        [] a.type = "CHAR"      -> IF At(o) = a.c THEN 1 ELSE -1
        [] a.type = "BRACKET"   -> IF any /\ At(o) \in a.set THEN 1 ELSE -1
        [] a.type = "ANY"       -> IF any THEN 1 ELSE -1
        [] a.type = "STRING"    -> IF IsPrefix(a.str, SubSeq(subject, o + 1, Len(subject)))
                                   THEN Len(a.str) ELSE -1
        [] a.type = "LINESTART" ->
             IF ~notbol /\ (o = 0 \/ ("REG_NEWLINE" \in flags /\ At(o - 1) = Newline)) THEN 0 ELSE -1
        [] a.type = "LINEEND"   -> IF LineEnds(o) THEN 0 ELSE -1
        [] a.type = "WORDSTART" -> IF ~IsAlnum(o - 1) /\ IsAlnum(o) THEN 0 ELSE -1
        [] a.type = "WORDEND"   -> IF IsAlnum(o - 1) /\ ~IsAlnum(o) THEN 0 ELSE -1

RECURSIVE MatchAtom(_, _, _, _), MatchPiece(_, _, _, _), MatchRegex(_, _, _), Repeat(_, _, _, _), BackOff(_, _, _, _)

(* The atom without what follows: its next pointer is 0. *)
Alone(a, o, notbol) ==
  IF a.type = "REGEX" THEN MatchRegex(a.r, o, notbol)
  ELSE LET n == Length1(a, o, notbol) IN IF n < 0 THEN -1 ELSE o + n

(* What next points to: nothing, the next piece, or its atom at once.  The *)
(* inside of an atom is not tried again when what follows does not match.  *)
Follow(b, i, o, notbol) ==
  IF i = Len(b) THEN o
  ELSE IF b[i + 1].min = 1 /\ b[i + 1].max = 1 THEN MatchAtom(b, i + 1, o, notbol)
  ELSE MatchPiece(b, i + 1, o, notbol)

MatchAtom(b, i, o, notbol) ==
  LET end == Alone(b[i].atom, o, notbol)
  IN  IF end < 0 THEN -1 ELSE Follow(b, i, end, notbol)

(* "first, try to match the atom as often as possible, up to a->max        *)
(* times": the positions reached.                                          *)
Repeat(p, ends, k, notbol) ==
  LET end == IF k < p.max THEN Alone(p.atom, Last(ends), notbol) ELSE -1
  IN  IF end < 0 THEN ends ELSE Repeat(p, Append(ends, end), k + 1, notbol)

(* Mutant: one repetition is given back at most. *)
BackOffOnce(b, i, ends, notbol) ==
  LET end == Follow(b, i, Last(ends), notbol)
  IN  IF end >= 0 \/ Len(ends) = 1 THEN end ELSE Follow(b, i, ends[Len(ends) - 1], notbol)

(* "then, while the rest does not match, back off", to no repetition. *)
BackOff(b, i, ends, notbol) ==
  LET end == Follow(b, i, Last(ends), notbol)
  IN  IF end >= 0 \/ Len(ends) = 1 THEN end ELSE BackOff(b, i, Front(ends), notbol)

(* Mutant: too few repetitions are not noticed. *)
MatchPieceFew(b, i, o, notbol) ==
  IF b[i].min = 1 /\ b[i].max = 1 THEN MatchAtom(b, i, o, notbol)
  ELSE BackOff(b, i, Repeat(b[i], <<o>>, 0, notbol), notbol)

MatchPiece(b, i, o, notbol) ==
  IF b[i].min = 1 /\ b[i].max = 1 THEN MatchAtom(b, i, o, notbol)
  ELSE LET ends == Repeat(b[i], <<o>>, 0, notbol)
       IN  IF Len(ends) - 1 < b[i].min THEN -1 ELSE BackOff(b, i, ends, notbol)

(* The first branch that matches; matchbranch is its first piece.  The     *)
(* empty expression matches.                                               *)
MatchRegex(r, o, notbol) ==
  LET hits == {k \in DOMAIN r : MatchPiece(r[k], 1, o, notbol) >= 0}
  IN  IF r = <<>> THEN o ELSE IF hits = {} THEN -1
      ELSE MatchPiece(r[CHOOSE k \in hits : \A j \in hits : k <= j], 1, o, notbol)

(* "if our regex starts with ^, we can skip trying to run it on the rest   *)
(* of the line"                                                            *)
EarlyAbort ==
  "REG_NEWLINE" \notin flags /\ \A k \in DOMAIN rx : rx[k][1].atom.type = "LINESTART"

(* Behind the first position REG_NOTBOL is set. *)
Matched(o) == MatchRegex(rx, o, o > 0 \/ "REG_NOTBOL" \in flags)

RegExec ==
  /\ match = <<>>
  /\ LET hits == {o \in IF EarlyAbort THEN {0} ELSE 0 .. Len(subject) : Matched(o) >= 0}
         so   == CHOOSE o \in hits : \A k \in hits : o <= k
     IN  match' = IF hits = {} THEN <<-1, -1>> ELSE <<so, Matched(so)>>
  /\ UNCHANGED <<rx, subject, flags>>

GNext == RegExec

GSpec == GInit /\ [][GNext]_xxvars

-----------------------------------------------------------------------------
(* The reference: all the places where a match of r from o may end. *)
RECURSIVE EndsR(_, _), EndsB(_, _, _), EndsP(_, _, _)

(* The ends of k to p.max repetitions of an atom. *)
EndsP(p, k, o) ==
  (IF k >= p.min THEN {o} ELSE {}) \cup
  IF k >= p.max THEN {}
  ELSE LET one == IF p.atom.type = "REGEX" THEN EndsR(p.atom.r, o)
                  ELSE LET n == Length1(p.atom, o, "REG_NOTBOL" \in flags)
                       IN  IF n < 0 THEN {} ELSE {o + n}
       IN  UNION {EndsP(p, k + 1, e) : e \in one}

EndsB(b, i, o) ==
  IF i > Len(b) THEN {o} ELSE UNION {EndsB(b, i + 1, e) : e \in EndsP(b[i], 0, o)}

EndsR(r, o) == IF r = <<>> THEN {o} ELSE UNION {EndsB(r[k], 1, o) : k \in DOMAIN r}

Pieces == UNION {Range(rx[k]) : k \in DOMAIN rx}

(* The matcher knows the beginning of a line only where the text begins.   *)
OneLine == "REG_NEWLINE" \notin flags \/ \A p \in Pieces : p.atom.type # "LINESTART"

(* What is reported as a match is one: some way of counting the            *)
(* repetitions and of choosing branches leads from its beginning to its    *)
(* end.  (A piece that is to match at least once backs off to nothing when *)
(* what follows does not match; here such a piece ends its branch.)        *)
MatchSound ==
  match # <<>> /\ match[1] >= 0 /\ OneLine
  /\ (\A k \in DOMAIN rx : \A i \in 1 .. Len(rx[k]) - 1 : rx[k][i].min = 0 \/ rx[k][i].max = 1)
  => match[2] \in EndsR(rx, match[1])

(* If there is a match of an expression without brackets it is found, and  *)
(* the leftmost one is.                                                    *)
MatchComplete ==
  match # <<>> /\ OneLine /\ (\A p \in Pieces : p.atom.type # "REGEX")
  => \A o \in 0 .. Len(subject) :
       EndsR(rx, o) # {} => match[1] \in 0 .. o

-----------------------------------------------------------------------------
(***************************************************************************)
(* fnmatch, libshell/fnmatch.c.                                            *)
(*                                                                         *)
(* A pattern is a sequence of characters and bracket expressions; of these *)
(* only what they match is kept.  Character classes by name and            *)
(* FNM_CASEFOLD are left out.                                              *)
(***************************************************************************)

CONSTANTS Patterns, FileNames,
          Members,    \* Members[b]: what the bracket expression b matches
          FlagSets    \* sets of FNM_ flags

VARIABLES glob, fname, fnm, verdict

fvars == <<glob, fname, fnm, verdict>>

FInit ==
  /\ glob \in Patterns /\ fname \in FileNames
  /\ fnm = {} /\ verdict = "none"

-----------------------------------------------------------------------------
Rest(s) == SubSeq(s, 2, Len(s))

Slash(f) == Head(f) = "/" /\ "PATHNAME" \in fnm

Brackets(c) == c \in DOMAIN Members

(* Mutant: only the first character counts. *)
HiddenFirst(p, f, prev) ==
  /\ Head(f) = "." /\ (p = <<>> \/ Head(p) # ".") /\ "PERIOD" \in fnm
  /\ prev = "none"

(* "don't match if FNM_PERIOD and this is the first char", or FNM_PATHNAME *)
(* and the previous one was a slash.                                       *)
Hidden(p, f, prev) ==
  /\ Head(f) = "." /\ (p = <<>> \/ Head(p) # ".") /\ "PERIOD" \in fnm
  /\ prev = "none" \/ (prev = "/" /\ "PATHNAME" \in fnm)

RECURSIVE fnmatch(_, _, _)

(* Does pattern p match f, which comes behind the character prev?  A star  *)
(* is tried on one character more, then on none.                           *)
fnmatch(p, f, prev) ==
  IF f = <<>> THEN \A i \in DOMAIN p : p[i] = "*"
  ELSE IF Hidden(p, f, prev) THEN FALSE
  ELSE IF p = <<>> THEN Head(f) = "/" /\ "LEADING_DIR" \in fnm
  ELSE CASE Brackets(Head(p)) -> ~Slash(f) /\ Head(f) \in Members[Head(p)] /\ fnmatch(Rest(p), Rest(f), Head(f))
         [] Head(p) = "\\"    ->
              IF "NOESCAPE" \in fnm THEN Head(f) = "\\" /\ fnmatch(Rest(p), Rest(f), Head(f))
              ELSE Len(p) > 1 /\ Head(f) = p[2] /\ fnmatch(Rest(Rest(p)), Rest(f), Head(f))
         [] Head(p) = "*"     ->
              (~Slash(f) /\ fnmatch(p, Rest(f), Head(f))) \/ fnmatch(Rest(p), f, prev)
         [] Head(p) = "?"     -> ~Slash(f) /\ fnmatch(Rest(p), Rest(f), Head(f))
         [] OTHER             -> Head(f) = Head(p) /\ fnmatch(Rest(p), Rest(f), Head(f))

FnMatch ==
  /\ verdict = "none"
  /\ UNCHANGED <<glob, fname>>
  /\ fnm' \in FlagSets
  /\ verdict' = IF fnmatch(glob, fname, "none")' THEN "match" ELSE "FNM_NOMATCH"

FNext == FnMatch

FSpec == FInit /\ [][FNext]_fvars

-----------------------------------------------------------------------------
(* The reference goes through the pattern and keeps all the places of the  *)
(* name that are reached.                                                  *)

Leading(k) == k = 1 \/ ("PATHNAME" \in fnm /\ fname[k - 1] = "/")

Period(k) == k <= Len(fname) /\ "PERIOD" \in fnm /\ fname[k] = "." /\ Leading(k)

(* May a wildcard stand for the k-th character? *)
Wild(k) == ~("PATHNAME" \in fnm /\ fname[k] = "/") /\ ~Period(k)

Escape(i) == glob[i] = "\\" /\ "NOESCAPE" \notin fnm

(* The characters that are quoted: behind every other backslash of a row. *)
Quoted == {i \in DOMAIN glob : \E j \in 1 .. i - 1 :
             /\ (i - j) % 2 = 1 /\ \A k \in j .. i - 1 : Escape(k)
             /\ j = 1 \/ ~Escape(j - 1)}

(* The place behind what token i matches from place k on (k characters are *)
(* before it).  No star stands in front of a leading period.               *)
Step1(i, k) ==
  LET one(ok) == IF k < Len(fname) /\ ok THEN {k + 1} ELSE {}
  IN  IF i \in Quoted THEN one(fname[k + 1] = glob[i])
      ELSE IF Escape(i) THEN IF i = Len(glob) THEN {} ELSE {k}
      ELSE IF glob[i] = "*" THEN {e \in k .. Len(fname) : ~Period(k + 1) /\ \A c \in k + 1 .. e : Wild(c)}
      ELSE IF glob[i] = "?" THEN one(Wild(k + 1))
      ELSE IF Brackets(glob[i]) THEN one(fname[k + 1] \in Members[glob[i]] /\ Wild(k + 1))
      ELSE one(fname[k + 1] = glob[i])

Reached ==
  LET r[i \in 0 .. Len(glob)] == IF i = 0 THEN {0} ELSE UNION {Step1(i, k) : k \in r[i - 1]}
  IN  r[Len(glob)]

(* fnmatch's verdict is right: wildcards do not stand for a slash or the   *)
(* leading period of any part of the path when they must not, and whatever *)
(* a star first was tried on, a match that exists is found.  (A leading    *)
(* period that is quoted in the pattern is not found.)                     *)
FnmatchRight ==
  verdict # "none" /\ (\A i \in Quoted : glob[i] # ".")
  => (verdict = "match") = (\/ Len(fname) \in Reached
                            \/ "LEADING_DIR" \in fnm /\ \E k \in Reached : k < Len(fname) /\ fname[k + 1] = "/")

-----------------------------------------------------------------------------
(* regexec and fnmatch find what there is and nothing else. *)
PatternsRight == MatchSound /\ MatchComplete /\ FnmatchRight
=============================================================================
