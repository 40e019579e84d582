------------------------------- MODULE Strtol -------------------------------
(***************************************************************************)
(* strtoul and strtol, lib/strtoul.c and lib/strtol.c.                     *)
(*                                                                         *)
(* A character is 0 .. 35 for the digits and letters, "x" counted as 33,   *)
(* and Space, Plus and Minus beside them.  An unsigned long has Width bits *)
(* and the multiplication is done in two parts, of LowBits and the rest.   *)
(***************************************************************************)
EXTENDS Integers, Sequences

CONSTANTS Width,       \* 32 or 64
          LowBits,     \* 8
          Lead,        \* what texts may begin with
          Digits,      \* the digits they go on with
          MaxDigits,   \* bound: their number
          Bases        \* arguments

Space == 100
Plus  == 101
Minus == 102
X     == 33

ASSUME StrtolAssumption ==
  /\ Width \in Nat /\ LowBits \in 6 .. Width - 6
  /\ Digits \subseteq 0 .. 35 /\ MaxDigits \in Nat /\ Bases \subseteq Nat

VARIABLES text, call, number    \* the argument, the function, and what it returned

nvars == <<text, call, number>>

NInit ==
  /\ \E l \in Lead, n \in 0 .. MaxDigits : \E d \in [1 .. n -> Digits] : text = l \o d
  /\ call = <<>> /\ number = <<>>

ULONG_MAX == 2^Width - 1
ABS_LONG_MIN == 2^(Width - 1)

-----------------------------------------------------------------------------
Char(s, i) == IF i <= Len(s) THEN s[i] ELSE 1000

(* The first character from i on that is no space. *)
NotSpace(s, i) ==
  CHOOSE k \in i .. Len(s) + 1 : Char(s, k) # Space /\ \A j \in i .. k - 1 : s[j] = Space

(* Mutant: the limit is one too high. *)
AddLate(a, base, c) ==
  LET x == (a.v % 2^LowBits) * base + c
      w == (a.v \div 2^LowBits) * base + x \div 2^LowBits
  IN  [v |-> (w * 2^LowBits + (x % 2^LowBits)) % 2^Width,
       overflow |-> a.overflow \/ w > ULONG_MAX \div 2^LowBits + 1]

(* One more digit; what does not fit into an unsigned long is cut off. *)
Add(a, base, c) ==
  LET x == (a.v % 2^LowBits) * base + c
      w == (a.v \div 2^LowBits) * base + x \div 2^LowBits
  IN  [v |-> (w * 2^LowBits + (x % 2^LowBits)) % 2^Width,
       overflow |-> a.overflow \/ w > ULONG_MAX \div 2^LowBits]

(* The loop over the digits from character i on, and where it ends. *)
Convert(s, i, base) ==
  LET end == CHOOSE k \in i .. Len(s) + 1 : Char(s, k) >= base /\ \A j \in i .. k - 1 : s[j] < base
      sum[k \in i - 1 .. Len(s)] ==
        IF k = i - 1 THEN [v |-> 0, overflow |-> FALSE] ELSE Add(sum[k - 1], base, s[k])
  IN  [sum |-> sum[end - 1], end |-> end]

(* The value returned, the character that *endptr is left at (0: it is not *)
(* set) and errno, for the text from character ptr on.                     *)
strtoul(s, ptr, base) ==
  LET sign == NotSpace(s, ptr)
      orig == IF Char(s, sign) \in {Plus, Minus} THEN sign + 1 ELSE sign
      hex  == base \in {0, 16} /\ Char(s, orig) = 0 /\ Char(s, orig + 1) = X /\ Char(s, orig + 2) < 16
      b    == IF base # 0 THEN base ELSE IF hex THEN 16 ELSE IF Char(s, orig) = 0 THEN 8 ELSE 10
      r    == Convert(s, IF hex THEN orig + 2 ELSE orig, b)
  IN  IF base # 0 /\ base \notin 2 .. 36 THEN [val |-> 0, end |-> 0, errno |-> "EINVAL"]
      ELSE IF r.end = orig THEN [val |-> 0, end |-> ptr, errno |-> "EINVAL"]
      ELSE IF r.sum.overflow THEN [val |-> ULONG_MAX, end |-> r.end, errno |-> "ERANGE"]
      ELSE [val |-> IF Char(s, sign) = Minus THEN (2^Width - r.sum.v) % 2^Width ELSE r.sum.v,
            end |-> r.end, errno |-> ""]

strtol(s, base) ==
  LET sign == NotSpace(s, 1)
      neg  == Char(s, sign) = Minus /\ Char(s, sign + 1) < 36
      nptr == IF neg THEN sign + 1 ELSE sign
      u    == strtoul(s, nptr, base)
      end  == IF u.end = nptr THEN 1 ELSE u.end
  IN  IF u.val < ABS_LONG_MIN THEN [val |-> IF neg THEN -u.val ELSE u.val, end |-> end, errno |-> u.errno]
      ELSE IF u.val = ABS_LONG_MIN /\ neg THEN [val |-> -ABS_LONG_MIN, end |-> end, errno |-> "cleared"]
      ELSE [val |-> IF neg THEN -ABS_LONG_MIN ELSE ABS_LONG_MIN - 1, end |-> end, errno |-> "ERANGE"]

ParseLong ==
  /\ call = <<>>
  /\ \E base \in Bases : call' = <<"strtol", base>> /\ number' = strtol(text, base)
  /\ UNCHANGED text

ParseUnsigned ==
  /\ call = <<>>
  /\ \E base \in Bases : call' = <<"strtoul", base>> /\ number' = strtoul(text, 1, base)
  /\ UNCHANGED text

NNext == ParseLong \/ ParseUnsigned

NSpec == NInit /\ [][NNext]_nvars

-----------------------------------------------------------------------------
(* The reference: of all ways to read a beginning of the text as spaces, a *)
(* sign, the prefix 0x and digits, the longest.                            *)

Prefix(base) ==
  CASE base = 0  -> {<< <<>>, 10>>, << <<0>>, 8>>, << <<0, X>>, 16>>}
    [] base = 16 -> {<< <<>>, 16>>, << <<0, X>>, 16>>}
    [] OTHER     -> {<< <<>>, base>>}

Readings(s, base) ==
  {r \in [spaces : 0 .. 1, sign : {<<>>, <<Plus>>, <<Minus>>}, prefix : Prefix(base), len : 0 .. Len(s)] :
     LET lead  == [i \in 1 .. r.spaces |-> Space] \o r.sign \o r.prefix[1]
         first == Len(lead) + 1
     IN  /\ first - 1 + r.len <= Len(s) /\ SubSeq(s, 1, first - 1) = lead
         /\ r.len > 0 \/ r.prefix = << <<0>>, 8>>
         /\ \A i \in first .. first - 1 + r.len : s[i] < r.prefix[2]
         /\ base = 0 /\ r.prefix[2] = 10 => s[first] # 0}

EndOf(r) == r.spaces + Len(r.sign) + Len(r.prefix[1]) + r.len + 1

Best(s, base) ==
  CHOOSE r \in Readings(s, base) : \A q \in Readings(s, base) : EndOf(q) <= EndOf(r)

Magnitude(s, r) ==
  LET val[k \in 0 .. Len(s)] == IF k = 0 THEN 0 ELSE val[k - 1] * r.prefix[2] + s[EndOf(r) - 1 - r.len + k]
  IN  val[r.len]

(* The number that a text stands for is returned if it can be, and the     *)
(* nearest one with ERANGE if not, though sums wrap around; *endptr is put *)
(* behind the text used, or at its beginning if there is no number.        *)
ParsedRight ==
  number # <<>> /\ call[2] # 1 =>
    IF Readings(text, call[2]) = {} THEN number.val = 0 /\ number.end = 1
    ELSE LET r     == Best(text, call[2])
             mag   == Magnitude(text, r)
             exact == IF r.sign = <<Minus>> THEN -mag ELSE mag
             fits  == IF call[1] = "strtoul" THEN mag <= ULONG_MAX
                      ELSE exact \in -ABS_LONG_MIN .. ABS_LONG_MIN - 1
         IN  /\ number.end = EndOf(r)
             /\ (number.errno = "ERANGE") = ~fits
             /\ number.val = IF fits THEN (IF call[1] = "strtoul" THEN exact % 2^Width ELSE exact)
                             ELSE IF call[1] = "strtoul" THEN ULONG_MAX
                             ELSE IF exact < 0 THEN -ABS_LONG_MIN ELSE ABS_LONG_MIN - 1
=============================================================================
