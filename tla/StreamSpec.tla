----------------------------- MODULE StreamSpec -----------------------------
(***************************************************************************)
(* What a stdio stream promises: a byte sequence, a position in it and at  *)
(* most one byte pushed back.  out is the last call with its result; the   *)
(* call decides which change it may make.  Nothing is promised after an    *)
(* accident (ok is FALSE): bytes the kernel took only in part, or that a   *)
(* call had to drop because it could not write them.                       *)
(***************************************************************************)
EXTENDS Integers, Sequences, SequencesExt

VARIABLES content, pos, pushed, err, ok, out

vars == <<content, pos, pushed, err, ok, out>>

(* content with s written at position p. *)
Overlay(file, p, s) ==
  [i \in 1 .. (IF p + Len(s) > Len(file) THEN p + Len(s) ELSE Len(file)) |->
     IF i \in p + 1 .. p + Len(s) THEN s[i - p] ELSE file[i]]

(* What can still be read. *)
Ahead == pushed \o SubSeq(content, pos + 1, Len(content))

(* Where a seek counts from; a byte pushed back may count or not. *)
Base(whence) == CASE whence = "SET" -> {0}
                  [] whence = "CUR" -> {pos, pos - Len(pushed)}
                  [] whence = "END" -> {Len(content)}

Init == pos = 0 /\ pushed = <<>> /\ err = FALSE /\ ok = TRUE /\ out.op = "open"

(* Bytes were read: they are those ahead, and fewer than asked for only at *)
(* the end or with an error.                                               *)
Get ==
  /\ out'.op = "get"
  /\ IsPrefix(out'.r, Ahead) /\ Len(out'.r) <= out'.n
  /\ Len(out'.r) < out'.n =>
       out'.r = Ahead \/ err' \/ (out'.r # <<>> /\ Last(out'.r) = out'.stop)
  /\ pushed' = IF out'.r = <<>> THEN pushed ELSE <<>>
  /\ pos' = IF out'.r = <<>> THEN pos ELSE pos + Len(out'.r) - Len(pushed)
  /\ content' = content

(* Bytes were written at the position, of which a pushed back byte may or  *)
(* may not be part: all of them, or with an error some of them.            *)
Put ==
  /\ out'.op = "put"
  /\ pushed' = <<>> \/ (pushed' = pushed /\ out'.r = 0)
  /\ \E k \in 0 .. Len(out'.s), p \in {pos, pos - Len(pushed)} :
       /\ content' = IF k = 0 THEN content ELSE Overlay(content, p, SubSeq(out'.s, 1, k))
       /\ pos' = p + k
       /\ k < Len(out'.s) => out'.r < Len(out'.s) /\ err'

(* Calls that may move the position but never change the content. *)
Move ==
  /\ content' = content
  /\ \/ /\ out'.op = "seek" /\ pushed' = <<>>
        /\ out'.r = 0 => pos' \in {b + out'.offset : b \in Base(out'.whence)}
     \/ out'.op = "flush" /\ pushed' = <<>> /\ pos' \in {pos, pos - Len(pushed)}
     \/ out'.op = "flush" /\ out'.r = -1 /\ err' /\ UNCHANGED <<pos, pushed>>
     \/ /\ out'.op = "tell" /\ UNCHANGED <<pos, pushed>>
        /\ out'.r \in {pos - Len(pushed), -1} /\ (out'.r = -1 => err')
     \/ /\ out'.op = "unget"
        /\ \/ out'.r = -1 /\ UNCHANGED <<pos, pushed>>
           \/ out'.r # -1 /\ pushed' = <<out'.r>> /\ pos' = pos
           \/ out'.r # -1 /\ pushed' = pushed /\ pos' = pos - 1 /\ content[pos] = out'.r
     \/ out'.op = "set" /\ UNCHANGED <<pos, pushed>>
     \/ out'.op = "close" /\ pushed' = <<>>
     \/ out'.op = "open" /\ pos' = 0 /\ pushed' = <<>>

(* A file opened for writing is emptied; __fpurge drops what is buffered. *)
Drop ==
  \/ out'.op = "open" /\ pos' = 0 /\ pushed' = <<>> /\ content' = <<>>
  \/ out'.op = "purge" /\ pushed' = <<>>

Next == IF ok THEN ok' = FALSE \/ (ok' = TRUE /\ (Get \/ Put \/ Move \/ Drop)) ELSE ok' = FALSE

Spec == Init /\ [][Next]_vars
=============================================================================
