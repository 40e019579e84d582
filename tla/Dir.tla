-------------------------------- MODULE Dir ---------------------------------
(***************************************************************************)
(* Directory streams: lib/opendir.c, readdir_r.c, telldir.c, seekdir.c and *)
(* rewinddir.c.                                                            *)
(*                                                                         *)
(* The directory does not change.  Its k-th entry takes Reclen[k] units of *)
(* a buffer of BufSize units and its d_off is k; the kernel's position is  *)
(* the number of entries it has handed out.                                *)
(***************************************************************************)
EXTENDS Integers, Sequences

CONSTANTS Reclen, BufSize

ASSUME DirAssumption ==
  Reclen \in Seq(1 .. BufSize) /\ BufSize \in Nat

VARIABLES kpos,          \* lseek(d->fd,0,SEEK_CUR)
          buf,           \* buf[c]: the entry whose record begins at c, or whose rest is left there
          num, dcur,     \* d->num, d->cur
          off0,          \* the d_off that seekdir wrote over the first record, or -1
          got, mark      \* results of readdir and telldir

dirvars == <<kpos, buf, num, dcur, off0, got, mark>>

Units == 0 .. BufSize - 1

(* The page that opendir maps is zero. *)
DirInit ==
  /\ kpos = 0 /\ buf = [c \in Units |-> 0] /\ num = 0 /\ dcur = 0
  /\ off0 = -1 /\ got = 0 /\ mark = 0

-----------------------------------------------------------------------------
(* The sum of the lengths of entries i to j. *)
Span1(i, j) ==
  LET sum[k \in 0 .. Len(Reclen)] == IF k = 0 THEN 0 ELSE sum[k - 1] + Reclen[k]
  IN  sum[j] - sum[i - 1]

(* getdents: as many entries as fit.  It may fail. *)
Getdents ==
  \E n \in 0 .. Len(Reclen) - kpos :
    /\ Span1(kpos + 1, kpos + n) <= BufSize
    /\ kpos + n < Len(Reclen) => Span1(kpos + 1, kpos + n + 1) > BufSize
    /\ kpos' = kpos + n
    /\ IF n = 0 THEN got' = 0 /\ UNCHANGED <<buf, num, off0>>
       ELSE /\ buf' = [c \in Units |->
                         IF \E k \in kpos + 1 .. kpos + n : Span1(kpos + 1, k - 1) = c
                         THEN CHOOSE k \in kpos + 1 .. kpos + n : Span1(kpos + 1, k - 1) = c
                         ELSE buf[c]]
            /\ num' = Span1(kpos + 1, kpos + n) /\ off0' = -1 /\ got' = kpos + 1

(* d->cur += ld->d_reclen, unless the buffer is used up *)
Advanced == IF num = 0 \/ dcur >= num THEN dcur ELSE dcur + Reclen[buf[dcur]]

(* readdir_r, and readdir which calls it *)
ReadDir ==
  /\ IF num > 0 /\ Advanced < num
     THEN got' = buf[Advanced] /\ dcur' = Advanced /\ UNCHANGED <<kpos, buf, num, off0>>
     ELSE \/ Getdents /\ dcur' = IF kpos' = kpos THEN Advanced ELSE 0
          \/ got' = 0 /\ dcur' = Advanced /\ UNCHANGED <<kpos, buf, num, off0>>
  /\ UNCHANGED mark

(* The d_off of the record at d->cur.  Behind the last record of a buffer  *)
(* whatever was left there is taken for one, so no program should ask.     *)
TellDir ==
  /\ num > 0 => dcur < num
  /\ mark' = IF kpos = 0 THEN 0 ELSE IF dcur = 0 /\ off0 >= 0 THEN off0 ELSE buf[dcur]
  /\ UNCHANGED <<kpos, buf, num, dcur, off0, got>>

(* Mutant: the place is not written into the buffer. *)
SeekDirForgets ==
  /\ kpos' = mark /\ num' = 0 /\ dcur' = 0
  /\ UNCHANGED <<buf, off0, got, mark>>

(* seekdir to a place telldir has told *)
SeekDir ==
  /\ kpos' = mark /\ num' = 0 /\ dcur' = 0 /\ off0' = mark
  /\ UNCHANGED <<buf, got, mark>>

RewindDir ==
  /\ kpos' = 0 /\ num' = 0 /\ dcur' = 0
  /\ UNCHANGED <<buf, off0, got, mark>>

DirNext == ReadDir \/ TellDir \/ SeekDir \/ RewindDir

DirSpec == DirInit /\ [][DirNext]_dirvars

-----------------------------------------------------------------------------
(* Entries before the next one: those handed out by the kernel, less those *)
(* still in the buffer.                                                    *)
Cursor == INSTANCE DirCursor WITH
            Count <- Len(Reclen),
            place <- IF num > 0 /\ dcur < num THEN buf[dcur] ELSE kpos

(* Whatever the boundaries of the buffers, the calls that fail and the     *)
(* seeks between them, every entry is read once and in its place, and      *)
(* telldir tells that place: also directly after seekdir, when nothing has *)
(* been read from there.                                                   *)
ImplementsCursor == Cursor!CursorSpec
=============================================================================
