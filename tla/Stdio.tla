------------------------------- MODULE Stdio --------------------------------
(***************************************************************************)
(* One stdio stream on a regular file: libstdio/*.c.                       *)
(*                                                                         *)
(* f holds the FILE with the kernel's side of it.  Every function of the   *)
(* library is an operator that gives the set of its outcomes, records of   *)
(* the new f and the result r: read may be short or fail, write may fail   *)
(* or take only a part.  A call of the program is one action.              *)
(***************************************************************************)
EXTENDS Integers, Sequences, FiniteSets, SequencesExt

CONSTANTS Byte,      \* the bytes, positive numbers
          Newline,   \* one of them
          BUFSIZE,
          MaxFile,   \* bound: the length of the file
          Careful    \* the program avoids the faults of fread (see FReadFit)

ASSUME StdioAssumption ==
  /\ Byte \subseteq Nat \ {0} /\ Newline \in Byte /\ MaxFile \in Nat
  /\ BUFSIZE \in Nat \ {0} /\ Careful \in BOOLEAN

VARIABLES f,     \* the stream
          out    \* the last call and its result

vars == <<f, out>>

EOF == -1
Modes == {"r", "w", "r+"}

(* [f, r]: one outcome of a function. *)
Ret(g, r) == [f |-> g, r |-> r]

(* The outcomes of first, each continued. *)
Then(first, rest(_)) == UNION {rest(o) : o \in first}

Set(g, flags)   == [g EXCEPT !.flags = @ \cup flags]
Clear(g, flags) == [g EXCEPT !.flags = @ \ flags]

-----------------------------------------------------------------------------
(* The kernel.                                                             *)

Overlay(file, p, s) ==
  [i \in 1 .. (IF p + Len(s) > Len(file) THEN p + Len(s) ELSE Len(file)) |->
     IF i \in p + 1 .. p + Len(s) THEN s[i - p] ELSE file[i]]

(* A write that takes only a part is an accident for the caller: every     *)
(* caller repeats or drops bytes after it.                                 *)
write(g, s) ==
  {Ret(g, -1)} \cup
  {Ret([g EXCEPT !.file = Overlay(@, g.pos, SubSeq(s, 1, n)), !.pos = @ + n,
                 !.ok = @ /\ n = Len(s)], n) : n \in 1 .. Len(s)}

(* r: the bytes, or <<EOF>> for an error. *)
read(g, n) ==
  LET most == IF Len(g.file) - g.pos < n THEN Len(g.file) - g.pos ELSE n
  IN  {Ret(g, <<EOF>>)} \cup
      {Ret([g EXCEPT !.pos = @ + k], SubSeq(g.file, g.pos + 1, g.pos + k)) :
         k \in (IF most > 0 THEN 1 .. most ELSE {0})}

lseek(g, to) == IF to < 0 THEN Ret(g, -1) ELSE Ret([g EXCEPT !.pos = to], 0)

-----------------------------------------------------------------------------
(* The library.                                                            *)

(* Mutant: the position is not moved back over what was read ahead. *)
fflushNoSeek(g) ==
  IF "BUFINPUT" \in g.flags
  THEN {Ret([g EXCEPT !.bs = 0, !.bm = 0, !.ungotten = <<>>], 0)}
  ELSE Then(IF g.bm = 0 THEN {Ret(g, 0)} ELSE write(g, SubSeq(g.buf, 1, g.bm)),
            LAMBDA o : IF o.r # g.bm THEN {Ret(Set(o.f, {"ERR"}), -1)}
                       ELSE {Ret([o.f EXCEPT !.bm = 0, !.ungotten = <<>>], 0)})

(* fflush_unlocked: read ahead is given back, output is written.  Not      *)
(* writing all of it leaves the buffer as it was.                          *)
fflush(g) ==
  IF "BUFINPUT" \in g.flags
  THEN LET tmp == g.bm - g.bs
           s   == IF tmp = 0 THEN g
                  ELSE lseek(g, g.pos + tmp - Len(g.ungotten)).f
       IN  {Ret([s EXCEPT !.bs = 0, !.bm = 0, !.ungotten = <<>>], 0)}
  ELSE Then(IF g.bm = 0 THEN {Ret(g, 0)} ELSE write(g, SubSeq(g.buf, 1, g.bm)),
            LAMBDA o : IF o.r # g.bm THEN {Ret(Set(o.f, {"ERR"}), -1)}
                       ELSE {Ret([o.f EXCEPT !.bm = 0, !.ungotten = <<>>], 0)})

(* __fflush4: a change of direction flushes, even if that fails; then the  *)
(* output in the buffer of what is now an input stream is lost.            *)
fflush4(g, next) ==
  IF g.flags \cap {"BUFINPUT"} = next THEN {Ret(g, 0)}
  ELSE {Ret([o.f EXCEPT !.flags = (@ \ {"BUFINPUT"}) \cup next, !.ok = @ /\ o.r = 0], o.r) :
          o \in fflush(g)}

Kaputt(g) == Ret(Set(g, {"ERR"}), EOF)

Store(g, c) == [g EXCEPT !.buf[g.bm + 1] = c, !.bm = @ + 1]

(* fputc_unlocked: the last byte of the buffer is never used. *)
fputc(g, c) ==
  IF "CANWRITE" \notin g.flags THEN {Kaputt(g)}
  ELSE Then(fflush4(g, {}), LAMBDA a :
       IF a.r # 0 THEN {Kaputt(a.f)}
       ELSE Then(IF a.f.bm >= a.f.buflen - 1 THEN fflush(a.f) ELSE {a}, LAMBDA b :
            IF b.r # 0 THEN {Kaputt(b.f)}
            ELSE IF "NOBUF" \in b.f.flags
            THEN {IF w.r = 1 THEN Ret(w.f, c) ELSE Kaputt(w.f) : w \in write(b.f, <<c>>)}
            ELSE IF "BUFLINEWISE" \in b.f.flags /\ c = Newline
            THEN {IF w.r = 0 THEN Ret(w.f, c) ELSE Kaputt(w.f) : w \in fflush(Store(b.f, c))}
            ELSE {Ret(Store(b.f, c), c)}))

(* The loops of fwrite.  put[i] are the outcomes after i turns; r is 0     *)
(* while the loop goes on.                                                 *)

(* The loop of fputc.  When it ends early the result counts what was not   *)
(* written, which is an accident.                                          *)
PutEach(g, s) ==
  LET put[i \in 0 .. Len(s)] ==
        IF i = 0 THEN {Ret(g, 0)}
        ELSE Then(put[i - 1], LAMBDA o :
             IF o.r # 0 THEN {o}
             ELSE {IF p.r = EOF THEN Ret([p.f EXCEPT !.ok = FALSE], Len(s) + 1 - i) ELSE Ret(p.f, 0) :
                     p \in fputc(o.f, s[i])})
  IN  put[Len(s)]

(* The line buffered loop: bytes that fit, a flush after each newline. *)
PutLines(g, s) ==
  LET put[i \in 0 .. Len(s)] ==
        IF i = 0 THEN {Ret(g, 0)}
        ELSE Then(put[i - 1], LAMBDA o :
             IF o.r # 0 THEN {o}
             ELSE {IF p.r # 0 THEN Kaputt(p.f) ELSE p :
                     p \in IF s[i] = Newline THEN fflush(Store(o.f, s[i]))
                           ELSE {Ret(Store(o.f, s[i]), 0)}})
  IN  put[Len(s)]

(* A turn of the block buffered loop (again:): fill, and flush a full      *)
(* buffer.  left are the bytes for the next turn.                          *)
Block(g, s) ==
  LET todo == IF g.buflen - g.bm > Len(s) THEN Len(s) ELSE g.buflen - g.bm
      full == [g EXCEPT !.buf = Overlay(@, g.bm, SubSeq(s, 1, todo)), !.bm = @ + todo]
      Turn(o, left) == [f |-> o.f, r |-> o.r, left |-> left]
  IN  IF todo = 0 THEN {Turn(o, <<>>) : o \in PutEach(g, s)}
      ELSE IF full.bm # full.buflen THEN {Turn(Ret(full, 0), <<>>)}
      ELSE {IF o.r # 0 THEN Turn(Kaputt(o.f), <<>>) ELSE Turn(o, SubSeq(s, todo + 1, Len(s))) :
              o \in fflush(full)}

PutBlocks(g, s) ==
  LET put[i \in 0 .. Len(s)] ==
        IF i = 0 THEN {[f |-> g, r |-> 0, left |-> s]}
        ELSE Then(put[i - 1], LAMBDA o : IF o.left = <<>> THEN {o} ELSE Block(o.f, o.left))
  IN  {Ret(o.f, o.r) : o \in put[Len(s)]}

(* fwrite_unlocked, of bytes: how many were written. *)
fwrite(g, s) ==
  IF "CANWRITE" \notin g.flags THEN {Ret(Set(g, {"ERR"}), 0)}
  ELSE Then(fflush4(g, {}), LAMBDA a :
       LET h     == a.f
           todo  == IF h.buflen - h.bm > Len(s) THEN Len(s) ELSE h.buflen - h.bm
           \* o.r is 0, EOF, or at the early end of PutEach what is left
           Count(o) == Ret(o.f, CASE o.r = EOF -> 0 [] o.r = 0 -> Len(s) [] OTHER -> o.r)
       IN  IF a.r # 0 THEN {Ret(Set(h, {"ERR"}), 0)}
           ELSE IF Len(s) > h.buflen \/ "NOBUF" \in h.flags
           THEN Then(fflush(h), LAMBDA b :
                IF b.r # 0 THEN {Ret(b.f, 0)}
                ELSE {IF w.r = -1 THEN Ret(Set(w.f, {"ERR"}), 0) ELSE w : w \in write(b.f, s)})
           ELSE IF "BUFLINEWISE" \in h.flags
           THEN Then(PutLines(h, SubSeq(s, 1, todo)), LAMBDA b :
                IF b.r # 0 THEN {Count(b)}
                ELSE {Count(o) : o \in PutEach(b.f, SubSeq(s, todo + 1, Len(s)))})
           ELSE {Count(o) : o \in PutBlocks(h, s)})

(* fgetc_unlocked *)
fgetc(g) ==
  IF "CANREAD" \notin g.flags THEN {Kaputt(g)}
  ELSE IF g.ungotten # <<>> THEN {Ret([g EXCEPT !.ungotten = <<>>], g.ungotten[1])}
  ELSE IF g.bm < g.bs THEN {Ret([g EXCEPT !.bm = @ + 1], g.buf[g.bm + 1])}
  ELSE IF "EOF" \in g.flags THEN {Ret(g, EOF)}
  ELSE Then(fflush4(g, {"BUFINPUT"}), LAMBDA a :
       IF a.r # 0 THEN {Ret(a.f, EOF)}
       ELSE IF a.f.bm < a.f.bs THEN {Ret([a.f EXCEPT !.bm = @ + 1], a.f.buf[a.f.bm + 1])}
       ELSE {IF o.r = <<>> THEN Ret(Set(o.f, {"EOF"}), EOF)
             ELSE IF o.r = <<EOF>> THEN Kaputt(o.f)
             ELSE Ret([o.f EXCEPT !.buf = Overlay(@, 0, o.r), !.bs = Len(o.r), !.bm = 1], o.r[1]) :
               o \in read(a.f, a.f.buflen)})

(* fgetc until n bytes, EOF or the byte stop; got are the bytes so far. *)
GetEach(g, n, stop, got) ==
  LET get[i \in 0 .. n] ==
        IF i = 0 THEN {[f |-> g, r |-> got, more |-> TRUE]}
        ELSE Then(get[i - 1], LAMBDA o :
             IF ~o.more THEN {o}
             ELSE {IF p.r = EOF THEN [f |-> p.f, r |-> o.r, more |-> FALSE]
                   ELSE [f |-> p.f, r |-> Append(o.r, p.r), more |-> p.r # stop] :
                     p \in fgetc(o.f)})
  IN  {Ret(o.f, o.r) : o \in get[n]}

(* fgets_unlocked for a buffer of n + 1: up to n bytes of one line. *)
fgets(g, n) == GetEach(g, n, Newline, <<>>)

(* fread's loop of read for what does not fit in the buffer. *)
ReadAll(g, n, got) ==
  LET get[i \in 0 .. n] ==
        IF i = 0 THEN {[f |-> g, r |-> got, left |-> n]}
        ELSE Then(get[i - 1], LAMBDA o :
             IF o.left = 0 THEN {o}
             ELSE {IF p.r \in {<<EOF>>, <<>>}
                   THEN [f |-> Set(p.f, IF p.r = <<>> THEN {"EOF"} ELSE {"ERR"}), r |-> o.r, left |-> 0]
                   ELSE [f |-> p.f, r |-> o.r \o p.r, left |-> o.left - Len(p.r)] :
                     p \in read(o.f, o.left)})
  IN  {Ret(o.f, o.r) : o \in get[n]}

(* fread_unlocked, of n > 0 bytes.  It neither flushes output nor makes    *)
(* the stream an input stream; a failing read leaves bs; and with a byte   *)
(* pushed back it may take one byte too many.                              *)
fread(g, n) ==
  IF "CANREAD" \notin g.flags THEN {Ret(Set(g, {"ERR"}), <<>>)}
  ELSE IF g.ungotten # <<>> /\ n = 1 THEN {Ret([g EXCEPT !.ungotten = <<>>], g.ungotten)}
  ELSE
  Then(IF g.bs # g.bm THEN {Ret(g, <<>>)}
       ELSE {IF o.r = <<>> THEN Ret(Set([o.f EXCEPT !.bm = 0], {"EOF"}), <<EOF>>)
             ELSE IF o.r = <<EOF>> THEN Ret(Set([o.f EXCEPT !.bm = 0], {"ERR"}), <<EOF>>)
             ELSE Ret([o.f EXCEPT !.buf = Overlay(@, 0, o.r), !.bs = Len(o.r), !.bm = 0], <<>>) :
               o \in read(g, g.buflen)},
  LAMBDA a :
       LET h      == [a.f EXCEPT !.ungotten = <<>>]
           tocopy == IF n > h.bs - h.bm THEN h.bs - h.bm ELSE n
           got    == g.ungotten \o SubSeq(h.buf, h.bm + 1, h.bm + tocopy)
           h2     == IF h.bm + tocopy = h.bs THEN [h EXCEPT !.bm = 0, !.bs = 0]
                     ELSE [h EXCEPT !.bm = @ + tocopy]
       IN  IF a.r = <<EOF>> THEN {Ret(h, g.ungotten)}
           ELSE IF Len(got) >= n THEN {Ret(h2, got)}
           ELSE IF n > h2.buflen THEN ReadAll(h2, n - Len(got), got)
           ELSE GetEach(h2, n - Len(got), EOF, got))

(* Mutant: a byte is taken back without looking whether there is one. *)
ungetcBlind(g, c) ==
  IF g.ungotten # <<>> THEN Ret(g, EOF)
  ELSE Ret([Clear(g, {"ERR", "EOF"}) EXCEPT !.bm = @ - 1], c)

(* ungetc_unlocked *)
ungetc(g, c) ==
  IF g.ungotten # <<>> THEN Ret(g, EOF)
  ELSE LET h == Clear(g, {"ERR", "EOF"})
       IN  IF g.bm > 0 /\ g.buf[g.bm] = c THEN Ret([h EXCEPT !.bm = @ - 1], c)
           ELSE Ret([h EXCEPT !.ungotten = <<c>>], c)

(* Where a seek goes, from the kernel's position. *)
Target(g, whence, offset) ==
  offset + CASE whence = "SET" -> 0 [] whence = "CUR" -> g.pos [] whence = "END" -> Len(g.file)

(* fseek_unlocked and fseeko_unlocked; a flush that fails is ignored, and  *)
(* its bytes are lost.                                                     *)
fseek(g, whence, offset) ==
  {LET h == Clear([o.f EXCEPT !.bm = 0, !.bs = 0, !.ungotten = <<>>, !.ok = @ /\ o.r = 0],
                  {"ERR", "EOF"})
   IN  lseek(h, Target(h, whence, offset)) : o \in fflush(g)}

ftell(g) ==
  IF "ERR" \in g.flags THEN -1
  ELSE IF "BUFINPUT" \in g.flags THEN g.pos - (g.bs - g.bm) - Len(g.ungotten)
  ELSE g.pos + g.bm

(* __stdio_init_file, and freopen_unlocked, which does not mark the stream *)
(* as input and leaves the buffer.                                         *)
CanDo(mode) == CASE mode = "r" -> {"CANREAD"} [] mode = "w" -> {"CANWRITE"}
                 [] mode = "r+" -> {"CANREAD", "CANWRITE"}

Opened(g, mode) == [g EXCEPT !.pos = 0, !.file = IF mode = "w" THEN <<>> ELSE @]

init_file(g, mode) ==
  [Opened(g, mode) EXCEPT !.bm = 0, !.bs = 0, !.ungotten = <<>>,
     !.buflen = BUFSIZE, !.buf = [i \in 1 .. BUFSIZE |-> Newline],
     !.flags = CanDo(mode) \cup (IF mode = "w" THEN {} ELSE {"BUFINPUT"}), !.open = TRUE]

freopen(g, mode) ==
  {[Opened(o.f, mode) EXCEPT !.flags = CanDo(mode), !.ok = @ /\ o.r = 0] : o \in fflush(g)}

-----------------------------------------------------------------------------
(* The program.                                                            *)

Init ==
  \E file \in BoundedSeq(Byte, MaxFile), mode \in Modes :
    LET blank == [file |-> file, pos |-> 0, flags |-> {}, bm |-> 0, bs |-> 0,
                  buf |-> <<>>, buflen |-> 0, ungotten |-> <<>>, open |-> TRUE, ok |-> TRUE]
    IN  /\ f = init_file(blank, mode)
        /\ out = [op |-> "open"]

(* The bytes the program sees, and its place in them. *)
Output  == "BUFINPUT" \notin f.flags
Content == IF Output THEN Overlay(f.file, f.pos, SubSeq(f.buf, 1, f.bm)) ELSE f.file
Pos     == IF Output THEN f.pos + f.bm ELSE f.pos - (f.bs - f.bm)

Room(n) == Pos + n <= MaxFile

FPutC(c) ==
  /\ f.open /\ Room(1)
  /\ \E o \in fputc(f, c) :
       f' = o.f /\ out' = [op |-> "put", s |-> <<c>>, r |-> IF o.r = EOF THEN 0 ELSE 1]

FWrite(s) ==
  /\ f.open /\ Room(Len(s))
  /\ \E o \in fwrite(f, s) : f' = o.f /\ out' = [op |-> "put", s |-> s, r |-> o.r]

Got(o, n, stop) == f' = o.f /\ out' = [op |-> "get", n |-> n, stop |-> stop, r |-> o.r]

FGetC ==
  f.open /\ \E o \in GetEach(f, 1, EOF, <<>>) : Got(o, 1, EOF)

FGetS(n) ==
  f.open /\ \E o \in fgets(f, n) : Got(o, n, Newline)

(* fread is right on a stream that reads, with nothing pushed back and not *)
(* right behind what fgetc has used up.                                    *)
FReadFit == "BUFINPUT" \in f.flags /\ f.ungotten = <<>> /\ (f.bm = f.bs => f.bs = 0)

FRead(n) ==
  f.open /\ (Careful => FReadFit) /\ \E o \in fread(f, n) : Got(o, n, EOF)

(* After reading, and not at the very beginning. *)
UngetC(c) ==
  /\ f.open /\ out.op \in {"get", "tell"} /\ "BUFINPUT" \in f.flags /\ Pos > 0
  /\ LET o == ungetc(f, c) IN f' = o.f /\ out' = [op |-> "unget", r |-> o.r]

FSeek(whence, offset) ==
  /\ f.open
  /\ \E o \in fseek(f, whence, offset) :
       /\ f' = o.f
       /\ out' = [op |-> "seek", r |-> o.r, whence |-> whence, offset |-> offset]

FTell == f.open /\ f' = f /\ out' = [op |-> "tell", r |-> ftell(f)]

FFlush ==
  f.open /\ \E o \in fflush(f) : f' = o.f /\ out' = [op |-> "flush", r |-> o.r]

(* setvbuf before any other call, with no buffer or one from malloc. *)
SetVBuf(kind, size) ==
  /\ f.open /\ out.op = "open"
  /\ f' = [Set(Clear(f, {"NOBUF", "BUFLINEWISE"}), kind) EXCEPT
             !.buflen = IF size = 0 THEN @ ELSE size,
             !.buf = IF size = 0 THEN @ ELSE [i \in 1 .. size |-> Newline],
             !.bm = IF size = 0 THEN @ ELSE 0, !.bs = IF size = 0 THEN @ ELSE 0]
  /\ out' = [op |-> "set"]

ClearErr == f.open /\ f' = Clear(f, {"ERR", "EOF"}) /\ out' = [op |-> "set"]

Purge ==
  f.open /\ f' = [f EXCEPT !.ungotten = <<>>, !.bs = 0, !.bm = 0] /\ out' = [op |-> "purge"]

FClose ==
  /\ f.open
  /\ \E o \in fflush(f) :
       f' = [o.f EXCEPT !.open = FALSE, !.ok = @ /\ o.r = 0, !.bm = 0] /\ out' = [op |-> "close", r |-> o.r]

FOpen(mode) == ~f.open /\ f' = init_file(f, mode) /\ out' = [op |-> "open"]

FReopen(mode) == f.open /\ f' \in freopen(f, mode) /\ out' = [op |-> "open"]

Next ==
  /\ f.ok
  /\ \/ \E c \in Byte : FPutC(c) \/ UngetC(c)
     \/ \E n \in {2, BUFSIZE + 1} : \E s \in [1 .. n -> Byte] : FWrite(s)
     \/ \E n \in {1, 2, BUFSIZE + 1} : FRead(n)
     \/ FGetC \/ FGetS(2)
     \/ FSeek("SET", 0) \/ FSeek("CUR", 0) \/ FSeek("END", -1)
     \/ FTell \/ FFlush \/ ClearErr \/ Purge \/ FClose
     \/ \E kind \in {{"NOBUF"}, {"BUFLINEWISE"}}, size \in {0, 1, BUFSIZE + 1} : SetVBuf(kind, size)
     \/ \E mode \in Modes : FOpen(mode) \/ FReopen(mode)

Spec == Init /\ [][Next]_vars

-----------------------------------------------------------------------------
(* Properties.                                                             *)

TypeOK ==
  /\ f.file \in Seq(Byte) /\ f.pos \in Nat
  /\ f.flags \subseteq {"BUFINPUT", "CANREAD", "CANWRITE", "NOBUF", "BUFLINEWISE", "ERR", "EOF"}
  /\ f.buflen \in 1 .. BUFSIZE + 1 /\ f.buf \in [1 .. f.buflen -> Byte]
  /\ f.bm \in 0 .. f.buflen /\ f.bs \in 0 .. f.buflen
  /\ f.ungotten \in BoundedSeq(Byte, 1) /\ f.open \in BOOLEAN /\ f.ok \in BOOLEAN

(* Through any sequence of calls, failing reads and writes included, the   *)
(* program sees the bytes it wrote at the places it wrote them, and reads  *)
(* what is there: buffering, changes of direction, seeks and push-back are *)
(* invisible.                                                              *)
Stream == INSTANCE StreamSpec WITH
  content <- Content, pos <- Pos, pushed <- f.ungotten,
  err <- "ERR" \in f.flags, ok <- f.ok

ImplementsStream == Stream!Spec
=============================================================================
