------------------------------- MODULE Units --------------------------------
(***************************************************************************)
(* Input and output (lib/io.c, lib/stdio_obj.c): units, their lists of     *)
(* files and the streams of those that are open; how the compiler reads    *)
(* its text through them, with files it includes (isnobol4.c); and what    *)
(* INPUT, OUTPUT, ENDFILE, REWIND and SET do while the program runs.       *)
(***************************************************************************)
EXTENDS Integers, SequencesExt, FiniteSets

CONSTANTS
  NUNITS,    \* how many units there may be
  UnitNos,   \* numbers of units
  UNITI,     \* the one the compiler and INPUT read
  Std,       \* the name that means standard input
  StdName,   \* the name INPUT has for it in a list of files
  Lines,     \* the files there are, and what is in them
  IncludeOf, \* the file of a -INCLUDE line
  EndLine,
  Commands,  \* command lines: files, and whether -r was given
  Inputs,    \* files INPUT is asked for
  Outputs,   \* files OUTPUT is asked for
  MaxOps,
  Misused    \* whether the program does what its unit is not fit for, below

\* Units have numbers, one is the compiler's, and a command line has a file.
ASSUME UnitsAssumption ==
  /\ NUNITS \in Nat /\ UnitNos \subseteq 1..NUNITS /\ UNITI \in UnitNos
  /\ \A c \in Commands : c.files \in Seq(STRING) \ {<<>>}

VARIABLES
  io,       \* the files on disk, streams, file structures, units
  includes, \* names of files that were included
  cards,    \* FILENM and LNNOCL, with those INCSTK has
  seen,     \* the lines the compiler got, with what it takes for their places
  cmd,      \* the command line
  does,       \* what the program does
  at,       \* the unit it reads
  ended,     \* how that ended
  got,      \* the record that was read
  ops       \* operations so far

univars == <<io, includes, cards, seen, cmd, does, at, ended, got, ops>>

Nul == 0
StdStream == 1
Unused(f)      == CHOOSE i \in 1..(Cardinality(DOMAIN f) + 1) : i \notin DOMAIN f
With(f, i, x) == [j \in DOMAIN f \cup {i} |-> IF j = i THEN x ELSE f[j]]
Minus(f, s) == [i \in DOMAIN f \ s |-> f[i]]
NewFile(path, next) == [path |-> path, next |-> next, inc |-> FALSE, iop |-> Nul]

\* The list of file structures from one on.
FileChain(h, fp) ==
  LET from[f \in DOMAIN h.files \cup {Nul}] == IF f = Nul THEN <<>> ELSE <<f>> \o from[h.files[f].next]
  IN from[fp]
UpTo(s, x)   == IF x \in Range(s) THEN SubSeq(s, 1, SelectInSeq(s, LAMBDA y : y = x) - 1) ELSE s

------------------------------------------------------------------------------
\* stdio: what was written waits in the stream until it is flushed.
Over(rs, n, new) == SubSeq(rs, 1, n) \o new \o SubSeq(rs, n + Len(new) + 1, Len(rs))
Flushed(h, s) ==
  LET f == h.streams[s]
  IN IF f.buf = <<>> THEN h
     ELSE [h EXCEPT !.disk[f.path] = Over(@, f.pos, f.buf),
                    !.streams[s] = [f EXCEPT !.pos = @ + Len(f.buf), !.buf = <<>>]]
Shut(h, s) == IF s \in {Nul, StdStream} THEN h
              ELSE [Flushed(h, s) EXCEPT !.streams = Minus(@, {s})]
Sought(h, s, n) == [Flushed(h, s) EXCEPT !.streams[s].pos = n]

\* io_fopen.
FileOpened(h, fp, mode) ==
  LET path == h.files[fp].path
      s    == Unused(h.streams)
  IN IF path = Std THEN [h EXCEPT !.files[fp].iop = StdStream]
     ELSE IF mode = "r" /\ path \notin DOMAIN h.disk THEN h
     ELSE [h EXCEPT !.disk = IF mode = "w" THEN With(@, path, <<>>) ELSE @,
                    !.streams = With(@, s, [path |-> path, pos |-> 0, buf |-> <<>>, mode |-> mode]),
                    !.files[fp].iop = s]

\* io_close: the file of a unit is closed, and the next one is its file.
FreedNever(h, fp) == [h.files EXCEPT ![fp].iop = Nul]
Freed(h, fp) == IF h.files[fp].inc THEN Minus(h.files, {fp}) ELSE [h.files EXCEPT ![fp].iop = Nul]
FileClosed(h, u) ==
  LET fp == h.units[u].curr
      f  == h.files[fp]
  IN IF fp = Nul THEN h
     ELSE [Shut(h, f.iop) EXCEPT !.units[u].curr = f.next, !.files = Freed(h, fp)]

\* io_closeall closes all of them and frees the list.
ClosedEach(h, u) ==
  LET n == Len(FileChain(h, h.units[u].curr))
      close[i \in 0..n] == IF i = 0 THEN h ELSE FileClosed(close[i - 1], u)
  IN close[n]
ClosedAll(h, u) ==
  LET g == ClosedEach(h, u)
  IN [g EXCEPT !.files = Minus(@, Range(FileChain(g, g.units[u].head))), !.units[u].head = Nul]

Curr(h, u) == h.units[u].curr
Iop(h, u)  == IF Curr(h, u) = Nul THEN Nul ELSE h.files[Curr(h, u)].iop
Ready(h, u) == IF Curr(h, u) # Nul /\ Iop(h, u) = Nul THEN FileOpened(h, Curr(h, u), "r") ELSE h

\* io_next: the file of a unit is closed, and the next one is opened.
IoNext(h, u) == Ready(IF Iop(h, u) = Nul THEN h ELSE FileClosed(h, u), u)

\* io_setfile: a unit has this one file.
SetFile(h, u, f) ==
  LET g  == ClosedAll(h, u)
      fp == Unused(g.files)
  IN [g EXCEPT !.files = With(@, fp, f), !.units[u] = [curr |-> fp, head |-> fp, offset |-> 0]]

------------------------------------------------------------------------------
\* io_read, of the compiler ("source") or of the running program ("input").
ReadAnswer(h, what) == /\ io' = h /\ ended' = what
                       /\ does' = IF does = "source" THEN "card" ELSE "run"
                       /\ UNCHANGED <<includes, cards, seen, cmd, at, ops>>
Reading   == does \in {"source", "input"}
Here      == Ready(io, at)
Stream    == Here.streams[Iop(Here, at)]
CanRead   == Iop(Here, at) # Nul /\ Stream.mode = "r"
AtEnd     == Stream.pos >= Len(Here.disk[Stream.path])

ReadFails == /\ Reading /\ ~CanRead
             /\ ReadAnswer(Here, IF Curr(io, at) = Nul /\ does = "input" THEN "eof" ELSE "err")
             /\ UNCHANGED got
ReadLine  == /\ Reading /\ CanRead /\ ~AtEnd
             /\ got' = Here.disk[Stream.path][Stream.pos + 1]
             /\ ReadAnswer([Here EXCEPT !.streams[Iop(Here, at)].pos = @ + 1], "fine")
\* The end of a file: the next one, and the compiler is told.
ReadNext  == /\ Reading /\ CanRead /\ AtEnd
             /\ LET h == IoNext(Here, at)
                IN IF Iop(h, at) = Nul \/ does = "source" THEN ReadAnswer(h, "eof")
                   ELSE io' = h /\ UNCHANGED <<includes, cards, seen, cmd, does, at, ended, ops>>
             /\ UNCHANGED got

------------------------------------------------------------------------------
\* The compiler (FORRUN and the loop at XLATRN).
Stop == does' = "stopped" /\ UNCHANGED <<io, includes, cards>>
Unread == UNCHANGED <<cmd, at, ended, got, ops>>

COMP1 == does = "card" /\ ended = "err" /\ Stop /\ UNCHANGED seen /\ Unread

\* FILCHK: the file that ended was included by the one on the stack, or the
\* next file of the command line follows.
FromFile  == [cards EXCEPT !.file = io.files[Curr(io, UNITI)].path, !.line = 0]
FileFirst == IF Curr(io, UNITI) # Nul THEN FromFile ELSE cards
Resumed   == IF cards.stack # <<>> THEN [Head(cards.stack) EXCEPT !.stack = Tail(cards.stack)] ELSE FileFirst
FILCHK ==
  /\ does = "card" /\ ended = "eof" /\ does' = "source" /\ cards' = Resumed
  /\ UNCHANGED <<io, includes, seen>> /\ Unread

Card == does = "card" /\ ended = "fine"
Next1 == [cards EXCEPT !.line = @ + 1]
See  == seen' = Append(seen, [file |-> cards.file, line |-> Next1.line, text |-> got]) /\ Unread

Statement == /\ Card /\ got # EndLine /\ got \notin DOMAIN IncludeOf
             /\ does' = "source" /\ cards' = Next1 /\ See /\ UNCHANGED <<io, includes>>

\* INCLUD keeps the place in the file that includes.
Pushed(name) == [file |-> name, line |-> 0, stack |-> <<[Next1 EXCEPT !.stack = <<>>]>> \o cards.stack]
\* io_include: a file that was not included before goes in front.
INCLUDE ==
  /\ Card /\ got \in DOMAIN IncludeOf /\ See
  /\ LET name == IncludeOf[got]
         fp   == Unused(io.files)
         h    == [io EXCEPT !.files = With(@, fp, [NewFile(name, Curr(io, UNITI)) EXCEPT !.inc = TRUE])]
     IN IF name \in includes THEN does' = "source" /\ cards' = Next1 /\ UNCHANGED <<io, includes>>
        ELSE IF name \notin DOMAIN io.disk THEN Stop
        ELSE /\ io' = [FileOpened(h, fp, "r") EXCEPT !.units[UNITI].curr = fp]
             /\ includes' = includes \cup {name} /\ does' = "source"
             /\ cards' = Pushed(name)

\* io_ecomp: INPUT is standard input, or what follows the program. An END in an
\* included file frees the files that follow it.
XECOMP ==
  /\ Card /\ got = EndLine /\ See /\ does' = "run" /\ UNCHANGED cards
  /\ LET curr == Curr(io, UNITI)
     IN IF ~cmd.r THEN io' = SetFile(io, UNITI, [NewFile(StdName, Nul) EXCEPT !.iop = StdStream]) /\ UNCHANGED includes
        ELSE /\ Misused \/ ~io.files[curr].inc
             /\ io' = [io EXCEPT !.files = Minus(@, Range(UpTo(FileChain(io, io.units[UNITI].head), curr))),
                                 !.units[UNITI] = [curr |-> curr, head |-> curr, offset |-> Stream.pos]]
             /\ includes' = {}

------------------------------------------------------------------------------
\* The program runs.
Op    == does = "run" /\ ops < MaxOps /\ ops' = ops + 1 /\ UNCHANGED <<includes, cards, seen, cmd>>
Does(h, what) == does' = does /\ io' = h /\ ended' = what /\ UNCHANGED <<at, got>>
\* An operation of C on what is not there: a null pointer, memory that is free.
Crash(h) == Misused /\ does' = "crash" /\ io' = h /\ UNCHANGED <<at, ended, got>>

\* PUTIN reads a record, PUTOUT writes one.
PUTIN  == \E u \in UnitNos : Op /\ does' = "input" /\ at' = u /\ UNCHANGED <<io, ended, got>>
PUTOUT == \E u \in UnitNos :
  LET s == Iop(io, u)
  IN Op /\ IF s = Nul \/ io.streams[s].mode = "r" THEN Does(io, "err")
           ELSE Does([io EXCEPT !.streams[s].buf = Append(@, got)], "fine")
\* stdio writes when it likes.
Flush == \E s \in DOMAIN io.streams :
  /\ does = "run" /\ io.streams[s].buf # <<>> /\ io' = Flushed(io, s)
  /\ UNCHANGED <<includes, cards, seen, cmd, does, at, ended, got, ops>>

\* io_openi and io_openo: the file is opened, and then those before it are
\* closed. The offset REWIND goes to is not touched; a file that is opened for
\* output while what was written to it still waits is written twice.
Open(u, path, mode) ==
  LET fp == Unused(io.files)
      h  == FileOpened([io EXCEPT !.files = With(@, fp, NewFile(path, Nul))], fp, mode)
  IN Op /\ IF h.files[fp].iop = Nul THEN Does(io, "failed")
           ELSE Does([ClosedAll(h, u) EXCEPT !.units[u].curr = fp, !.units[u].head = fp], "fine")
READ  == \E u \in UnitNos, path \in Inputs :
  (Misused \/ io.units[u].offset = 0) /\ Open(u, path, "r")
PRINT == \E u \in UnitNos, path \in Outputs :
  /\ Misused \/ \A s \in DOMAIN io.streams :
       io.streams[s].path = path /\ io.streams[s].mode = "w" => s = Iop(io, u) /\ io.streams[s].buf = <<>>
  /\ Misused \/ io.units[u].offset = 0
  /\ Open(u, path, "w")
\* Minus a name the unit keeps its file, which options that are refused free.
Options == \E u \in UnitNos, refused \in BOOLEAN :
  /\ Op
  /\ IF Curr(io, u) = Nul THEN Does(io, "failed")
     ELSE IF ~refused THEN Does(io, "fine")
     ELSE Crash([io EXCEPT !.files = Minus(@, {Curr(io, u)})])

ENDFIL == \E u \in UnitNos : Op /\ Does(ClosedAll(io, u), "fine")

\* Where REWIND goes to.
StartOfFile(u) == 0
Home(u) == io.units[u].offset
\* io_rewind: back to the first file. One that cannot be opened again, as
\* INPUT's standard input, is a null pointer.
REWIND == \E u \in UnitNos :
  LET head == io.units[u].head
      h    == IF Curr(io, u) = head THEN io ELSE Ready([FileClosed(io, u) EXCEPT !.units[u].curr = head], u)
  IN Op /\ IF head = Nul THEN Does(io, "fine")
           ELSE IF Iop(h, u) = Nul THEN Crash(h)
           ELSE Does(Sought(h, Iop(h, u), Home(u)), "fine")

\* io_seek takes success of the stream for failure.
SET == \E u \in UnitNos, n \in -1..1 :
  LET s == Iop(io, u)
  IN Op /\ IF Curr(io, u) = Nul THEN Does(io, "failed")
           ELSE IF s = Nul THEN Crash(io)
           ELSE IF n < 0 THEN Does(Flushed(io, s), "fine")
           ELSE n <= Len(io.disk[io.streams[s].path]) /\ Does(Sought(io, s, n), "failed")

\* io_finish.
END == /\ does = "run" /\ does' = "stopped"
       /\ LET close[u \in 0..NUNITS] ==
                IF u = 0 THEN io ELSE IF u \in UnitNos THEN ClosedAll(close[u - 1], u) ELSE close[u - 1]
          IN io' = close[NUNITS]
       /\ UNCHANGED <<includes, cards, seen, cmd, at, ended, got, ops>>

------------------------------------------------------------------------------
NoUnit == [curr |-> Nul, head |-> Nul, offset |-> 0]
UniInit ==
  /\ cmd \in Commands /\ includes = {} /\ seen = <<>> /\ at = UNITI /\ ended = "fine" /\ ops = 0 /\ got = EndLine
  /\ cards = [file |-> cmd.files[1], line |-> 0, stack |-> <<>>]
  /\ io = Ready([disk |-> Lines,
                 streams |-> [s \in {StdStream} |-> [path |-> Std, pos |-> 0, buf |-> <<>>, mode |-> "r"]],
                 files |-> [i \in DOMAIN cmd.files |->
                              NewFile(cmd.files[i], IF i < Len(cmd.files) THEN i + 1 ELSE Nul)],
                 units |-> [u \in UnitNos |-> IF u = UNITI THEN [curr |-> 1, head |-> 1, offset |-> 0] ELSE NoUnit]],
                UNITI)
  /\ does = IF Iop(io, UNITI) = Nul THEN "stopped" ELSE "source"
UniNext ==
  \/ ReadFails \/ ReadLine \/ ReadNext
  \/ COMP1 \/ FILCHK \/ Statement \/ INCLUDE \/ XECOMP
  \/ PUTIN \/ PUTOUT \/ Flush \/ READ \/ PRINT \/ Options \/ ENDFIL \/ REWIND \/ SET \/ END
UniSpec == UniInit /\ [][UniNext]_univars

------------------------------------------------------------------------------
\* The text of a program: its files, each with the files it includes where it
\* includes them, once, and the place of every line.
Names == DOMAIN Lines \cup Range(IncludeOf)
Text[path \in Names, i \in Nat, done \in SUBSET Names] ==
  IF path \notin DOMAIN Lines \/ i > Len(Lines[path]) THEN [text |-> <<>>, done |-> done]
  ELSE LET line == Lines[path][i]
           new  == line \in DOMAIN IncludeOf /\ IncludeOf[line] \notin done
           inc  == IF new THEN Text[IncludeOf[line], 1, done \cup {IncludeOf[line]}] ELSE [text |-> <<>>, done |-> done]
           rest == Text[path, i + 1, inc.done]
       IN [rest EXCEPT !.text = <<[file |-> path, line |-> i, text |-> line]>> \o inc.text \o @]
SourceText == FoldLeft(LAMBDA t, path : IF path \notin DOMAIN Lines THEN t
                                     ELSE LET more == Text[path, 1, t.done] IN [more EXCEPT !.text = t.text \o @],
                    [text |-> <<>>, done |-> {}], cmd.files).text

\* The compiler gets the text of the program, each line with the file and line
\* it is in (&FILE and &LINE of its statements).
TextAsWritten == IsPrefix(seen, SourceText)

\* A file structure is in the lists of one unit; an open stream is that of one
\* file; what units and files refer to is there.
FilesOwned ==
  LET owner(u) == Range(FileChain(io, io.units[u].curr)) \cup Range(FileChain(io, io.units[u].head))
  IN /\ \A fp \in DOMAIN io.files : Cardinality({u \in UnitNos : fp \in owner(u)}) = 1
     /\ \A s \in DOMAIN io.streams \ {StdStream} : Cardinality({fp \in DOMAIN io.files : io.files[fp].iop = s}) = 1
     /\ \A fp \in DOMAIN io.files : /\ io.files[fp].next \in DOMAIN io.files \cup {Nul}
                                    /\ io.files[fp].iop \in DOMAIN io.streams \cup {Nul}
     /\ \A u \in UnitNos : {io.units[u].curr, io.units[u].head} \subseteq DOMAIN io.files \cup {Nul}

\* The running program sees streams of records.
Running == does \in {"run", "input"}
FilesBefore(u) == LET c == FileChain(io, io.units[u].head) IN UpTo(c, Curr(io, u))
PlaceIn(u) ==
  LET s == Iop(io, u)
      lens == [i \in DOMAIN FilesBefore(u) |-> Len(io.disk[io.files[FilesBefore(u)[i]].path])]
  IN FoldSeq(+, 0, lens) + IF s = Nul THEN 0 ELSE io.streams[s].pos
NameOf(fp) == IF io.files[fp].path = StdName THEN Std ELSE io.files[fp].path
UnitOf(u) ==
  LET chain == FileChain(io, io.units[u].head)
      over  == Curr(io, u) = Nul
      s     == Iop(io, u)
      std   == chain # <<>> /\ NameOf(chain[1]) = Std
      none  == [names |-> <<>>, from |-> 0, n |-> 0, ended |-> FALSE, dir |-> "r", pending |-> <<>>]
  IN IF ~Running \/ chain = <<>> THEN none
     ELSE [none EXCEPT !.names = [i \in DOMAIN chain |-> NameOf(chain[i])], !.from = io.units[u].offset,
             !.n = IF over \/ std THEN 0 ELSE PlaceIn(u), !.ended = over,
             !.dir = IF s = Nul THEN "r" ELSE io.streams[s].mode,
             !.pending = IF s = Nul THEN <<>> ELSE io.streams[s].buf]
Str == INSTANCE Streams WITH
         disk <- io.disk, unit <- [u \in UnitNos |-> UnitOf(u)],
         std <- IF Running THEN io.streams[StdStream].pos ELSE 0,
         said <- IF Running THEN ended ELSE "fine", got <- IF Running THEN got ELSE EndLine
StreamsAsMeant == Str!Spec
=============================================================================
