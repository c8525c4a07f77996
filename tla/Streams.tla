------------------------------ MODULE Streams -------------------------------
(***************************************************************************)
(* What input and output promise a program that runs: a unit is a sequence *)
(* of records, those of its files one after the other, with a place in it. *)
(* What is written to it reaches its file in the order it was written, at  *)
(* the latest when the unit is closed.                                     *)
(***************************************************************************)
EXTENDS Integers, SequencesExt, FiniteSets

CONSTANTS
  UnitNos,  \* numbers of units
  UNITI,    \* the one INPUT reads
  Std,      \* standard input
  EndLine   \* the line that ends a program

VARIABLES
  disk, \* records of each file there is
  unit, \* what each unit is attached to
  std,  \* records of standard input that were read
  said, \* how the last operation ended
  got   \* the record it read

vars == <<disk, unit, std, said, got>>

Closed == [names |-> <<>>, from |-> 0, n |-> 0, ended |-> FALSE, dir |-> "r", pending |-> <<>>]
Attached(p, d) == [Closed EXCEPT !.names = <<p>>, !.dir = d]

\* The records of files, up to one that is not there.
There(ps) == SelectSeq(ps, LAMBDA p : p \in DOMAIN disk)
Records(ps) ==
  LET first == SelectInSeq(ps, LAMBDA p : p \notin DOMAIN disk)
      there == IF first = 0 THEN ps ELSE SubSeq(ps, 1, first - 1)
  IN FlattenSeq([i \in DOMAIN there |-> disk[there[i]]])
IsStd(u) == unit[u].names = <<Std>>
Place(u) == IF IsStd(u) THEN std ELSE unit[u].n
Moved(u, n) == IF IsStd(u) THEN std' = n /\ UNCHANGED unit
               ELSE std' = std /\ unit' = [unit EXCEPT ![u].n = n]

\* Records written over those behind the n-th.
Over(rs, n, new) == SubSeq(rs, 1, n) \o new \o SubSeq(rs, n + Len(new) + 1, Len(rs))
Written(d, x) == IF x.pending = <<>> THEN d ELSE [d EXCEPT ![x.names[1]] = Over(@, x.n, x.pending)]
Past(x) == [x EXCEPT !.n = @ + Len(x.pending), !.pending = <<>>]

Init == unit = [u \in UnitNos |-> Closed] /\ std = 0 /\ said = "fine" /\ got = EndLine

\* INPUT is what follows the program, or standard input from where it is.
Begin ==
  /\ \E x \in {unit'[UNITI]} : x.names # <<>> /\ unit' = [unit EXCEPT ![UNITI] = x]
  /\ LET x == unit'[UNITI]
     IN \/ x = Attached(Std, "r")
        \/ /\ x = [Closed EXCEPT !.names = x.names, !.from = x.from, !.n = x.from] /\ x.from > 0
           /\ disk[x.names[1]][x.from] = EndLine
  /\ UNCHANGED <<disk, said>>

Read(u) == /\ unit[u].dir = "r" /\ ~unit[u].ended /\ Place(u) < Len(Records(unit[u].names))
           /\ got' = Records(unit[u].names)[Place(u) + 1] /\ said' = "fine"
           /\ Moved(u, Place(u) + 1) /\ UNCHANGED disk
AtEnd(u) == unit[u].ended \/ Place(u) >= Len(Records(unit[u].names))
End(u)  == /\ AtEnd(u) /\ said' = "eof" /\ UNCHANGED <<disk, std>>
           /\ unit' = unit \/ unit' = [unit EXCEPT ![u].ended = TRUE, ![u].n = 0]
\* Reading what is written, or a file that is not there, is an error.
Bad(u)  == /\ unit[u].dir = "w" \/ Len(There(unit[u].names)) < Len(unit[u].names)
           /\ said' = "err" /\ UNCHANGED <<disk, unit, std>>

Write(u) == \/ /\ unit[u].dir = "w" /\ said' = "fine" /\ UNCHANGED <<disk, std>>
               /\ unit' = [unit EXCEPT ![u].pending = Append(@, got')]
            \/ unit[u].dir = "r" /\ said' = "err" /\ UNCHANGED <<disk, unit, std>>
Flush(u) == /\ disk' = Written(disk, unit[u]) /\ unit' = [unit EXCEPT ![u] = Past(@)]
            /\ said' \in {said, "fine"} /\ std' = std

\* INPUT and OUTPUT attach a file in place of those before; when they fail,
\* nothing has changed.
Attach(u, p, d) ==
  /\ unit' = [unit EXCEPT ![u] = Attached(p, d)] /\ said' = "fine" /\ std' = std
  /\ LET old == Written(disk, unit[u])
     IN disk' = IF d = "r" THEN old ELSE [q \in DOMAIN old \cup {p} |-> IF q = p THEN <<>> ELSE old[q]]
Refused == said' = "failed" /\ UNCHANGED <<disk, unit, std>>
Refer   == said' = "fine"   /\ UNCHANGED <<disk, unit, std>>

EndFile(u) == disk' = Written(disk, unit[u]) /\ unit' = [unit EXCEPT ![u] = Closed] /\ said' = "fine" /\ std' = std
Close      == unit' = [u \in UnitNos |-> Closed] /\ std' = 0 /\ said' = "fine" /\ got' = EndLine
              /\ disk' = [p \in DOMAIN disk |->
                            LET on == {u \in UnitNos : unit[u].pending # <<>> /\ unit[u].names = <<p>>}
                            IN IF on = {} THEN disk[p] ELSE Written(disk, unit[CHOOSE u \in on : TRUE])[p]]

\* REWIND goes back to where the program was told to begin; SET anywhere, and
\* then it fails, which is not what the manual says of it (io_seek, see Units).
GoTo(u, n) == /\ disk' = Written(disk, unit[u])
              /\ IF IsStd(u) THEN std' = n /\ unit' = [unit EXCEPT ![u].ended = FALSE]
                 ELSE std' = std /\ unit' = [unit EXCEPT ![u] = [Past(@) EXCEPT !.n = n, !.ended = FALSE]]
Rewind(u) == GoTo(u, unit[u].from) /\ said' = "fine"
Set(u)    == /\ \E n \in 0..(Len(Records(unit[u].names)) + Len(unit[u].pending)) : GoTo(u, n)
             /\ said' = "failed"

Next == \/ Close \/ \E u \in UnitNos : Read(u)
        \/ /\ UNCHANGED got
           /\ \/ Begin \/ Refused \/ Refer
              \/ \E u \in UnitNos :
                   \/ End(u) \/ Bad(u) \/ Write(u) \/ Flush(u) \/ EndFile(u) \/ Rewind(u) \/ Set(u)
                   \/ \E d \in {"r", "w"}, p \in Range(unit'[u].names) : Attach(u, p, d)
Spec == Init /\ [][Next]_vars
=============================================================================
