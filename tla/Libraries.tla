----------------------------- MODULE Libraries ------------------------------
(***************************************************************************)
(* External functions: LOAD, UNLOAD and calls (isnobol4.c, lib/loadx.c),   *)
(* with what dlopen counts and OPSYN and DEFINE do to definitions.         *)
(* Init, Next and Spec have names of their own (LibInit, ...): a model may *)
(* take this component next to others by EXTENDS.                          *)
(***************************************************************************)
EXTENDS Integers, SequencesExt, FiniteSets

CONSTANTS
  Functions, \* names of functions
  Pml,       \* those linked into the program (pml.h)
  Libs,      \* what LOAD is given as a library: names and paths
  Absolute,  \* those that are absolute paths
  FileOf,    \* the file found for a library, or Missing
  Symbols,   \* functions of a file
  Missing,
  Places,    \* addresses malloc has for a function
  Careless   \* whether the program does what ends it, below

VARIABLES
  funcs,  \* the list of loaded functions, the last one first
  libs,   \* the list of open libraries
  opened, \* dlopen's count for each file
  def,    \* what the functions of the program are
  said,   \* how the last operation ended: "fine", "failed" or "crash"
  called  \* what the last CALL called, with what its name was defined as

libvars == <<funcs, libs, opened, def, said, called>>

NoLib == Missing
Undefined == [is |-> "undefined"]
InProgram == [is |-> "program"]
External(a, f, file) == [is |-> "external", at |-> a, name |-> f, file |-> file]
\* A slip: what is freed stays on its list.
StillWith(s, i) == s
Without(s, i) == RemoveAt(s, i)

------------------------------------------------------------------------------
\* libopen: a library by its name, or by what dlopen returns for it.
ByName(l) == {i \in DOMAIN libs : libs[i].name = l}
ByFile(l) == {i \in DOMAIN libs : libs[i].file = FileOf[l]}
Known(l)  == IF ByName(l) # {} THEN ByName(l) ELSE ByFile(l)
Opened(l) ==
  IF Known(l) # {} THEN [libs EXCEPT ![CHOOSE i \in Known(l) : TRUE].refs = @ + 1]
  ELSE <<[name |-> l, file |-> FileOf[l], refs |-> 1]>> \o libs
\* dlopen counts; one use too many is given back.
DlOpened(l) == IF Known(l) # {} THEN opened ELSE [opened EXCEPT ![FileOf[l]] = @ + 1]
FileAt(l)   == IF Known(l) # {} THEN libs[CHOOSE i \in Known(l) : TRUE].file ELSE FileOf[l]

\* libclose: the last use of a library closes it.
OfFile(ls, file) == CHOOSE i \in DOMAIN ls : ls[i].file = file
ClosedAtOne(ls, file) == LET i == OfFile(ls, file)
                         IN IF ls[i].refs > 2 THEN [ls EXCEPT ![i].refs = @ - 1] ELSE Without(ls, i)
NotClosed(ls, file) == ls
Closed(ls, file) == LET i == OfFile(ls, file)
                    IN IF ls[i].refs > 1 THEN [ls EXCEPT ![i].refs = @ - 1] ELSE Without(ls, i)
DlClosed(o, ls, file) ==
  IF \E i \in DOMAIN ls : ls[i].file = file /\ ls[i].refs > 1 THEN o ELSE [o EXCEPT ![file] = @ - 1]

\* load links the function in, LOAD2 defines it.
Linked(a, f, file) == /\ funcs' = <<[at |-> a, name |-> f, file |-> file]>> \o funcs
                      /\ def' = [def EXCEPT ![f] = External(a, f, file)]
                      /\ said' = "fine"
InUse == {funcs[i].at : i \in DOMAIN funcs}
\* malloc: with Careless also where a function was that something still names.
Malloc == {a \in Places \ InUse : Careless \/ \A f \in Functions : def[f].is = "external" => def[f].at # a}

LOAD == \E f \in Functions, l \in Libs : \E a \in Malloc :
  /\ UNCHANGED called
  /\ IF f \in Pml THEN Linked(a, f, NoLib) /\ UNCHANGED <<libs, opened>>
     ELSE IF Known(l) = {} /\ FileOf[l] = Missing
          THEN /\ Careless \/ l \notin Absolute
               /\ said' = (IF l \in Absolute THEN "crash" ELSE "failed")
               /\ UNCHANGED <<funcs, libs, opened, def>>
     ELSE IF f \in Symbols[FileAt(l)]
          THEN Linked(a, f, FileAt(l)) /\ libs' = Opened(l) /\ opened' = DlOpened(l)
     ELSE /\ libs' = Closed(Opened(l), FileAt(l))
          /\ opened' = DlClosed(DlOpened(l), Opened(l), FileAt(l))
          /\ said' = "failed" /\ UNCHANGED <<funcs, def>>

\* UNLOAD: the name has no function any more, whatever it was; funload frees
\* the last one loaded by that name, and libclose has a library, or ends the
\* program.
UNLOAD == \E f \in Functions :
  LET here == {i \in DOMAIN funcs : funcs[i].name = f}
      last == CHOOSE i \in here : \A j \in here : i <= j
      fp   == funcs[last]
  IN /\ def' = [def EXCEPT ![f] = Undefined] /\ UNCHANGED called
     /\ IF here = {} THEN said' = "fine" /\ UNCHANGED <<funcs, libs, opened>>
        ELSE IF fp.file = NoLib THEN Careless /\ said' = "crash" /\ UNCHANGED <<funcs, libs, opened>>
        ELSE /\ funcs' = Without(funcs, last) /\ libs' = Closed(libs, fp.file)
             /\ opened' = DlClosed(opened, libs, fp.file) /\ said' = "fine"

OPSYN == \E f, g \in Functions :
  /\ def[f] # def[g]
  /\ def' = [def EXCEPT ![f] = def[g]] /\ said' = "fine"
  /\ UNCHANGED <<funcs, libs, opened, called>>

\* DEFINE makes it a function of the program.
Defines == \E f \in Functions :
  /\ def[f] # InProgram
  /\ def' = [def EXCEPT ![f] = InProgram] /\ said' = "fine"
  /\ UNCHANGED <<funcs, libs, opened, called>>

\* callx: a function that was unloaded is told by its self pointer, which is
\* gone, unless the place is another function's by now.
CALL == \E f \in Functions :
  LET there == {i \in DOMAIN funcs : funcs[i].at = def[f].at}
  IN /\ def[f].is = "external" /\ UNCHANGED <<funcs, libs, opened, def>>
     /\ IF there = {} THEN said' = "failed" /\ UNCHANGED called
        ELSE LET fp == funcs[CHOOSE i \in there : TRUE]
             IN /\ called' = [name |-> fp.name, file |-> fp.file, as |-> def[f].name]
                /\ said' = "fine"

LibInit == /\ funcs = <<>> /\ libs = <<>> /\ opened = [file \in {FileOf[l] : l \in Libs} \ {Missing} |-> 0]
        /\ def = [f \in Functions |-> Undefined] /\ said = "fine"
        /\ called = [name |-> Missing, file |-> Missing, as |-> Missing]
LibNext == said # "crash" /\ (LOAD \/ UNLOAD \/ OPSYN \/ Defines \/ CALL)
LibSpec == LibInit /\ [][LibNext]_libvars

------------------------------------------------------------------------------
\* Libraries are counted: one that is open is open once, for as many functions
\* as were loaded from it and not unloaded, at least one; the others are closed.
Counted ==
  /\ \A i, j \in DOMAIN libs : libs[i].file = libs[j].file => i = j
  /\ \A i \in DOMAIN libs :
       libs[i].refs > 0 /\ libs[i].refs = Cardinality({k \in DOMAIN funcs : funcs[k].file = libs[i].file})
  /\ \A file \in DOMAIN opened :
       opened[file] = Cardinality({i \in DOMAIN libs : libs[i].file = file})
  /\ \A k \in DOMAIN funcs : funcs[k].file # NoLib => opened[funcs[k].file] = 1

\* A call calls the function its name was defined as, in a library that is
\* open; a name whose function was unloaded calls nothing.
CallsItsOwn == [][called' # called => called'.name = called'.as /\ (called'.file # NoLib => opened[called'.file] > 0)]_libvars

\* A LOAD that fails has changed nothing.
FailsClean == [][said' = "failed" => UNCHANGED <<funcs, libs, opened, def>>]_libvars
=============================================================================
