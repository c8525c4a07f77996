--------------------------- MODULE MonitorChannel ---------------------------
(***************************************************************************)
(* The monitor channel: monitor_ipc_runtime.c and a controller, with the   *)
(* FIFOs READY (records) and GO (one answer for each record).              *)
(*                                                                         *)
(* READY never loses a record, so "sent" is all that was written, of which *)
(* the controller has read the first "taken".  A record that a signal cut  *)
(* short ends the reader's understanding: it is "astray" from there on.    *)
(* The controller and the FIFOs are not in the repository; a controller    *)
(* opens READY before GO, answers each record but MWK_END, and may close   *)
(* one or both at any time.                                                *)
(***************************************************************************)
EXTENDS Integers, FiniteSets, SequencesExt

CONSTANTS
  Calls,       \* calls of monitor_emit_...: their kind and the name given
  Identifiers, \* names that look like an identifier
  Lval,        \* "<lval>"
  MaxEvents,   \* events of the program
  Capacity     \* records READY holds

VARIABLES
  pc,        \* where the program is: "run", or in a call of the C library
  attempted, \* g_init_attempted
  ok,        \* g_init_ok
  names,     \* g_names; the id of a name is its index less 1
  todo,      \* the records the event still has to write
  history,   \* the events so far
  sent,
  acks,      \* answers in GO
  ctl, taken \* the controller

prog == <<pc, attempted, ok, names, todo, history>>
monvars == <<prog, sent, acks, ctl, taken>>

None == -1  \* MW_NAME_ID_NONE
Kinds == {"VALUE", "CALL", "RETURN", "LABEL"}

\* "of" is the name meant, which only MWK_NAME_DEF has on the wire; "long" is
\* a record that a pipe may not take at once.
Record(kind, id, of, long) == [kind |-> kind, id |-> id, of |-> of, long |-> long, cut |-> FALSE]
End == Record("END", None, Lval, FALSE)
Cut(r) == [r EXCEPT !.cut = TRUE]
Whole  == \A i \in DOMAIN sent : ~sent[i].cut

\* lvalue_name_id: a place without a name gets one.
Lvalue(c) == IF c.kind = "VALUE" /\ c.name \notin Identifiers THEN Lval ELSE c.name

\* intern_name: an index of names, and how names go on.
Interned(n)  == IF Contains(names, n) THEN names ELSE Append(names, n)
Id(n)        == (CHOOSE i \in DOMAIN Interned(n) : Interned(n)[i] = n) - 1
Definition(n) == Record("NAME_DEF", Id(n), n, TRUE)

\* emit_descr_value, monitor_emit_call, monitor_emit_label: what an event
\* writes, after the definition of a new name.
RecordOf(e) == IF e.kind = "LABEL" THEN Record("LABEL", None, e.of, FALSE)
               ELSE Record(e.kind, Id(e.of), e.of, e.kind = "VALUE")
IsNew(e)    == e.kind # "LABEL" /\ ~Contains(names, e.of)
RecordsLate(e) == IF IsNew(e) THEN <<RecordOf(e), Definition(e.of)>> ELSE <<RecordOf(e)>>
Records(e)  == IF IsNew(e) THEN <<Definition(e.of), RecordOf(e)>> ELSE <<RecordOf(e)>>
Begun(e) == /\ todo' = Records(e) /\ pc' = "write"
            /\ names' = IF e.kind = "LABEL" THEN names ELSE Interned(e.of)

------------------------------------------------------------------------------
\* The program.  monitor_emit_...: an event, for the first of which
\* monitor_init looks for the FIFOs.
Event == \E call \in Calls :
  LET e == [kind |-> call.kind, of |-> Lvalue(call)]
  IN /\ pc = "run" /\ Len(history) < MaxEvents
     /\ history' = Append(history, e) /\ attempted' = TRUE
     /\ IF ok THEN Begun(e)
        ELSE pc' = (IF attempted THEN "run" ELSE "ready") /\ UNCHANGED <<names, todo>>
     /\ UNCHANGED <<ok, sent, acks, ctl, taken>>

\* No monitoring from now on: an environment variable is not set, or GO is
\* not there.
Unmonitored == /\ pc' = "run" /\ UNCHANGED <<attempted, ok, names, todo, history, sent, acks, ctl, taken>>
Disabled == pc = "ready" /\ ctl = "none" /\ Unmonitored
NoGo     == pc = "go" /\ Unmonitored
\* Opening a FIFO waits for the other side to open it.
OpenReady == /\ pc = "ready" /\ ctl = "ready" /\ pc' = "go" /\ ctl' = "go"
             /\ UNCHANGED <<attempted, ok, names, todo, history, sent, acks, taken>>
OpenGo == /\ pc = "go" /\ ctl = "go" /\ ctl' = "reads" /\ ok' = TRUE /\ Begun(Last(history))
          /\ UNCHANGED <<attempted, history, sent, acks, taken>>

HasReader == ctl \in {"reads", "answers", "silent", "astray"}
Answers   == ctl \in {"reads", "answers", "astray"}
\* Another record of the event follows, or the program goes on.
Continued(t) == pc' = IF t = <<>> THEN "run" ELSE "write"

\* emit_record_raw: writev, which waits for room; then wait_ack, but not for
\* MWK_END.
Write == /\ pc = "write" /\ HasReader /\ Len(sent) - taken < Capacity
         /\ sent' = Append(sent, Head(todo)) /\ todo' = Tail(todo)
         /\ pc' = IF Head(todo) = End THEN "gone" ELSE "ack"
         /\ UNCHANGED <<attempted, ok, names, history, acks, ctl, taken>>
\* A signal while a long record waits for room: a part of it is written, and
\* no answer is waited for.  (Once: the reader is lost then.)
WriteShort == /\ pc = "write" /\ HasReader /\ Head(todo).long /\ Whole
              /\ sent' = Append(sent, Cut(Head(todo))) /\ todo' = Tail(todo) /\ Continued(todo')
              /\ UNCHANGED <<attempted, ok, names, history, acks, ctl, taken>>
\* SIGPIPE is caught and ends the program: exit runs monitor_atexit, where the
\* signal is blocked and the write fails.
BrokenPipe == /\ pc = "write" /\ ~HasReader /\ pc' = "gone"
              /\ UNCHANGED <<attempted, ok, names, todo, history, sent, acks, ctl, taken>>
\* wait_ack: a byte or the end of GO; what it says is not looked at.
AnsweredAlways == pc = "ack"
AnsweredByte == acks # <<>>
Answered     == acks # <<>> \/ ~Answers
WaitAck == /\ pc = "ack" /\ Answered /\ acks' = (IF acks = <<>> THEN acks ELSE Tail(acks))
           /\ Continued(todo)
           /\ UNCHANGED <<attempted, ok, names, todo, history, sent, ctl, taken>>

\* exit runs monitor_atexit, which emits MWK_END when there is a channel.
NoAtexit == <<>>
Atexit   == IF ok THEN <<End>> ELSE <<>>
Exit == /\ todo' = Atexit /\ pc' = IF todo' = <<>> THEN "gone" ELSE "write"
        /\ UNCHANGED <<attempted, ok, names, history, sent, acks, ctl, taken>>
\* The program ends; a signal that is caught ends it while it waits.
Finish == pc = "run" /\ Exit
Signal == pc \in {"ready", "go", "write", "ack"} /\ todo # <<End>> /\ Exit
\* A signal that is not caught.
Kill == /\ pc \notin {"gone", "killed"} /\ pc' = "killed"
        /\ UNCHANGED <<attempted, ok, names, todo, history, sent, acks, ctl, taken>>

------------------------------------------------------------------------------
\* The controller.
Start == /\ ctl = "away" /\ ctl' = "ready" /\ UNCHANGED <<prog, sent, acks, taken>>

Read == /\ ctl \in {"reads", "silent"} /\ taken < Len(sent) /\ taken' = taken + 1
        /\ \/ sent[taken'].cut /\ ctl' = "astray"
           \/ sent[taken'] = End /\ ctl' = "done"
           \/ ~sent[taken'].cut /\ sent[taken'] # End /\ ctl' = IF ctl = "silent" THEN "silent" ELSE "answers"
        /\ UNCHANGED <<prog, sent, acks>>
\* 'G', to go on, or 'S', to stop.
Answer == /\ ctl = "answers" /\ ctl' = "reads" /\ \E b \in {"G", "S"} : acks' = Append(acks, b)
          /\ UNCHANGED <<prog, sent, taken>>
\* What follows a record cut short is taken for the rest of it, and whatever
\* comes out of that may be answered.
ReadAstray == /\ ctl = "astray" /\ taken < Len(sent) /\ taken' = taken + 1
              /\ acks' \in {acks, Append(acks, "G")} /\ UNCHANGED <<prog, sent, ctl>>
\* It closes GO and reads on, or closes both.
CloseGo == /\ Answers /\ ctl' = "silent" /\ UNCHANGED <<prog, sent, acks, taken>>
Leave   == /\ HasReader /\ ctl' = "left" /\ UNCHANGED <<prog, sent, acks, taken>>
EndOfFile == /\ HasReader /\ taken = Len(sent) /\ pc \in {"gone", "killed"} /\ ctl' = "done"
             /\ UNCHANGED <<prog, sent, acks, taken>>

------------------------------------------------------------------------------
MonInit == /\ pc = "run" /\ attempted = FALSE /\ ok = FALSE
           /\ names = <<>> /\ todo = <<>> /\ history = <<>>
           /\ sent = <<>> /\ acks = <<>> /\ ctl \in {"none", "away"} /\ taken = 0

Emitter == Event \/ Disabled \/ OpenReady \/ OpenGo \/ Write \/ BrokenPipe \/ WaitAck \/ Finish
Controller == Start \/ Read \/ Answer \/ ReadAstray
Faults == NoGo \/ WriteShort \/ Signal \/ Kill \/ CloseGo \/ Leave \/ EndOfFile
MonNext == Emitter \/ Controller \/ Faults

\* The program runs on to its end; the controller starts, and as long as it
\* keeps a FIFO open it reads, and answers.
MonSpec == MonInit /\ [][MonNext]_monvars /\ WF_monvars(Emitter) /\ WF_monvars(Controller)

------------------------------------------------------------------------------
\* The wire is self-describing: before a record with an id there is the one
\* MWK_NAME_DEF for that id, and it has the name the record is about.
Announced == \A i \in DOMAIN sent : sent[i].id # None /\ sent[i].kind # "NAME_DEF" =>
  \E j \in 1..i - 1 : /\ sent[j].kind = "NAME_DEF" /\ sent[j].id = sent[i].id /\ sent[j].of = sent[i].of
                      /\ \A k \in DOMAIN sent : sent[k].kind = "NAME_DEF" /\ sent[k].id = sent[i].id => k = j

\* The first n records that tell of an event; the last of them tells of the
\* event with their number.
Reports(n) == {i \in 1..n : sent[i].kind \in Kinds}
Told(i)    == Cardinality(Reports(i))
\* The two are in step: whenever the program runs, a controller that answers
\* has read every record, no answer is left over, and what it read tells of
\* every event so far, once and in order.
LockStep == pc = "run" /\ ok /\ Answers /\ Whole =>
  /\ ctl = "reads" /\ acks = <<>> /\ taken = Len(sent)
  /\ Told(taken) = Len(history)
  /\ \A i \in Reports(taken) : history[Told(i)] = [kind |-> sent[i].kind, of |-> sent[i].of]

\* A controller that stays to the end of a program that was not killed has
\* read its MWK_END, behind which there is nothing.
EndSeen == ctl = "done" /\ pc = "gone" =>
             sent # <<>> /\ Last(sent) = End /\ taken = Len(sent)

\* Nobody waits for ever, whichever FIFOs the controller closes when: the
\* program comes to its end, unless the controller lost the thread.
Finishes == <>(pc \in {"gone", "killed"} \/ ~Whole)
=============================================================================
