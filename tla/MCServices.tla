----------------------------- MODULE MCServices -----------------------------
(***************************************************************************)
(* The services below the interpreter, which share no state: a run uses    *)
(* one of them: storage, the monitor channel, external functions or units. *)
(***************************************************************************)
EXTENDS MCStorage, MonitorChannel, Libraries, Units

VARIABLE service

\* Values of a name and of a place without one, a call, a label.
MCCalls == [kind : {"VALUE"}, name : {"f", "?"}] \cup [kind : {"CALL", "RETURN"}, name : {"f"}]
             \cup {[kind |-> "LABEL", name |-> "<lval>"]}

\* Two names of one file, a second file, a library that is not there.
MCFileOf  == [a |-> "A", aa |-> "A", b |-> "B", z |-> "none"]
MCSymbols == [A |-> {"f", "g"}, B |-> {"f"}]
MCPlaces  == 1..2

\* Sources that include others and one another, END in the first or second file
\* of a command line, data behind it, in the next file but one, and in standard
\* input; a source without END, files that are not there.
MCLines == [p |-> <<"-i", "-j", "END", "d">>, i |-> <<"-j", "x">>, j |-> <<"y">>, q |-> <<"x", "END", "d", "e">>,
            m |-> <<>>, k |-> <<"x", "-i">>, s |-> <<"END", "s1", "s2">>]
MCIncludeOf == ("-i" :> "i") @@ ("-j" :> "j")
Command(fs, r) == [files |-> fs, r |-> r]
MCCommands == {Command(<<"p", "m", "j">>, TRUE), Command(<<"k", "p">>, TRUE), Command(<<"q", "none">>, TRUE),
               Command(<<"i">>, TRUE), Command(<<"q">>, FALSE), Command(<<"s">>, FALSE)}

AllInit ==
  /\ service \in {"storage", "monitor", "libraries", "units"}
  /\ MCInit  /\ (service # "storage" => heap = <<>>)
  /\ MonInit /\ (service # "monitor" => ctl = "away")
  /\ LibInit
  /\ UniInit /\ (service # "units" => cmd = Command(<<"s">>, FALSE))
AllNext ==
  \/ service = "storage"   /\ Next /\ UNCHANGED <<service, monvars, libvars, univars>>
  \/ service = "monitor"   /\ MonNext /\ UNCHANGED <<service, vars, libvars, univars>>
  \/ service = "libraries" /\ LibNext /\ UNCHANGED <<service, vars, monvars, univars>>
  \/ service = "units"     /\ UniNext /\ UNCHANGED <<service, vars, monvars, libvars>>
AllSpec ==
  /\ AllInit /\ [][AllNext]_<<service, vars, monvars, libvars, univars>>
  /\ WF_monvars(service = "monitor" /\ Emitter /\ UNCHANGED <<service, vars, libvars, univars>>)
  /\ WF_monvars(service = "monitor" /\ Controller /\ UNCHANGED <<service, vars, libvars, univars>>)

\* The channel comes to its end, when it is the service that runs: nobody
\* waits for ever.
ChannelFinishes == service = "monitor" => Finishes
=============================================================================
