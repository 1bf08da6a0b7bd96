-------------------------- MODULE MCServerLifecycle --------------------------
EXTENDS ServerLifecycle

\* Nothing but input and commands; script actions of both kinds; starts and
\* reloads that fail.
Quiet == [kinds |-> {}, cmds |-> {"kill", "reload"}, fails |-> FALSE]
Busy == [Quiet EXCEPT !.kinds = {"timed", "acts"}]
Failing == [Quiet EXCEPT !.fails = TRUE, !.cmds = {"reload"}]
All == {Quiet, Busy, Failing}
=============================================================================
