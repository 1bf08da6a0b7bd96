--------------------------- MODULE MCClientSession ---------------------------
(* Small instances of ClientSession for TLC.                               *)
EXTENDS ClientSession

CONSTANTS w1, w2, c1, c2, c3

(* Peers that send and hang up, and nothing else.                          *)
Plain == [workers |-> {w1, w2}, clients |-> {c1, c2},
          bursts |-> FALSE, quits |-> FALSE, kicks |-> FALSE, arrivals |-> FALSE]

(* Players that quit, with a pool of two workers or of one.                *)
TwoWorkers == [Plain EXCEPT !.quits = TRUE]
OneWorker  == [TwoWorkers EXCEPT !.workers = {w1}, !.clients = {c1, c2, c3}]

(* Everything at once: two workers on one client, one worker on two.       *)
Anything == [Plain EXCEPT !.bursts = TRUE, !.quits = TRUE, !.kicks = TRUE, !.arrivals = TRUE]
OneClient == [Anything EXCEPT !.clients = {c1}]
TwoClients == [Anything EXCEPT !.workers = {w1}]

All == {TwoWorkers, OneWorker, OneClient, TwoClients}
=============================================================================
