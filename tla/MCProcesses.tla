---------------------------- MODULE MCProcesses ----------------------------
(* Processes on small instances: a walkthrough whose script has one of     *)
(* each kind of step, with two questions of one kind to one child, and a   *)
(* console that is sent two commands.                                      *)
EXTENDS Processes

Asks(k, t, needed) == [do |-> "ask", to |-> k, t |-> t, needed |-> needed]
Does(x) == [do |-> x, to |-> Relay, t |-> "none", needed |-> FALSE]

OneRefresh == <<Does("publish"), Asks(Db, "roster", FALSE)>>
ShortWalk == <<Does("key"), Asks(Laptop, "result", FALSE),
               Asks(Laptop, "result", FALSE), Asks(Db, "anchor", TRUE)>>
ThreeLines == <<50, 95, 100>>
=============================================================================
