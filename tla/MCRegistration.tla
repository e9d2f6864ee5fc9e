--------------------------- MODULE MCRegistration ---------------------------
(* Registration of one or two services, in each of the ways there are. *)
EXTENDS Registration, TLC

TwoEntries == {1, 2}

WellTyped == [file |-> FALSE, service |-> {}, tags |-> {}, options |-> {}]

\* One service, an ordinary configuration and everything that can fail.
One == [sd |-> "consul", form |-> "map", readable |-> TRUE, n |-> 1, callbacks |-> 1,
        docker |-> FALSE, noPort |-> {}, checks |-> "absent", group |-> FALSE,
        reliable |-> TRUE, grace |-> TRUE, mistyped |-> WellTyped]
Two == [One EXCEPT !.form = "slice", !.n = 2, !.callbacks = 2]
Nacos(c) == [c EXCEPT !.sd = "nacos"]
Flaky(c) == [c EXCEPT !.reliable = FALSE]

OneService ==
  {One, [One EXCEPT !.docker = TRUE, !.checks = "own"], [One EXCEPT !.grace = FALSE],
   [One EXCEPT !.noPort = {1}], [One EXCEPT !.readable = FALSE], Flaky(One)}
Direct ==
  {[One EXCEPT !.form = "direct"], [One EXCEPT !.form = "direct", !.callbacks = 0],
   Flaky([One EXCEPT !.form = "direct"])}
Several == {Two, [Two EXCEPT !.callbacks = 1], [Two EXCEPT !.noPort = {2}]}
Rpcx ==
  {[One EXCEPT !.form = "rpcx"], [One EXCEPT !.form = "rpcx", !.docker = TRUE],
   [One EXCEPT !.form = "rpcx", !.docker = TRUE, !.noPort = {1}],
   [Two EXCEPT !.form = "rpcx"], [Two EXCEPT !.form = "rpcx", !.callbacks = 1]}
OtherTypes ==
  {[One EXCEPT !.mistyped.file = TRUE], [One EXCEPT !.mistyped.tags = {1}],
   [One EXCEPT !.mistyped.options = {1}], [Two EXCEPT !.mistyped.service = {2}],
   [One EXCEPT !.form = "rpcx", !.mistyped.service = {1}]}
ForConsul ==
  OneService \cup Direct \cup Several \cup Rpcx \cup OtherTypes \cup {[One EXCEPT !.form = "other"]}
ForNacos == {Nacos(c) : c \in ForConsul} \cup {Nacos([One EXCEPT !.group = TRUE])}
AllConfs == ForConsul \cup ForNacos

Call == [req |-> "object", version |-> "2.0", method |-> 1, fails |-> FALSE, id |-> TRUE]
AllRequests ==
  {Call, [Call EXCEPT !.method = 2], [Call EXCEPT !.fails = TRUE],
   [Call EXCEPT !.method = Empty], [Call EXCEPT !.method = Unknown, !.id = FALSE],
   [Call EXCEPT !.method = Absent, !.version = Absent], [Call EXCEPT !.method = Odd],
   [Call EXCEPT !.version = "1.0"], [Call EXCEPT !.req = "garbage"]}
=============================================================================
