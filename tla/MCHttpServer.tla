---------------------------- MODULE MCHttpServer ----------------------------
(***************************************************************************)
(* A small instance of HttpServer, StackCache and TimeSeries.              *)
(***************************************************************************)
EXTENDS HttpServer, TLC

\* Two stacks that differ in frame 0 only, and one more; three addresses
\* compete for two slots.
TheStacks == {<<1, 2>>, <<3, 2>>, <<3>>}
TheSnapshots == {{<<1, 2>>, <<3, 2>>}, {<<3>>}}
TheDigest == [q \in {<<2>>, <<3>>} |-> q]
TheBucket == (1 :> 0) @@ (2 :> 1) @@ (3 :> 0)

\* What goes on at the same time.
TheProfiles ==
  {{"series", "off", "fork"}, {"scans"}, {"scan", "off", "fork"}, {"scan", "exit", "slow"},
   {"point", "fork", "slow"}, {"ports", "fork", "exit"}, {"program", "fork", "exit"},
   {"program", "fail", "exit"}, {"daemon", "fork", "exit"}}
=============================================================================
