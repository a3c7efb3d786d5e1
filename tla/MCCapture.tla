----------------------------- MODULE MCCapture -----------------------------
(***************************************************************************)
(* Small instances of Capture.                                             *)
(***************************************************************************)
EXTENDS Capture

\* Four ranges of one or two addresses, with and without gaps between them.
TheLibs == {[lo |-> 1, hi |-> 2], [lo |-> 2, hi |-> 4], [lo |-> 5, hi |-> 6],
            [lo |-> 6, hi |-> 7]}
\* The program itself lies between its libraries.
TheFixed == {[lo |-> 5, hi |-> 6]}
TheAddrs == {1, 6}

\* Two threads that contend for the unwinder, each way libunwind is linked,
\* with and without glibc's backtrace; and one thread that walks along its
\* frame pointers while scans refresh the ranges.
Config(lib, bt, threads, scans) ==
  [lib |-> lib, bt |-> bt, threads |-> threads, scans |-> scans]
TheModes == {Config("static", TRUE, {"t1", "t2"}, FALSE),
             Config("static", FALSE, {"t1"}, FALSE),
             Config("dlopen", TRUE, {"t1", "t2"}, FALSE),
             Config("none", FALSE, {"t1"}, TRUE)}
=============================================================================
