--------------------------- MODULE MC_UIOPlatform ---------------------------
(* Instances of UIOPlatform for TLC.                                        *)
EXTENDS UIOPlatform, TLC

P(path) == [opt |-> "p", val |-> path]
S(span) == [opt |-> "s", val |-> span]
SCM     == [opt |-> "c", val |-> <<>>]

\* Driver paths: the device node uio12, and a udev link whose name is not
\* "uio" and a number.
Uio12   == <<"/", "d", "e", "v", "/", "u", "i", "o", "1", "2">>
FpgaDev == <<"/", "d", "e", "v", "/", "f", "p", "g", "a">>

\* a = path and single-component mode, b = a with a span, n = b without
\* single-component mode, d = no path, k = a span that is not a number,
\* f = the udev link.
ArgA == << P(Uio12), SCM >>
ArgB == << P(Uio12), S(<<"1", "6">>), SCM >>
ArgN == << P(Uio12), S(<<"0", "x", "1", "0">>) >>
ArgD == << SCM >>
ArgK == << P(Uio12), S(<<"1", "k">>), SCM >>
ArgF == << P(FpgaDev), SCM >>

AllArgs    == {ArgA, ArgB, ArgN, ArgD, ArgK, ArgF}
ReinitArgs == {ArgB, ArgN}
NoPathArgs == {ArgD}

\* The sysfs size files: uio12's map is 16 bytes; uio0's exists only in
\* DefaultSizes; there is no "size" in the working directory.
Uio12Sizes   == [dir |-> "uio", index |-> 12] :> 16
DefaultSizes == Uio12Sizes @@ [dir |-> "uio", index |-> 0] :> 16

\* A DFL of two chained headers without parameters.
TwoHeaderRom == 0 :> [eol |-> FALSE, nextOff |-> 1, hasParams |-> FALSE, params |-> <<>>]
             @@ 1 :> [eol |-> TRUE,  nextOff |-> 0, hasParams |-> FALSE, params |-> <<>>]
=============================================================================
