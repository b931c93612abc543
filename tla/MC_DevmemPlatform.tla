-------------------------- MODULE MC_DevmemPlatform --------------------------
(* Instances of DevmemPlatform for TLC: 8-bit addresses, 16-byte pages, so  *)
(* long values above 127 overflow in strtol.                              *)
EXTENDS DevmemPlatform

Opt(o, v) == [opt |-> o, val |-> v]
SCM == Opt("c", <<>>)

\* One page at an aligned start given in hex; half a page at an unaligned
\* start in single-component mode; a DFL inside a two-page range; no start
\* address; a DFL entry past the range; an octal start (020 is 16); a start that is not a number; a
\* start above LONG_MAX, whose ERANGE also empties the span parsed after it.
Aligned    == <<Opt("a", <<"0","x","1","0">>), Opt("s", <<"1","6">>)>>
Unaligned  == <<Opt("a", <<"2","4">>), Opt("s", <<"8">>), SCM>>
DflOutside == <<Opt("a", <<"1","6">>), Opt("s", <<"1","6">>), Opt("w", <<"0","x","2","8">>)>>
DflInside  == <<Opt("a", <<"1","6">>), Opt("s", <<"3","2">>), Opt("w", <<"0","x","2","8">>)>>
NoStart    == <<Opt("s", <<"1","6">>)>>
Octal      == <<Opt("a", <<"0","2","0">>), Opt("s", <<"1","6">>)>>
NotNumber  == <<Opt("a", <<"1","k">>), Opt("s", <<"1","6">>)>>
TooBig     == <<Opt("a", <<"0","x","f","0">>), Opt("s", <<"3","2">>)>>

LifecycleArgs == {Aligned, Unaligned, DflInside, DflOutside, NoStart, Octal, NotNumber, TooBig}

\* A span of one page from the middle of a page.
StraddleArgs == {<<Opt("a", <<"2","4">>), Opt("s", <<"1","6">>)>>}
AlignedArgs  == {Aligned}
=============================================================================
