-------------------------- MODULE MC_ZephyrPlatform --------------------------
(***************************************************************************)
(* Device tables of up to three nodes of each type, and a DFL of two       *)
(* headers, the second reached through a branch.                           *)
(***************************************************************************)
EXTENDS ZephyrPlatform, TLC

AllTables == UNION {[1..k -> {DEV_OTHER, DEV_IP, DEV_DFL}] : k \in 0..3}

\* The order the code's comment takes for granted: no type-1 node before
\* the DFL node.
DflFirstTables ==
    {t \in AllTables : \A i, j \in DOMAIN t : t[i] = DEV_IP /\ t[j] = DEV_DFL => j < i}

\* No options, as the Zephyr test passes, or one --address-span.
SpanArgs == {<<>>, << <<"0","x","1","0">> >>}

TwoHeaderRom ==
    (0 :> [eol |-> TRUE, nextOff |-> 0, hasParams |-> TRUE,
           params |-> <<[id |-> 12, eop |-> FALSE, words |-> 2,
                         branch |-> [abs |-> FALSE, val |-> 1]],
                        [id |-> 0, eop |-> TRUE, words |-> 0,
                         branch |-> [abs |-> FALSE, val |-> 0]]>>])
    @@ (1 :> [eol |-> TRUE, nextOff |-> 0, hasParams |-> FALSE, params |-> <<>>])
=============================================================================
