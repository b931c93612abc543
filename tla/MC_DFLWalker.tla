---------------------------- MODULE MC_DFLWalker ----------------------------
(***************************************************************************)
(* DFL images for checking the walker.                                     *)
(*                                                                         *)
(* SmallRoms: every well-formed image of three header slots built from the *)
(* block shapes below: chains of one to three headers, parameter lists     *)
(* that end in a null block or in an EOP block with a payload, zero-length *)
(* payloads, one or two branches per header, relative (also negative) and  *)
(* absolute branch targets, two branches into the same chain.              *)
(* ScenarioC: the three-level, fifteen-header image of spec.md scenario C. *)
(* DeepRom: a branch nested seven levels deep with a sibling after the     *)
(* deepest branch point, enough to pass the first growth step of the       *)
(* parent stack.                                                           *)
(***************************************************************************)
EXTENDS DFLWalker

Slots == 0..2

NoBranch == [abs |-> FALSE, val |-> 0]

NullBlk == [id |-> 0, eop |-> TRUE, words |-> 0, branch |-> NoBranch]
\* another parameter without EOP: w - 1 payload words
OtherBlk(w) == [id |-> 1, eop |-> FALSE, words |-> w, branch |-> NoBranch]
\* another parameter with EOP: w payload words, no null block after it
OtherLastBlk(w) == [id |-> 1, eop |-> TRUE, words |-> w, branch |-> NoBranch]
\* a branch block from header a to header t, one payload word
BranchBlk(a, t, abs) ==
    [id |-> PARAM_ID_BRANCH, eop |-> FALSE, words |-> 2,
     branch |-> [abs |-> abs, val |-> IF abs THEN t ELSE t - a]]
BranchLastBlk(a, t) ==
    [id |-> PARAM_ID_BRANCH, eop |-> TRUE, words |-> 1,
     branch |-> [abs |-> TRUE, val |-> t]]

ParamLists(a) ==
    { <<NullBlk>>, <<OtherBlk(1), NullBlk>>, <<OtherBlk(2), OtherLastBlk(1)>> }
    \cup { <<BranchBlk(a, t, FALSE), NullBlk>> : t \in Slots \ {a} }
    \cup { <<OtherBlk(1), BranchLastBlk(a, t)>> : t \in Slots \ {a} }
    \cup { <<BranchBlk(a, t, TRUE), BranchBlk(a, u, FALSE), NullBlk>> :
              t \in Slots \ {a}, u \in Slots \ {a} }

Headers(a) ==
    LET links == {[eol |-> TRUE, nextOff |-> 0]}
                 \cup {[eol |-> FALSE, nextOff |-> d] : d \in 1..(2 - a)}
    IN  {[eol |-> l.eol, nextOff |-> l.nextOff, hasParams |-> FALSE, params |-> <<>>] : l \in links}
        \cup {[eol |-> l.eol, nextOff |-> l.nextOff, hasParams |-> TRUE, params |-> ps] :
                 l \in links, ps \in ParamLists(a)}

SmallRoms == { r \in [Slots -> UNION {Headers(a) : a \in Slots}] :
                  /\ \A a \in Slots : r[a] \in Headers(a)
                  /\ WellFormed(r) }

\* The images in which no header has two branch blocks.
OneBranchRoms == { r \in SmallRoms : \A a \in Slots : Len(BranchTargets(r, a)) <= 1 }

-----------------------------------------------------------------------------
Plain(eol, off) == [eol |-> eol, nextOff |-> off, hasParams |-> FALSE, params |-> <<>>]
Branching(eol, off, a, t) ==
    [eol |-> eol, nextOff |-> off, hasParams |-> TRUE,
     params |-> <<BranchBlk(a, t, FALSE), NullBlk>>]

\* Scenario C: levels at slots 0..4, 5..9, 10..14; header 0 branches to
\* level 2, header 5 (the first of level 2) branches to level 3.
ScenarioC ==
    [a \in 0..14 |->
        CASE a = 0 -> Branching(FALSE, 1, 0, 5)
          [] a = 5 -> Branching(FALSE, 1, 5, 10)
          [] a \in {4, 9, 14} -> Plain(TRUE, 0)
          [] OTHER -> Plain(FALSE, 1)]

\* Header a (0..7) branches to a + 1; header 7 has a sibling 8.
DeepRom ==
    [a \in 0..8 |->
        CASE a < 7 -> Branching(TRUE, 0, a, a + 1)
          [] a = 7 -> Branching(FALSE, 1, 7, 9)
          [] OTHER -> Plain(TRUE, 0)]
    @@ (9 :> Plain(TRUE, 0))

\* Header 0 branches to header 1 and then to header 2, both one-header chains.
TwoBranchRom ==
    (0 :> [eol |-> TRUE, nextOff |-> 0, hasParams |-> TRUE,
           params |-> <<BranchBlk(0, 1, FALSE), BranchBlk(0, 2, FALSE), NullBlk>>])
    @@ (1 :> Plain(TRUE, 0)) @@ (2 :> Plain(TRUE, 0))

\* The one-branch images of three slots and scenario C.
OneBranchAndScenarioC == OneBranchRoms \cup {ScenarioC}
DeepRoms == {DeepRom}
TwoBranchRoms == {TwoBranchRom}
=============================================================================
