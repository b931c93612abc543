------------------------------- MODULE DFLScan ------------------------------
(***************************************************************************)
(* What a scan promises (spec.md sections 3, 4.2 and 8): a call of         *)
(* common_dfl_scan_multi_interfaces replaces the interface registry, in    *)
(* one observable step, by one record per header reached through next     *)
(* links and branch blocks, numbered depth-first with a branch explored    *)
(* as soon as its block is met, each record carrying the index of the     *)
(* header whose branch led to its chain (-1 for the top-level chain) and   *)
(* the parameter blocks of its header.  A scan that is started finishes.  *)
(*                                                                         *)
(* The result is defined here without the parent stack the code uses, by  *)
(* unfolding the DFL graph into a tree (P1, P3 and P5 of spec.md).         *)
(***************************************************************************)
EXTENDS DFLRom

CONSTANT Roms               \* the DFL images the platform may expose

ASSUME \A r \in Roms : WellFormed(r)

VARIABLES rom, phase, registry

vars == <<rom, phase, registry>>

\* The "no parent" sentinel stored in dfh_parent.
NO_PARENT == -1

\* The parameter records of a header: one per handled block, and one
\* zero-filled record more when the list ended in a null block.
ZeroParam == [id |-> 0, words |-> 0]

ExpectedParams(r, a) ==
    LET ks == ProcessedBlocks(r, a)
    IN  [i \in 1..Len(ks) |-> [id |-> ks[i].id, words |-> ParamDataWords(ks[i])]]
        \o (IF ks /= <<>> /\ ~is_last_param_block(ks[Len(ks)])
            THEN <<ZeroParam>> ELSE <<>>)

\* The records of the chain starting at header a, the first of which gets
\* index idx; every header of the chain has the same parent.
RECURSIVE ChainFrom(_, _, _, _), BranchesFrom(_, _, _, _)
ChainFrom(r, a, parent, idx) ==
    LET here == [hdr |-> a, parent |-> parent, params |-> ExpectedParams(r, a)]
        sub  == BranchesFrom(r, BranchTargets(r, a), idx, idx + 1)
        rest == IF is_eol(r, a) THEN <<>>
                ELSE ChainFrom(r, get_next_dfh_addr(r, a), parent, idx + 1 + Len(sub))
    IN  <<here>> \o sub \o rest

\* The chains of the branch targets ts of the header with index owner.
BranchesFrom(r, ts, owner, idx) ==
    IF ts = <<>> THEN <<>>
    ELSE LET c == ChainFrom(r, Head(ts), owner, idx)
         IN  c \o BranchesFrom(r, Tail(ts), owner, idx + Len(c))

Expected(r) == ChainFrom(r, FIRST_DFH, NO_PARENT, 0)

Init ==
    /\ rom \in Roms
    /\ phase = "idle"
    /\ registry = <<>>

Start ==
    /\ phase \in {"idle", "done"}
    /\ phase' = "scanning"
    /\ registry' = <<>>
    /\ UNCHANGED rom

Finish ==
    /\ phase = "scanning"
    /\ phase' = "done"
    /\ registry' = Expected(rom)
    /\ UNCHANGED rom

Next == Start \/ Finish

Spec == Init /\ [][Next]_vars /\ WF_vars(Finish)

\* Finish is enabled exactly in phase "scanning" and is the only step that
\* leaves it, so in a behaviour of Init /\ [][Next]_vars the fairness of
\* Spec says no more and no less than this.
Termination == phase = "scanning" ~> phase = "done"
=============================================================================
