------------------------------- MODULE DFLRom -------------------------------
(***************************************************************************)
(* The on-device Device Feature List as the walker in                      *)
(* common/src/intel_fpga_api_cmn_dfl.c reads it.                           *)
(*                                                                         *)
(* A ROM is a function from header addresses to decoded headers.  An       *)
(* address is counted in header slots, so the byte arithmetic of the code  *)
(* (dfh + offset, dfh + 0x28, block + (word >> 35) << 3) becomes slot and  *)
(* position arithmetic; the bit fields the walker reads are kept as        *)
(* fields of the header record:                                            *)
(*   eol       bit 40 of the DFH word                                      *)
(*   nextOff   bits 16..38 of the DFH word (unsigned, so never backwards)  *)
(*   hasParams bit 31 of the CSR size/group word                           *)
(*   params    the parameter blocks from dfh + 0x28 on, in address order   *)
(* A parameter block is [id, eop, words, branch]: the 16-bit parameter ID, *)
(* the end-of-parameters bit 32, the 29-bit next-offset field in 64-bit    *)
(* words, and for a branch block its payload word decoded into an          *)
(* absolute flag and a (signed, for relative) slot value.                  *)
(***************************************************************************)
EXTENDS Integers, Sequences, Functions

\* The well-known branch parameter ID, 0xc (handle_well_known_param_id).
PARAM_ID_BRANCH == 12

\* The DFL entry handed to common_dfl_scan_multi_interfaces.
FIRST_DFH == 0

\* is_eol: bit 40 of the DFH word read at offset 0x00.
is_eol(rom, dfh) == rom[dfh].eol

\* get_next_dfh_addr: the current header plus the unsigned next-DFH offset.
get_next_dfh_addr(rom, dfh) == dfh + rom[dfh].nextOff

\* has_params: bit 31 of the CSR size/group word read at offset 0x20.
has_params(rom, dfh) == rom[dfh].hasParams

\* is_last_param_block: bit 32 of the parameter header.
is_last_param_block(b) == b.eop

\* The while condition of both parameter-list loops: a block ends the list
\* only when its EOP bit is set and its next offset is zero.
ParamLoopContinues(b) == ~b.eop \/ b.words > 0

\* The position of the next block: the current block address plus the
\* next offset; an offset of zero reads the same block again.
NextParamPos(b, pos) == IF b.words = 0 THEN pos ELSE pos + 1

\* The payload size in 64-bit words recorded for a block: with EOP set the
\* offset field is the payload size, otherwise it is offset minus the
\* 8-byte header.
ParamDataWords(b) == IF is_last_param_block(b) THEN b.words ELSE b.words - 1

\* handle_branch_param_id: the payload word at block + 8 is absolute when
\* bit 0 is set, else a signed offset from the owning header (not from the
\* parameter block).
BranchTarget(dfh, b) ==
    IF b.branch.abs THEN b.branch.val ELSE dfh + b.branch.val

(***************************************************************************)
(* The blocks the parameter loop handles, in order: every block up to and  *)
(* not including a null block, or up to and including an EOP block with a  *)
(* payload.  Only defined for lists the loop leaves (see ParamListWF).     *)
(***************************************************************************)
RECURSIVE ProcessedFrom(_, _)
ProcessedFrom(ps, pos) ==
    IF pos > Len(ps) \/ ~ParamLoopContinues(ps[pos]) THEN <<>>
    ELSE IF is_last_param_block(ps[pos]) \/ ps[pos].words = 0 THEN <<ps[pos]>>
    ELSE <<ps[pos]>> \o ProcessedFrom(ps, pos + 1)

ProcessedBlocks(rom, dfh) ==
    IF has_params(rom, dfh) THEN ProcessedFrom(rom[dfh].params, 1) ELSE <<>>

\* The branch targets of a header in parameter-block order.
BranchTargets(rom, dfh) ==
    LET ps == ProcessedBlocks(rom, dfh)
        bs == SelectSeq(ps, LAMBDA b : b.id = PARAM_ID_BRANCH)
    IN  [i \in 1..Len(bs) |-> BranchTarget(dfh, bs[i])]

(***************************************************************************)
(* Well-formedness of the on-device data, which the walker assumes and     *)
(* never checks: every list of blocks ends in a terminator and never       *)
(* points a block at itself, every address it reaches is a header, and no  *)
(* header is reachable from itself (the walker has no cycle detection).    *)
(***************************************************************************)
ParamListWF(ps) ==
    /\ Len(ps) >= 1
    /\ is_last_param_block(ps[Len(ps)])
    /\ \A i \in 1..Len(ps) - 1 : ~is_last_param_block(ps[i]) /\ ps[i].words > 0

Succ(rom, dfh) ==
    {BranchTarget(dfh, b) : b \in {b \in Range(ProcessedBlocks(rom, dfh)) : b.id = PARAM_ID_BRANCH}}
    \cup (IF is_eol(rom, dfh) THEN {} ELSE {get_next_dfh_addr(rom, dfh)})

RECURSIVE ReachFrom(_, _, _)
ReachFrom(rom, frontier, seen) ==
    IF frontier = {} THEN seen
    ELSE LET nxt == UNION {Succ(rom, a) : a \in frontier \cap DOMAIN rom}
         IN  ReachFrom(rom, nxt \ seen, seen \cup nxt)

WellFormed(rom) ==
    /\ FIRST_DFH \in DOMAIN rom
    /\ \A a \in DOMAIN rom : rom[a].hasParams => ParamListWF(rom[a].params)
    /\ \A a \in DOMAIN rom : Succ(rom, a) \subseteq DOMAIN rom
    /\ \A a \in DOMAIN rom : a \notin ReachFrom(rom, Succ(rom, a), Succ(rom, a))
=============================================================================
