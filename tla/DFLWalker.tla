------------------------------ MODULE DFLWalker -----------------------------
(***************************************************************************)
(* The DFL walker of common/src/intel_fpga_api_cmn_dfl.c.                  *)
(*                                                                         *)
(* common_dfl_scan_multi_interfaces runs the same recursive walk twice:    *)
(* pass 1 (collect_interfaces = false) counts headers, the registry is     *)
(* resized to the count, pass 2 fills record s_interface_index of every    *)
(* header.  The recursion of deal_with_interface_at_current_level and      *)
(* handle_branch_param_id is kept as an explicit call stack, frames: one   *)
(* frame per active deal_with_interface_at_current_level, whose pc says    *)
(* where in the function it is ("enter": before the header is counted or   *)
(* recorded, "params": in the loop of process_param_list_for_known_param_id*)
(* at block pos, "next": at the end-of-list check).  The parent stack      *)
(* dfh_parent_stack is the C structure itself: a head array with its       *)
(* allocated size and the index top, written past its allocation when the  *)
(* code does so.                                                           *)
(***************************************************************************)
EXTENDS DFLRom, SequencesExt

CONSTANTS
    Roms,                       \* DFL images the platform may expose
    DFH_PARENT_STACK_INCR_SIZE, \* growth step of the parent stack (8)
    StackCap,                   \* last head[] slot the model tracks
    MallocZeroReturnsNull       \* does the C library's malloc(0) return NULL?

ASSUME \A r \in Roms : WellFormed(r)
ASSUME DFH_PARENT_STACK_INCR_SIZE \in Nat \ {0}
ASSUME StackCap \in Nat
ASSUME MallocZeroReturnsNull \in BOOLEAN

VARIABLES
    rom,                        \* the DFL in device memory (read-only)
    phase,                      \* idle, count (pass 1), collect (pass 2), done, fatal
    s_scanned_interface_count,
    s_interface_index,
    dfh_parent_stack,           \* [head, top, size]
    frames,                     \* call stack of deal_with_interface_at_current_level
    registry                    \* the FPGA_INTERFACE_INFO vector

vars == <<rom, phase, s_scanned_interface_count, s_interface_index,
          dfh_parent_stack, frames, registry>>

\* A record as common_fpga_interface_info_vec_resize leaves it; that
\* function is not part of the repository and is taken to zero-fill.
BLANK_INFO == [hdr |-> -1, parent |-> 0, params |-> <<>>]

\* A parameter record zeroed by the memset of param_block_resize.
ZERO_PARAMETER == [id |-> 0, words |-> 0]

Call(dfh) == [dfh |-> dfh, pc |-> "enter", pos |-> 1]
Top == frames[Len(frames)]
SetTop(f) == [frames EXCEPT ![Len(frames)] = f]

-----------------------------------------------------------------------------
(* The parent stack.                                                       *)

\* dfh_parent_stack_resize: growing reallocs and zeroes the new slots;
\* zero frees the array; shrinking is a fatal error (no caller asks it).
dfh_parent_stack_resize(s, n) ==
    IF n > s.size
    THEN [s EXCEPT !.head = [i \in DOMAIN @ |-> IF s.size <= i /\ i < n THEN 0 ELSE @[i]],
                   !.size = n]
    ELSE IF n = 0 THEN [s EXCEPT !.size = 0]
    ELSE s

\* dfh_parent_stack_push: grows only when top equals size, then stores at
\* top + 1, which may be past the allocation (the write still lands).
dfh_parent_stack_push(s, data) ==
    LET g == IF s.top = s.size
             THEN dfh_parent_stack_resize(s, s.size + DFH_PARENT_STACK_INCR_SIZE)
             ELSE s
    IN  [g EXCEPT !.top = @ + 1, !.head[g.top + 1] = data]

dfh_parent_stack_isempty(s) == s.top = -1

\* Mutant: peek one slot below the top.
peek_below_top(s) == s.head[s.top - 1]

dfh_parent_stack_peek(s) == s.head[s.top]

-----------------------------------------------------------------------------
(* set_parameter_properties: the parameter records of one header.          *)

\* The loop body writes record k (param_block_init makes the first), and
\* after a block without EOP grows the array to k + 2 zeroed records.
RECURSIVE RecordParams(_, _, _, _)
RecordParams(ps, pos, k, acc) ==
    LET b      == ps[pos]
        arr    == IF k = 0 THEN <<ZERO_PARAMETER>> ELSE acc
        filled == [arr EXCEPT ![k + 1] = [id |-> b.id, words |-> ParamDataWords(b)]]
    IN  IF ~ParamLoopContinues(b) THEN acc
        ELSE IF is_last_param_block(b) THEN filled
        ELSE RecordParams(ps, NextParamPos(b, pos), k + 1, Append(filled, ZERO_PARAMETER))

set_parameter_properties(dfh, old) ==
    IF has_params(rom, dfh) THEN RecordParams(rom[dfh].params, 1, 0, old) ELSE old

\* param_data_allocate asks malloc for a zero-byte payload, and throws a
\* fatal exception if that returns NULL.
ParamAllocFails(dfh) ==
    /\ MallocZeroReturnsNull
    /\ \E i \in 1..Len(ProcessedBlocks(rom, dfh)) :
           ParamDataWords(ProcessedBlocks(rom, dfh)[i]) = 0

-----------------------------------------------------------------------------
(* Actions.                                                                *)

Init ==
    /\ rom \in Roms
    /\ phase = "idle"
    /\ s_scanned_interface_count = 0
    /\ s_interface_index = 0
    \* a zero-initialised global: top is 0, not the -1 of the unused default
    /\ dfh_parent_stack = [head |-> [i \in 0..StackCap |-> 0], top |-> 0, size |-> 0]
    /\ frames = <<>>
    /\ registry = <<>>

\* common_dfl_scan_multi_interfaces up to pass 1: clear the registry,
\* then scan_the_num_interfaces pushes -1 and enters the first header.
ScanMultiInterfaces ==
    /\ phase \in {"idle", "done"}
    /\ s_scanned_interface_count' = 0
    /\ registry' = <<>>
    /\ dfh_parent_stack' = dfh_parent_stack_push(dfh_parent_stack, -1)
    /\ frames' = <<Call(FIRST_DFH)>>
    /\ phase' = "count"
    /\ UNCHANGED <<rom, s_interface_index>>

\* deal_with_interface_at_current_level entry, pass 1: count the header.
CountInterface ==
    /\ phase = "count"
    /\ frames /= <<>> /\ Top.pc = "enter"
    /\ s_scanned_interface_count' = s_scanned_interface_count + 1
    /\ frames' = SetTop([Top EXCEPT !.pc = IF has_params(rom, Top.dfh) THEN "params" ELSE "next"])
    /\ UNCHANGED <<rom, phase, s_interface_index, dfh_parent_stack, registry>>

\* Mutant: the index incremented after the record is written.
CollectInterfaceLateIndex ==
    /\ phase = "collect"
    /\ frames /= <<>> /\ Top.pc = "enter"
    /\ s_interface_index' = s_interface_index + 1
    /\ registry' = [registry EXCEPT ![s_interface_index + 1] =
           [hdr    |-> Top.dfh,
            parent |-> dfh_parent_stack_peek(dfh_parent_stack),
            params |-> set_parameter_properties(Top.dfh, @.params)]]
    /\ phase' = IF ParamAllocFails(Top.dfh) THEN "fatal" ELSE phase
    /\ frames' = SetTop([Top EXCEPT !.pc = IF has_params(rom, Top.dfh) THEN "params" ELSE "next"])
    /\ UNCHANGED <<rom, s_scanned_interface_count, dfh_parent_stack>>

\* deal_with_interface_at_current_level entry, pass 2: the next index and
\* set_interface_properties (the parent is the top of the parent stack).
CollectInterface ==
    /\ phase = "collect"
    /\ frames /= <<>> /\ Top.pc = "enter"
    /\ LET i   == s_interface_index + 1
           dfh == Top.dfh
       IN  /\ s_interface_index' = i
           /\ registry' = [registry EXCEPT ![i + 1] =
                  [hdr    |-> dfh,
                   parent |-> dfh_parent_stack_peek(dfh_parent_stack),
                   params |-> set_parameter_properties(dfh, @.params)]]
           /\ phase' = IF ParamAllocFails(dfh) THEN "fatal" ELSE phase
    /\ frames' = SetTop([Top EXCEPT !.pc = IF has_params(rom, Top.dfh) THEN "params" ELSE "next"])
    /\ UNCHANGED <<rom, s_scanned_interface_count, dfh_parent_stack>>

\* The state after the block at pos has been handled: leave the loop on
\* EOP, else go on at the next block.
AfterBlock(f, b) ==
    IF is_last_param_block(b) THEN [f EXCEPT !.pc = "next"]
    ELSE [f EXCEPT !.pos = NextParamPos(b, f.pos)]

CurrentBlock == rom[Top.dfh].params[Top.pos]

\* process_param_list_for_known_param_id meets a null block.
ParamListEnd ==
    /\ phase \in {"count", "collect"}
    /\ frames /= <<>> /\ Top.pc = "params"
    /\ ~ParamLoopContinues(CurrentBlock)
    /\ frames' = SetTop([Top EXCEPT !.pc = "next"])
    /\ UNCHANGED <<rom, phase, s_scanned_interface_count, s_interface_index,
                   dfh_parent_stack, registry>>

\* A block with another parameter ID: nothing but the advance.
OtherParam ==
    /\ phase \in {"count", "collect"}
    /\ frames /= <<>> /\ Top.pc = "params"
    /\ ParamLoopContinues(CurrentBlock)
    /\ CurrentBlock.id /= PARAM_ID_BRANCH
    /\ frames' = SetTop(AfterBlock(Top, CurrentBlock))
    /\ UNCHANGED <<rom, phase, s_scanned_interface_count, s_interface_index,
                   dfh_parent_stack, registry>>

\* handle_branch_param_id: push the current index and walk the branch
\* target's chain before the loop goes on.
BranchParam ==
    /\ phase \in {"count", "collect"}
    /\ frames /= <<>> /\ Top.pc = "params"
    /\ ParamLoopContinues(CurrentBlock)
    /\ CurrentBlock.id = PARAM_ID_BRANCH
    /\ dfh_parent_stack' = dfh_parent_stack_push(dfh_parent_stack, s_interface_index)
    /\ frames' = Append(SetTop(AfterBlock(Top, CurrentBlock)),
                        Call(BranchTarget(Top.dfh, CurrentBlock)))
    /\ UNCHANGED <<rom, phase, s_scanned_interface_count, s_interface_index, registry>>

\* Not the end of the list: deal with the next header (a call whose return
\* only returns, so it replaces the frame).
NextInterface ==
    /\ phase \in {"count", "collect"}
    /\ frames /= <<>> /\ Top.pc = "next"
    /\ ~is_eol(rom, Top.dfh)
    /\ frames' = SetTop(Call(get_next_dfh_addr(rom, Top.dfh)))
    /\ UNCHANGED <<rom, phase, s_scanned_interface_count, s_interface_index,
                   dfh_parent_stack, registry>>

\* Mutant: the end of a level returns without popping.
EndOfLevelKeepsParent ==
    /\ phase \in {"count", "collect"}
    /\ frames /= <<>> /\ Top.pc = "next"
    /\ is_eol(rom, Top.dfh)
    /\ frames' = Front(frames)
    /\ UNCHANGED <<rom, phase, s_scanned_interface_count, s_interface_index,
                   dfh_parent_stack, registry>>

\* End of the list at this level: pop the parent stack and return.
EndOfLevel ==
    /\ phase \in {"count", "collect"}
    /\ frames /= <<>> /\ Top.pc = "next"
    /\ is_eol(rom, Top.dfh)
    /\ IF dfh_parent_stack_isempty(dfh_parent_stack)
       THEN phase' = "fatal" /\ UNCHANGED dfh_parent_stack
       ELSE dfh_parent_stack' = [dfh_parent_stack EXCEPT !.top = @ - 1] /\ UNCHANGED phase
    /\ frames' = Front(frames)
    /\ UNCHANGED <<rom, s_scanned_interface_count, s_interface_index, registry>>

\* Mutant: the registry made one record short.
CountDoneShort ==
    /\ phase = "count" /\ frames = <<>>
    /\ registry' = [i \in 1..s_scanned_interface_count - 1 |-> BLANK_INFO]
    /\ s_interface_index' = -1
    /\ dfh_parent_stack' = dfh_parent_stack_push(dfh_parent_stack, -1)
    /\ frames' = <<Call(FIRST_DFH)>>
    /\ phase' = "collect"
    /\ UNCHANGED <<rom, s_scanned_interface_count>>

\* Pass 1 returned: resize the registry to the count, reset the index, and
\* dfl_collect_interfaces_info pushes -1 and enters the first header.
CountDone ==
    /\ phase = "count" /\ frames = <<>>
    /\ registry' = [i \in 1..s_scanned_interface_count |-> BLANK_INFO]
    /\ s_interface_index' = -1
    /\ dfh_parent_stack' = dfh_parent_stack_push(dfh_parent_stack, -1)
    /\ frames' = <<Call(FIRST_DFH)>>
    /\ phase' = "collect"
    /\ UNCHANGED <<rom, s_scanned_interface_count>>

\* Mutant: the parent stack kept after pass 2.
CollectDoneKeepsStack ==
    /\ phase = "collect" /\ frames = <<>>
    /\ phase' = "done"
    /\ UNCHANGED <<rom, s_scanned_interface_count, s_interface_index,
                   dfh_parent_stack, frames, registry>>

\* Pass 2 returned: free the parent stack.
CollectDone ==
    /\ phase = "collect" /\ frames = <<>>
    /\ dfh_parent_stack' = dfh_parent_stack_resize(dfh_parent_stack, 0)
    /\ phase' = "done"
    /\ UNCHANGED <<rom, s_scanned_interface_count, s_interface_index, frames, registry>>

\* Every step of a scan once common_dfl_scan_multi_interfaces is running.
WalkStep ==
    \/ CountInterface \/ CollectInterface
    \/ ParamListEnd \/ OtherParam \/ BranchParam
    \/ NextInterface \/ EndOfLevel
    \/ CountDone \/ CollectDone

Next == ScanMultiInterfaces \/ WalkStep

\* The scan is synchronous code that never blocks: once called, it runs.
Spec == Init /\ [][Next]_vars /\ WF_vars(WalkStep)

-----------------------------------------------------------------------------
(* Properties.                                                             *)

TypeOK ==
    /\ DOMAIN rom \subseteq Nat
    /\ phase \in {"idle", "count", "collect", "done", "fatal"}
    /\ s_scanned_interface_count \in Nat
    /\ s_interface_index \in Int
    /\ dfh_parent_stack \in [head : [0..StackCap -> Int], top : -1..StackCap, size : Nat]
    /\ frames \in Seq([dfh : DOMAIN rom, pc : {"enter", "params", "next"}, pos : Nat \ {0}])
    /\ registry \in Seq([hdr : Int, parent : Int, params : Seq([id : Nat, words : Nat])])

\* Pass 2 only writes records pass 1 made room for: every index
\* common_fpga_interface_info_vec_at is given while filling is below the
\* size the count pass gave the registry.
RegistryIndexInBounds ==
    phase = "collect" => s_interface_index < Len(registry)

\* Between scans the parent stack is back where the process started it
\* (every push of both passes popped, top at the zero of the global) and
\* its array released by the final dfh_parent_stack_resize(0).
ParentStackReleased ==
    phase \in {"idle", "done"} =>
        /\ dfh_parent_stack.top = 0
        /\ dfh_parent_stack.size = 0

\* A push never stores outside the array dfh_parent_stack_resize allocated.
StackPushInBounds ==
    [][dfh_parent_stack'.top > dfh_parent_stack.top =>
         dfh_parent_stack'.top < dfh_parent_stack'.size]_vars

\* The scan as spec.md describes its result: the registry the walker
\* leaves is, record for record, the depth-first unfolding of the DFL with
\* the parent of each record and its parameter records (Abs!Expected),
\* and every scan that starts finishes.
AbsPhase ==
    CASE phase = "idle" -> "idle"
      [] phase \in {"count", "collect", "fatal"} -> "scanning"
      [] phase = "done" -> "done"

AbsRegistry == IF phase = "done" THEN registry ELSE <<>>

Abs == INSTANCE DFLScan WITH phase <- AbsPhase, registry <- AbsRegistry

\* Abs!Spec, with its weak fairness stated as the equivalent Abs!Termination.
ImplementsScan == Abs!Init /\ [][Abs!Next]_Abs!vars /\ Abs!Termination
=============================================================================
