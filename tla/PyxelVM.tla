------------------------------ MODULE PyxelVM ------------------------------
(***************************************************************************)
(* ParallelPyxelVM and SpatialPyxelVM executing compiled frames.           *)
(*                                                                         *)
(* A source program is a matrix of instructions.  SimpleCompiler turns it  *)
(* into a raster of <<R, G, B>> cells and the VM interprets the raster     *)
(* column by column: in every column the threads take one step each, in    *)
(* row order, on private registers and on the shared memory.  A SAVE_STATE *)
(* cell chains to another frame.  One action is one turn of the inner loop *)
(* of _execute_array, or the code between two columns or two frames.       *)
(*                                                                         *)
(* The checkpoint hash is the hashed state itself: compute_vm_checkpoint_  *)
(* hash is deterministic and taken to be injective.                        *)
(***************************************************************************)
EXTENDS Integers, Sequences, FiniteSets, SequencesExt

CONSTANTS
    Byte,          \* 2^8, the values of a channel and of an 8-bit register
    NThreads,      \* threads of the VM
    NSlots,        \* shared memory slots M0 .. (eight in the code)
    MaxColSteps,   \* max_col_steps
    MaxChain,      \* max_chain
    Programs,      \* source programs offered to the VM, by frame name
    Registry,      \* frame_registry: index -> path
    Files,         \* the paths that exist
    MaxExecutions  \* bound: executions per behaviour

VARIABLES
    film,           \* path -> decoded raster, a function <<row, column>> -> pixel
    strict,         \* strict_mode
    residentRun,    \* execute_spatial_frame rather than execute_texture
    vmPhase,        \* "idle", "column", "thread", "done", "failed"
    current,        \* path of the frame being executed
    chain,          \* frames begun by this execution
    col, row,       \* column and row of the next cell
    colStep,        \* columns begun in this frame
    regs,           \* thread -> A, B, OUT, T
    shared,         \* slot -> value
    halted,         \* threads frozen by HALT
    skipNext,       \* threads that skip their next column
    jumpTo,         \* target chosen in this column, or NoJump
    nextFrame,      \* path chosen by SAVE_STATE, or NoFrame
    vmClock,        \* self.clock
    execGeneration, \* execution_generation
    marker,         \* last_checkpoint_hash
    executions      \* executions begun, for the bound only

machine == <<regs, shared, vmClock>>
loopState == <<col, row, colStep, halted, skipNext, jumpTo, nextFrame>>
vmVars == <<film, strict, residentRun, vmPhase, current, chain, loopState, machine,
            execGeneration, marker, executions>>

VMThreads == 0 .. NThreads - 1
NoJump == -1
NoFrame == "none"
NOP == <<0, 0, 0>>

-----------------------------------------------------------------------------
(* The compiler.                                                           *)

MAP == [SET_REG |-> 10, SET_B |-> 11, NOT |-> 12, ADD_THREAD |-> 20, SUB |-> 21,
        MUL |-> 22, DIV |-> 23, COPY_OUT |-> 24, IF_A_EQ |-> 30, CMP |-> 31,
        LOAD_MEM |-> 40, STORE_MEM |-> 41, VERIFY_FREQ |-> 50,
        SAVE_STATE |-> 60, JMP |-> 70, HALT |-> 255]

\* The name of an R value, or "UNK".
Opcode(r) ==
    IF \E k \in DOMAIN MAP : MAP[k] = r
    THEN CHOOSE k \in DOMAIN MAP : MAP[k] = r
    ELSE "UNK"

\* Instruction names whose opcode differs from the name, and OUT_TO_A.
Alias == [SET_A |-> "SET_REG", ADD |-> "ADD_THREAD", OUT_TO_A |-> "COPY_OUT"]
OpcodeKey(name) == IF name \in DOMAIN Alias THEN Alias[name] ELSE name

TakesG == {"LOAD_MEM", "STORE_MEM", "SAVE_STATE", "JMP"}
TakesB == {"SET_A", "SET_B", "IF_A_EQ"}

Clamp(v) == IF v < 0 THEN 0 ELSE IF v > Byte - 1 THEN Byte - 1 ELSE v

\* _parse_one: an instruction is <<name>> or <<name, integer>>.  An unknown
\* name and a missing operand compile to NOP; SAVE_STATE defaults to 0.
ParseOne(instr) ==
    LET name == instr[1]
        key == OpcodeKey(name)
        missing == Len(instr) = 1 /\ name \in (TakesG \cup TakesB) \ {"SAVE_STATE"}
        arg == IF Len(instr) = 2 THEN Clamp(instr[2]) ELSE 0
    IN  IF key \notin DOMAIN MAP \/ name \in {"SET_REG", "ADD_THREAD"} \/ missing
        THEN NOP
        ELSE <<MAP[key], IF name \in TakesG THEN arg ELSE 0,
                         IF name \in TakesB THEN arg ELSE 0>>

Width(program) == CHOOSE w \in {Len(program[i]) : i \in DOMAIN program} :
                     \A i \in DOMAIN program : Len(program[i]) <= w

\* compile: one row per thread, short rows padded with NOP.
Compile(program) ==
    [height |-> Len(program), width |-> Width(program),
     cell |-> [p \in (0 .. Len(program) - 1) \X (0 .. Width(program) - 1) |->
                  LET line == program[p[1] + 1] IN
                  IF p[2] < Len(line) THEN ParseOne(line[p[2] + 1]) ELSE NOP]]

-----------------------------------------------------------------------------
(* The VM.                                                                 *)

raster == film[current]
ZeroRegs == [A |-> 0, B |-> 0, OUT |-> 0, T |-> 0]
VMHash(g) == <<g, vmClock', regs', shared'>>

VMStart(choice) ==
    /\ film = [f \in DOMAIN choice |-> Compile(choice[f])]
    /\ vmPhase = "idle" /\ current = "main" /\ chain = 0
    /\ col = 0 /\ row = 0 /\ colStep = 0
    /\ regs = [t \in VMThreads |-> ZeroRegs]
    /\ shared = [m \in 0 .. NSlots - 1 |-> 0]
    /\ halted = {} /\ skipNext = {} /\ jumpTo = NoJump /\ nextFrame = NoFrame
    /\ vmClock = 0 /\ execGeneration = 0
    /\ marker = <<0, 0, [t \in VMThreads |-> ZeroRegs], [m \in 0 .. NSlots - 1 |-> 0]>>
    /\ executions = 0

VMInit ==
    /\ \E choice \in Programs : VMStart(choice)
    /\ strict \in BOOLEAN /\ residentRun \in BOOLEAN

\* The prologue of _execute_array on frame f.
BeginFrame(f) ==
    /\ current' = f
    /\ chain' = chain + 1
    /\ col' = 0 /\ row' = 0 /\ colStep' = 0
    /\ halted' = {} /\ skipNext' = {} /\ jumpTo' = NoJump /\ nextFrame' = NoFrame
    /\ vmPhase' = "column"

\* execute_texture or execute_spatial_frame is called.
Execute ==
    /\ vmPhase \in {"idle", "done", "failed"}
    /\ executions < MaxExecutions
    /\ executions' = executions + 1
    /\ current' = "main" /\ chain' = 1
    /\ col' = 0 /\ row' = 0 /\ colStep' = 0
    /\ halted' = {} /\ skipNext' = {} /\ jumpTo' = NoJump /\ nextFrame' = NoFrame
    /\ vmPhase' = "column"
    /\ UNCHANGED <<film, strict, residentRun, machine, execGeneration, marker>>

VMFail ==
    /\ vmPhase' = "failed"
    /\ UNCHANGED <<film, strict, residentRun, current, chain, loopState, machine,
                   execGeneration, marker, executions>>

\* Mutant: the columns begun in a frame are not counted
BeginColumnUncounted ==
    /\ vmPhase = "column"
    /\ col < raster.width /\ colStep < MaxColSteps
    /\ vmClock' = col /\ jumpTo' = NoJump /\ row' = 0
    /\ vmPhase' = "thread"
    /\ UNCHANGED <<film, strict, residentRun, current, chain, col, colStep, halted, skipNext,
                   nextFrame, regs, shared, execGeneration, marker, executions>>

\* The head of the column loop, when its condition holds.
BeginColumn ==
    /\ vmPhase = "column"
    /\ col < raster.width /\ colStep < MaxColSteps
    /\ colStep' = colStep + 1 /\ vmClock' = col /\ jumpTo' = NoJump /\ row' = 0
    /\ vmPhase' = "thread"
    /\ UNCHANGED <<film, strict, residentRun, current, chain, col, halted, skipNext, nextFrame,
                   regs, shared, execGeneration, marker, executions>>

\* Mutant: a thread that halted still executes its cells
HasCellHalted == vmPhase = "thread" /\ row < NThreads /\ row < raster.height

\* Thread row has a pixel to execute in this column.
HasCell == vmPhase = "thread" /\ row < NThreads /\ row < raster.height /\ row \notin halted
pixel == raster.cell[<<row, col>>]
opcode == Opcode(pixel[1])
SameFrame == UNCHANGED <<film, strict, residentRun, vmPhase, current, chain, col, colStep, vmClock,
                     execGeneration, marker, executions>>

\* A row outside the raster, or a halted thread.
PassThread ==
    /\ vmPhase = "thread" /\ row < NThreads
    /\ row >= raster.height \/ row \in halted
    /\ row' = row + 1
    /\ SameFrame /\ UNCHANGED <<regs, shared, halted, skipNext, jumpTo, nextFrame>>

SkipThread ==
    /\ HasCell /\ row \in skipNext
    /\ skipNext' = skipNext \ {row} /\ row' = row + 1
    /\ SameFrame /\ UNCHANGED <<regs, shared, halted, jumpTo, nextFrame>>

\* Mutant: sums and products are not reduced to a byte
AluUnreduced(o, b, r) ==
    CASE o = "SET_REG"    -> [r EXCEPT !.A = b]
      [] o = "SET_B"      -> [r EXCEPT !.B = b]
      [] o = "ADD_THREAD" -> [r EXCEPT !.OUT = r.A + r.B]
      [] o = "MUL"        -> [r EXCEPT !.A = r.A * r.B]
      [] OTHER            -> r

\* What the register opcodes do to a thread's registers r, with operand b.
Alu(o, b, r) ==
    CASE o = "SET_REG"    -> [r EXCEPT !.A = b]
      [] o = "SET_B"      -> [r EXCEPT !.B = b]
      [] o = "ADD_THREAD" -> [r EXCEPT !.OUT = (r.A + r.B) % Byte]
      [] o = "NOT"        -> [r EXCEPT !.A = (-r.A - 1) % Byte]
      [] o = "SUB"        -> [r EXCEPT !.A = (r.A - r.B) % Byte]
      [] o = "MUL"        -> [r EXCEPT !.A = (r.A * r.B) % Byte]
      [] o = "DIV"        -> [r EXCEPT !.A = IF r.B = 0 THEN 0 ELSE r.A \div r.B]
      [] o = "CMP"        -> [r EXCEPT !.OUT = IF r.A = r.B THEN 1 ELSE 0]
      [] o = "COPY_OUT"   -> [r EXCEPT !.A = r.OUT]
      [] o = "VERIFY_FREQ" ->
            [r EXCEPT !.A = IF pixel = raster.cell[<<row, raster.width - 1 - col>>]
                            THEN 1 ELSE 0]
      [] OTHER            -> r

AluOps == {"SET_REG", "SET_B", "ADD_THREAD", "NOT", "SUB", "MUL", "DIV", "CMP",
           "COPY_OUT", "VERIFY_FREQ"}

\* thread["T"] = col precedes the dispatch, for every opcode.
Ticked == [regs[row] EXCEPT !.T = col]

AluStep ==
    /\ HasCell /\ row \notin skipNext /\ opcode \in AluOps
    /\ regs' = [regs EXCEPT ![row] = Alu(opcode, pixel[3], Ticked)]
    /\ row' = row + 1
    /\ SameFrame /\ UNCHANGED <<shared, halted, skipNext, jumpTo, nextFrame>>

HaltStep ==
    /\ HasCell /\ row \notin skipNext /\ opcode = "HALT"
    /\ halted' = halted \cup {row}
    /\ regs' = [regs EXCEPT ![row] = Ticked] /\ row' = row + 1
    /\ SameFrame /\ UNCHANGED <<shared, skipNext, jumpTo, nextFrame>>

SaveStateStep ==
    /\ HasCell /\ row \notin skipNext /\ opcode = "SAVE_STATE"
    /\ nextFrame' = IF pixel[2] \in DOMAIN Registry THEN Registry[pixel[2]] ELSE nextFrame
    /\ regs' = [regs EXCEPT ![row] = Ticked] /\ row' = row + 1
    /\ SameFrame /\ UNCHANGED <<shared, halted, skipNext, jumpTo>>

IfStep ==
    /\ HasCell /\ row \notin skipNext /\ opcode = "IF_A_EQ"
    /\ skipNext' = IF regs[row].A # pixel[3] THEN skipNext \cup {row} ELSE skipNext
    /\ regs' = [regs EXCEPT ![row] = Ticked] /\ row' = row + 1
    /\ SameFrame /\ UNCHANGED <<shared, halted, jumpTo, nextFrame>>

\* LOAD_MEM and STORE_MEM; an address outside the memory is an error in strict
\* mode and a NOP otherwise.
MemStep ==
    /\ HasCell /\ row \notin skipNext /\ opcode \in {"LOAD_MEM", "STORE_MEM"}
    /\ pixel[2] \in DOMAIN shared \/ ~strict
    /\ regs' = [regs EXCEPT ![row] =
                   IF opcode = "LOAD_MEM" /\ pixel[2] \in DOMAIN shared
                   THEN [Ticked EXCEPT !.A = shared[pixel[2]]] ELSE Ticked]
    /\ shared' = IF opcode = "STORE_MEM" /\ pixel[2] \in DOMAIN shared
                 THEN [shared EXCEPT ![pixel[2]] = regs[row].A] ELSE shared
    /\ row' = row + 1
    /\ SameFrame /\ UNCHANGED <<halted, skipNext, jumpTo, nextFrame>>

\* The first thread of a column that jumps decides for all of them.
JmpStep ==
    /\ HasCell /\ row \notin skipNext /\ opcode = "JMP"
    /\ jumpTo' = IF jumpTo = NoJump /\ pixel[2] < raster.width THEN pixel[2] ELSE jumpTo
    /\ regs' = [regs EXCEPT ![row] = Ticked] /\ row' = row + 1
    /\ SameFrame /\ UNCHANGED <<shared, halted, skipNext, nextFrame>>

UnknownStep ==
    /\ HasCell /\ row \notin skipNext /\ opcode = "UNK"
    /\ pixel[1] = 0 \/ ~strict
    /\ regs' = [regs EXCEPT ![row] = Ticked] /\ row' = row + 1
    /\ SameFrame /\ UNCHANGED <<shared, halted, skipNext, jumpTo, nextFrame>>

\* Strict mode raises in the middle of a column.
StrictError ==
    /\ HasCell /\ row \notin skipNext /\ strict
    /\ \/ opcode = "UNK" /\ pixel[1] # 0
       \/ opcode \in {"LOAD_MEM", "STORE_MEM"} /\ pixel[2] \notin DOMAIN shared
    /\ regs' = [regs EXCEPT ![row] = Ticked]
    /\ vmPhase' = "failed"
    /\ UNCHANGED <<film, strict, residentRun, current, chain, loopState, shared, vmClock,
                   execGeneration, marker, executions>>

NextColumn ==
    /\ vmPhase = "thread" /\ row = NThreads
    /\ col' = IF jumpTo # NoJump THEN jumpTo ELSE col + 1
    /\ vmPhase' = "column"
    /\ UNCHANGED <<film, strict, residentRun, current, chain, row, colStep, halted, skipNext,
                   jumpTo, nextFrame, machine, execGeneration, marker, executions>>

\* The end of _execute_array when the colStep cap is hit inside the frame.
FrameOver == vmPhase = "column" /\ ~(col < raster.width /\ colStep < MaxColSteps)
\* Mutant: the cap is noticed one column late
StepCapLate == colStep > MaxColSteps /\ col < raster.width

StepCap == colStep >= MaxColSteps /\ col < raster.width
ColumnCapError == FrameOver /\ StepCap /\ VMFail

\* The chain continues, or its cap or a missing file ends the execution.
ChainFrame ==
    /\ FrameOver /\ ~StepCap /\ nextFrame # NoFrame
    /\ nextFrame \in Files /\ chain < MaxChain
    /\ BeginFrame(nextFrame)
    /\ UNCHANGED <<film, strict, residentRun, machine, execGeneration, marker, executions>>

ChainError ==
    /\ FrameOver /\ ~StepCap /\ nextFrame # NoFrame
    /\ nextFrame \notin Files \/ chain >= MaxChain
    /\ VMFail

\* _record_execution_generation: once by execute_texture, and once more by
\* execute_spatial_frame when it was the one that started the chain.
FinishExecution ==
    /\ FrameOver /\ ~StepCap /\ nextFrame = NoFrame
    /\ execGeneration' = execGeneration + (IF residentRun /\ chain > 1 THEN 2 ELSE 1)
    /\ UNCHANGED machine
    /\ marker' = VMHash(execGeneration')
    /\ vmPhase' = "done"
    /\ UNCHANGED <<film, strict, residentRun, current, chain, loopState, executions>>

\* Mutant: the shared memory is not restored
RestoreRegistersOnly ==
    /\ vmPhase = "failed"
    /\ execGeneration' = marker[1] /\ vmClock' = marker[2]
    /\ regs' = marker[3]
    /\ vmPhase' = "idle"
    /\ UNCHANGED <<film, strict, residentRun, current, chain, loopState, shared, marker, executions>>

\* The owner of the VM restores the state that the marker names; the hash is
\* recomputed first and the geometry is the VM's own.
RestoreCheckpoint ==
    /\ vmPhase = "failed"
    /\ execGeneration' = marker[1] /\ vmClock' = marker[2]
    /\ regs' = marker[3] /\ shared' = marker[4]
    /\ vmPhase' = "idle"
    /\ UNCHANGED <<film, strict, residentRun, current, chain, loopState, marker, executions>>

VMStep == \/ BeginColumn \/ PassThread \/ SkipThread \/ AluStep \/ HaltStep
          \/ SaveStateStep \/ IfStep \/ MemStep \/ JmpStep \/ UnknownStep
          \/ StrictError \/ NextColumn \/ ColumnCapError \/ ChainFrame
          \/ ChainError \/ FinishExecution

VMNext == Execute \/ RestoreCheckpoint \/ VMStep

\* The interpreter loop always runs on; calling it is the owner's choice.
VMFairness == WF_vmVars(VMStep)
VMSpec == VMInit /\ [][VMNext]_vmVars /\ VMFairness

-----------------------------------------------------------------------------
(* Properties.                                                             *)

Bytes == 0 .. Byte - 1

\* Every register and every shared slot holds one byte, whatever the operands
\* and however ADD, SUB, MUL and NOT wrap; T and clock are columns.
VMTypeOK ==
    /\ regs \in [VMThreads -> [A : Bytes, B : Bytes, OUT : Bytes, T : Bytes]]
    /\ shared \in [0 .. NSlots - 1 -> Bytes]
    /\ vmPhase \in {"idle", "column", "thread", "done", "failed"}
    /\ halted \subseteq VMThreads /\ skipNext \subseteq VMThreads
    /\ jumpTo \in Bytes \cup {NoJump} /\ chain \in 0 .. MaxChain
    /\ colStep \in 0 .. MaxColSteps

\* "HALT freezes one thread; others continue": inside a frame nothing, a jump
\* back or a skip included, moves the registers of a thread that has halted.
HaltedThreadsFrozen ==
    [][(vmPhase \in {"column", "thread"})
          => \A t \in halted : regs'[t] = regs[t]]_vmVars

\* The marker handed to checkpoints names the state the VM is in whenever no
\* execution is under way: after a completed one, and again after a failed one
\* (which leaves half-executed registers) once its owner has restored it.
MarkerNamesState ==
    vmPhase \in {"idle", "done"}
        => marker = <<execGeneration, vmClock, regs, shared>>

\* Hitting a cap is an error, never a silent truncation: an execution that
\* completes has passed the last column of a frame that asked for no successor,
\* and one that does not complete leaves generation and marker alone.
NoSilentTruncation ==
    [][marker' # marker \/ execGeneration' # execGeneration
          => \/ vmPhase' = "done" /\ col >= raster.width /\ nextFrame = NoFrame
             \/ vmPhase' = "idle"]_vmVars

\* Every execution ends, with JMP loops and with frames that chain to
\* themselves: the two caps bound it.
ExecutionEnds ==
    vmPhase \in {"column", "thread"} ~> vmPhase \in {"done", "failed"}
=============================================================================
