# Verification of the MTIR translator

MTIR compiles MiniLang to CIR, a register IR of basic blocks, and CIR to LLVM
IR, to WebAssembly and to a stack bytecode. A reference interpreter of CIR says
what every target must do. This directory holds TLA+ models of that pipeline,
TLC configurations that check them on small instances, and proofs, checked by
TLAPS, of the central results for every instance.

The repository carries the compiler twice, in C++ (`src/*.cpp`,
`include/mtir/`) and in Python (`src/*.py`). The models follow the **C++**
where both exist. They follow the Python for what only the Python has: the
reference interpreter (`cir/interp.py`), the structurer
(`backend/wasm/structurer.py`), and the one-pass verifier the Python driver
uses (`cir/verifier.py`). Paths below are relative to `src/`.

## 1. The system

| Component | State it keeps | Operations | Talks to |
|---|---|---|---|
| Lexer, parser, AST (`frontend/`, `ast/AST.h`) | token position | scan, recursive descent | hands a `Program` to the checker |
| Semantic analysis (`sema/Analyse.cpp`) | scopes, signatures, return type, loop depth, diagnostics | one check per declaration, statement, expression; inserts `Conv` nodes, records types and symbols | its `TypeInfo` is all the builder knows about names |
| Builder (`cir/Builder.cpp`) | blocks, open block, name counters, names taken, scope and loop stacks | one lowering per statement and expression | checked AST in, CIR module out |
| CIR and its graph (`cir/Function.cpp`, `CFG.cpp`) | functions of labelled blocks; predecessors, reverse postorder | successors, reachability, order | verifier, passes, back ends |
| CIR text (`cir/Printer.cpp`, `cir/Parser.cpp`) | register types of the function being read | print a module; read it back, line by line | what the driver writes with `--emit cir` and takes as a `.cir` input |
| Verifier (`cir/Verifier.cpp`) | registers available on entry to each block | `checkCFG`, `checkDefinitions`, `checkTypes` | the driver calls it, after the optimiser, if asked |
| Interpreter (`cir/interp.py`) | call stack, registers, slots, globals, output | one branch per opcode | the oracle of `docs/divergence.md` |
| Optimiser (`opt/`) | tables of constants and aliases, the function itself | folding, copy propagation, dead-code elimination, rounds of the three | rewrites functions in place |
| Register-to-stack lowering (`backend/wasm/RegToStack.cpp`) | frame layout | naive lowering, use counts, live-out, peephole | both stack emitters |
| Bytecode emitter and VM (`backend/stackvm/`) | operand stacks, locals, linear memory, stack pointer, globals, steps | `emitModule`; one branch per opcode | `--run` of the driver |
| WebAssembly emitter (`backend/wasm/EmitWat.cpp`, `emit_wat.py`) | frame layout, locals used | dispatch tower; the Python also nests regions | text to an engine |
| LLVM back end (`backend/llvm/`) | lines so far, one counter for temporaries and labels, array extents | one branch per opcode; guards for division, shifts, indices | text to clang |
| Differential harness (`tests/harness/`) | results per target | run and compare | all targets |
| Driver (`tool/Driver.cpp`) | none | parse, analyse, build, optimise, verify, emit or run | everything |

Nothing here is concurrent or distributed and nothing is persisted: there are
no crashes, messages or timeouts to model. What is hard is of four kinds.

* **Fixpoints** over graphs with loops (availability, dominators, the rounds of
  the optimiser): order independence, exactness, termination.
* **Rewriting in place** of code that is not in SSA form: a definition is
  deleted while uses of it remain, a value moves past a change of its source.
* **Two readings of one program** that must agree: checker and builder, builder
  and language, optimised and raw, registers and operand stack, graph and
  nested regions.
* **Resource discipline** of nested calls: slots and frames of a call die with
  it, on a return and when a trap unwinds many calls at once.

`PROJECT.json` lists the hazards line by line with the properties that cover
them, and those no property covers with the reason.

## 2. The modules

| Module | Models | Built on |
|---|---|---|
| `CIR` | values, instructions, blocks, functions | |
| `Arith` | wraparound, traps, shifts, comparisons, conversions at widths `W32` < `W64` | |
| `CFG` | graph queries, and path definitions of what they promise | `CIR` |
| `TypeRules` | `checkTypes`: rules 6 to 8 per instruction, and `verify` but for `checkDefinitions` | `CFG` |
| `Definedness` | abstract specification: definedness narrowed in any order | `CFG` |
| `VerifyFunction` | `verifyFunction` of Verifier.cpp, one step per loop turn | `TypeRules`; implements `Definedness` |
| `Verifier` | `verify()` of verifier.py, one step per block | `CFG` |
| `Interp` | `interp.run`, one action per opcode group | `CFG`, `Arith` |
| `Lists` | the elements of a list at chosen positions, what `std::erase_if` and the `kept` vectors of the passes leave | |
| `Optimizer` | `PassManager::run` and the loops of its three passes | `CFG`, `Arith`, `Lists` |
| `OptimizedRun` | interpret, optimise, interpret again | `Interp`, `Optimizer` |
| `StackCode` | frame layout, lowering, peephole, the bytecode emitter, and the bytes of linear memory | `CIR`, `Arith` |
| `StackVM` | `Machine::call` of VM.cpp, one action per opcode group | `StackCode` |
| `WatCode` | EmitWat.cpp: dispatch tower, frames, declarations | `StackCode` |
| `WasmMachine` | WebAssembly as far as it is used: validation and execution (external) | `WatCode` |
| `LLCode` | EmitLL.cpp and Guards.cpp: operands as they are spelled, guards, splitting of blocks | `Arith`, `CFG` |
| `LLVMMachine` | LLVM IR as far as it is used: assembly and execution (external) | `LLCode` |
| `CirText` | `printModule` and `parseCir`: a module as lines of tokens, and what is read from them | `TypeRules` |
| `Differential` | the interpreter, then the VM, WebAssembly or LLVM, given the module in memory or by its text, and their comparison | `Interp`, `CirText`, `StackVM`, `WasmMachine`, `LLVMMachine` |
| `AST` | the node classes | |
| `Analyse` | `analyse()` as an operator on trees | `AST` |
| `Parser` | `parse()`: the productions and the precedence climbing, as operators on positions in the tokens | `AST` |
| `SourceText` | reference: how a program is written, by the normative cascade of the language | `AST` |
| `Builder` | `build()`, one step per node or part of a node | `Analyse`, `CIR`, `Arith` |
| `MiniLangMeaning` | reference: what a program means, on its syntax tree | `AST`, `Arith` |
| `BuiltRun` | parse, analyse, build, interpret what was built; or parse only | `Parser`, `SourceText`, `Builder`, `Interp`, `MiniLangMeaning` |
| `GraphWalk` | abstract specification: a run is a walk over the graph | `CIR` |
| `Structurer` | `structure()`: search, dominators, regions | `CFG`, `Lists` |
| `WasmFlow` | the function body `emit_wat.py` writes, run by WebAssembly's rules | `Structurer`; implements `GraphWalk` |

`MC*` modules give TLC its programs and graphs; `SmallFunctions` is shared by
two of them. `*_proofs` hold the proofs.

How code becomes model:

* A function or module is a **record**; labels are numbers, registers names.
  Text formats (bytecode, wat) are sequences of instruction records, and the
  `(block ...)` of wat is its flat `block ... end`.
* A **loop** of the code is an action per turn, with the loop's variable as
  state (`VerifyFunction!FlowBlock`, `Optimizer`'s walks, `Structurer!VisitLabel`).
* **Recursion** is a stack in the state: frames in the machines, tasks in
  `Builder` and `Structurer`. A task lowers a node, or finishes one whose
  operands wait on `vals`, so what the code keeps in its locals across
  recursive calls is visible.
* A **failure** ends the component: `status` of the machines says "trapped",
  the lookup that failed in the interpreter, "exhausted" when a limit of the VM
  or of an engine is met, "refused" when an emitter reports an error, "invalid"
  when an engine or the assembler rejects the module, "undefined" when a native
  run reaches what LLVM gives no meaning to. Everything that has to be given back is
  given back in the same action (`Leave`, `Stop`, `Return`).
* **Mutants**: some definitions are preceded by a variant with a plausible bug.
  They are used nowhere; substituted for the definition they precede, they show
  that the property named in `PROJECT.json` can fail.

Left out everywhere: floating point (TLC has none, and the code takes the
host's), source positions, message texts.

## 3. What the runs check

Every run explores all behaviours of the instances its MC module lists.

| Run | Distinct states | What it shows |
|---|---|---|
| `verify_function` | 57 thousand | over small graphs with joins, loops, self loops, dead blocks and two-entry loops, and over broken ones: the order followed is a reverse postorder; the verdict is exactly "some path reaches a use undefined"; each step narrows; it ends; it implements `Definedness` |
| `interp` | 15 thousand | a module that verifyFunction accepts never faults on a register, block or function; the slots alive are those of the active calls; pointers that go down only never dangle; forward-only modules end |
| `verifier` | 13 thousand | what the Python `verify()` accepts has a sound graph; no false alarm when blocks are listed after a predecessor |
| `optimizer` | 30 thousand | the passes keep a verified function well defined, only shrink it, end, and leave nothing to do; alias chains are acyclic |
| `optimized_run` | 117 thousand | a run that returned returns and prints the same after the passes and still ends; a trapping one has printed no less |
| `differential` | 95 thousand | whether a module goes to them in memory or by its text: VM, WebAssembly and LLVM agree with the interpreter in result, output and trap, and end when it does; what EmitWat and EmitLL write validates; the guards leave nothing undefined to be reached and trap only where CIR does; frames lie under one another and are given back; the operand stack is empty where jumps land, and holds what each instruction pops |
| `built_run` | 108 thousand | a program is read back from its source, and a source that is accepted is what it is read as but for parentheses; what the checker accepts is built; what is built has closed blocks, allocas on top, slots of their own for shadowing variables, and passes the verifier; its run shows what the syntax tree means, and ends |
| `wasm_flow` | 294 thousand | dominators are exact; exactly the graphs with a two-entry loop are refused; each block is emitted once; branches are enclosed; the body, structured or dispatched, walks the graph |

Four runs show where code and docs part:

| Run | What TLC finds |
|---|---|
| `optimized_run_traps` | dead-code elimination deletes an unread division by zero (`DeadCodeElimination.cpp:50`), though "no pass may remove a trap" (`opt/Pass.h:10-11`) |
| `differential_bools` | `<` on two bools is printed as `icmp slt i1` (`EmitLL.cpp:333`), which takes true for -1: the native program answers false for `false < true`, where the interpreter, the VM and WebAssembly compare 0 and 1 (`divergence.md` row 5) |
| `differential_text` | a call with a `long` literal as argument is valid WebAssembly when compiled in one go and not when it goes by way of `.cir` text, which has the literal as an i32 (`Parser.h:24-25`); "the back ends take argument types from the callee's signature" (`cir-spec.md:82-84`), and the lowering takes them from the literal (`RegToStack.cpp:294`) |
| `built_run_shadow` | `let x: int = x + 1` in an inner block reads the new, unwritten slot (`Builder.cpp:280`), where the checker has resolved the outer `x` (`Analyse.cpp:372`) |

The WebAssembly text of the C++ back end is compared with expected text by its
tests and never assembled (`tests/WasmTests.cpp:3-8`). `EmittedValidates` and
`WasmAgrees` are about what those tests cannot see: whether an engine would take
the module, and whether tower, frames and declarations keep its meaning. The
same holds of the C++ LLVM back end and `tests/LLVMBackendTests.cpp`: the
harness that runs clang drives the Python emitter. `EmittedValidates` has the
assembler's rules (operands spelled as their type, names given once, one
terminator per block, definitions above their uses on every path), and
`LLVMAgrees` runs the module under rules that end it as "undefined" for a zero
divisor, INT_MIN / -1, a count as wide as the value, or an access outside an
object, so it holds only if the guards come before each of these.

### Bounds, and why they are enough

* **Widths** are 4 and 8 bits, or 8 and 16 where memory is in bytes, instead of
  32 and 64. The code's arithmetic is uniform in the width, and the operands
  include both ends of the range, values outside it, zero and minus one. A byte
  of memory is a quarter of an i32, so a slot still has the 4 or 8 bytes
  `sizeOf` gives it.
* **Graphs** have three blocks where definedness is at stake (a join, a loop and
  a dead block fit), five for the irreducible loops, which take the dataflow
  iteration more than one round, four for the structurer in every shape up to
  numbering, and six for nested and crossing loops.
* **`MemoryBytes`** is 48 and `CallDepthLimit` 5 instead of 65536 and 512, with
  frames of 8, 16 and 24 bytes: recursion runs out of depth in one instance
  and out of memory in another, in the VM as in WebAssembly. `EngineDepth`, the
  depth at which an engine or the native stack gives up, is not in the repository; 6 lets the shadow
  stack fall below address 0 before, and not before, in different instances.
* **`StepLimit`** is 300; the longest run that ends takes fewer, so only
  endless ones meet it.
* **`MaxDepth`, `MaxSlots`, `MaxOut`** bound the interpreter in the guards of
  calls, allocas and prints. They are above what the terminating programs need,
  so only endless ones meet them.
* **`MaxRounds`** is 3 instead of 8 (`opt/Pass.h:51`); the functions settle within it, and `NothingLeft` is
  stated for runs that stop before the limit.
* **Sources** that are only parsed: `x op1 x op2 x` for every two of the 18
  operators, with unary ones on the middle operand too, which is every way two
  levels of the cascade can meet; and a text with every construct, in which each
  token in turn is left out, doubled or exchanged with the next, and parentheses
  are put around every stretch of its expressions, rightly or wrongly.
* **`MaxNesting`** bounds the depth of syntax trees, above those of the menu.
* **Programs** for the front end are pairs from a menu of statements in which
  every construct occurs, with the global at different starts, and one for each
  diagnostic. **Modules** for the targets take a loop in two block
  orders, with and without a register defined anew, every way of making a value,
  of using it (once, twice, in another block, never) and of using it later;
  shifts by counts below, at and above the width, as literals and in registers;
  arrays indexed before, at both ends of and after their extent; remainders and
  divisions by 0, -1 and 3 of the least integer.

### Fairness

Every specification has weak fairness of its whole next-state relation and
nothing more: a single-threaded program keeps executing until it ends. (In
`BuiltRun` it starts after parsing and analysis, which are one step each.) No
action is favoured over another. The three targets of `Differential` are a choice
made once per behaviour, not a race. `CHECK_DEADLOCK FALSE` stands in every
configuration because each of these programs stops when it is finished; that it
stops only then is what the liveness properties say.

### Preconditions of properties

Some properties hold for the inputs the pipeline can produce and are stated so,
by a named predicate that TLC's inputs both satisfy and violate:

* `Accepted` (`Interp`): every function passes `verifyFunction`, calls match.
* `PointersStayLocal`: pointers are never stored or returned, as the builder
  has it.
* `Keepable` (`Optimizer`): the function is well defined, no parameter is
  assigned (`ParamsKept`), and an edge goes back in the listing only to a block
  that every path has been through (`ListedInOrder`). The builder makes such
  functions: the only edges that go back are those to the head of a loop, which
  `BuiltPassesVerify` checks (`GoesBackToHeads`). That definitions are listed
  before their uses is not enough: where a definition is listed first but
  reaches its use only around a loop, a pass that drops a copy in between
  changes what is listed first. `ListedInOrder` is about the graph alone, and
  passes only remove edges, so it is kept.
* `Compilable` (`Differential`): verified (`Accepted` and `WellTyped`), literals
  in range, no conversion that makes or spreads an i1, globals only loaded and
  stored, indices applied to an array's own address. For WebAssembly also `ConvertsAsNamed` and
  `IndexesNarrow`; for LLVM `ForLLVM` (single assignment, no name of a guard's
  temporary, conversions that change the width, i32 indices, no array of i1).
  A module that goes by its text meets
  `PromisedAsText` besides: every register it uses is defined somewhere (one
  that is not cannot be read), and no literal is converted, passed as an i64 or
  used as an index of an array of i64.
  `promised` records which targets promise anything. The builder makes modules
  that meet `Compilable` and `ForLLVM` but for the last three of section 5, and
  may index by a `long` and convert or pass literals.
* `strays`: a run that reads an element nothing was stored to has no meaning,
  one that indexes out of bounds or computes INT_MIN rem -1 is a known
  disagreement of some target; `Agrees`, `WasmAgrees` and `LLVMAgrees` leave out
  those runs their target does not cover, by what the interpreter did and not by
  the shape of the program. `LLVMAgrees` covers the last two.
* `SignsSomeBool`: modules with a signed operation on i1, which
  `differential_bools` is about.
* `IsSound` (`Builder`) and `WellBuilt` (`BuiltRun`): programs outside the known
  disagreements of section 5.

## 4. What is proved

TLAPS checks these for every value of the constants, so for all functions and
modules and not only for TLC's.

* `VerifyFunction_proofs`. The inductive invariant joins the type invariant with
  one conjunct per phase: what is seen is on some path and the worklist holds
  the frontier; while narrowing, no register that every path defines has been
  removed, and unless something changed this round the visited blocks satisfy
  their equations. Types alone do not give the result: that the settled sets
  are *exact* needs both the bound from below (narrowing never removes too much)
  and the fixpoint from above (a register missing on a path is missing in the
  set, by following the path). From it follow `TypeCorrect`, `AnalysisIsExact`,
  `CheckIsExact`, `IterationNarrows`, and `Refines`, the step simulation of
  `Definedness`. `OrderIsRight` needs a second invariant, `Ordered`: the stack of
  the search is a path from the entry, none of it finished, and every edge of a
  finished block leads to one finished before it or back to one that leads to
  it. The stack has to be a path, because an edge to a block that is still on it
  is harmless only as it closes a cycle.
* `Interp_proofs`. `AcceptedIsDefined`: if every function is well defined in the
  sense `verifyFunction` decides, no run reads an undefined register, leaves for
  a missing block or callee, or falls off a block. The invariant says of every
  frame that it holds what every path to its block defines plus what its block
  has defined so far. `OwnedOnce`: the slots alive are those the frames own,
  each once; the invariant adds that ids are below `nextSlot`.
  `PointersNeverDangle`, the last part: in a verified module whose pointers
  are never stored or returned, no run loads, stores or steps through a slot
  whose call has ended. The invariant: what a register holds is a number, or an
  address in a slot that its call or one below it on the stack owns, and then
  the function names the register as a pointer; slots and globals hold numbers
  only. It needs the other two: a register that is read is there
  (`AcceptedIsDefined`), and the slots a call reaches are alive as long as it is
  active (`OwnedOnce`). The types are needed as well: were a register a pointer
  in one place and a number in another, an address could be stored or returned
  under the name of a number.
* `Verifier_proofs`. `AcceptedGraphsAreSound` and `NoFalseAlarms`.
* `Optimizer_proofs`, the largest. Its first invariant, `Inv`, is about the
  tables: a register that is known has exactly one definition, behind the place
  the pass has come to; and known copies can be ranked so that each names a
  register of lower rank. The rank is what `AliasChainsEnd` lacks to be
  inductive: that following aliases ends does not say it still ends after the
  next one is added, while the rank grows by one with each.
  * `ChainsEnd`: the `while` at `CopyPropagation.cpp:93` ends on every function.
  * `ChangesShrink`: what each pass leaves is smaller in the order by which the
    rounds end. The lemmas count a listing before and after positions are taken
    out of each block.
  * `LeavesNothing`: a run that stops early leaves nothing to do. Its invariant
    `Quiet` says for each pass of an unchanged round what the passes before it
    found nothing of, and that the pass has found nothing in the instructions
    behind `at` unless it knows a register.
  * `KeepsDefined`: a pass turns a `Keepable` function into a `Keepable` one,
    and so `AlwaysDefined`: whatever `Keepable` functions it is given, the
    optimiser holds a function that is well defined after every step.
    The invariant `ValuesKept` says of every copy known, if some path leads to
    its definition, that what replaces it is available wherever the definition
    stands, is itself not replaced, and is defined behind it. Being defined
    somewhere is not enough: the use that is rewritten may be reached on a path
    the source's definition is not on, and here `ListedInOrder` is needed, to
    know that a definition every path goes through is listed first and so was
    already in the table. The three rewritings then need one lemma each: a
    function thinned of instructions (`Thins`) makes available what it made
    before, but for what was dropped; one with fewer edges has fewer paths; and
    a definition no use reads is missed by no path.
* `Structurer_proofs`, about `structure()` on any function whose graph
  `checkCFG` passes. The search, the iteration and the recursion each have an
  invariant of their own.
  * `IterationFindsDominators`: the iteration of Cooper, Harvey and Kennedy
    stops at the true dominators. Of the search the proof keeps `Line`: the
    stack is a path, and the labels listed behind one that is on it or done are
    reached from it as far as they can be without the labels before it. While
    the iteration runs, what is above a label in `idom` is only known to hold
    its dominators (`Covers`), and the table to be a tree whose edges the search
    went down (`IsTree`, `Leads`); each pass moves labels up or leaves them. That
    it stops at the dominators and not above them needs the last round:
    where nothing changed, every label hangs from the meeting point of all its
    predecessors, and then the labels d is not above are closed under edges that
    avoid d. `intersect` and the chain of idoms are recursive functions, defined
    as the code climbs, and proved to give the meeting point in the tree
    by induction on places in the order.
  * `RefusalIsExact`: `Irreducible` is raised for the graphs with a loop of two
    entries and no others. The code looks at edges that go back in the order of
    one search. If an edge u -> v goes back and v does not dominate u, the labels
    that lead to u without leaving those behind v are strongly connected and
    have a second entry; if all are allowed, the first label in the order of any
    strongly connected set dominates the rest of it, and is its only entry.
  * `WritesEveryBlockOnce`. The invariant `Emission` is about the calls that are
    still to be made: what two of them are due to write is apart, and apart from
    what is written; a label that merges is due or written as soon as its
    immediate dominator is entered, any other as soon as the one branch to it
    that goes forward is followed. At the end nothing is due, and the labels
    written are closed under edges. It needs the classification (one forward
    edge, or a place among its dominator's children), not only the tree.
* `WasmFlow_proofs`. `BranchesAreEnclosed`: in the body made of any function
  whose graph `checkCFG` passes, every `br` is inside the region it names, and
  as it runs, the regions entered are those the text nests around the mark it
  has come to. In the code a branch finds its region by its name, and nothing
  keeps what a region encloses but the order of the writes.
  * While regions are written (`Planned`), the text so far and the calls still to
    be made are read as one list of items, the *plan*. `Fits` says that some
    depths make its ends match its openings and that the regions each item
    *wants* around it are around it. A mark wants the region it branches to; a
    call wants what its marks will: `branch` the region of its target, a walk
    over `do_tree` or `node_within` the loops of the headers above its label and
    the blocks of the merging labels that the dominators above it have opened
    already. The invariant is needed for calls and not marks only, as what a
    call writes does not say what is open where it is written.
  * `Replaced`: an item taken out of a plan that fits, and a balanced piece put
    in its place that wants no more from outside than the item did, leave a plan
    that fits. One lemma for each call says its piece is of that kind; for
    a branch to a merging label it takes that the label's dominator is above the
    branch and its block open, which is where the tree of `IterationFindsDominators`
    comes in.
  * The body of the dispatch loop is put together by induction on its arms.
  * Running (`Running`): where control stands, the regions entered are the
    openings around it, from the outermost in. A branch leaves some and lands
    at the end or the opening of one of them, which the depths place.

  `BodyWalksTheGraph`: a run of the body is, step by step, a walk over the
  function's graph (`W!Init /\ [][W!Next]_(W!vars)`, the safety half of the run's
  property `WalksTheGraph`). That branches are enclosed is not enough for it: what
  a region is followed by has to be the block the branch means, and what falls
  out of an arm has to fall into the block that comes next.
  * Whoever comes to a place of a body comes with a *goal*: a given block (`To`),
    the block that $.pc names (`Aimed`), the successor that the branch of the
    block just run will take (`Out`), or the entry (`First`). `Goes` says of each
    kind of mark which goals it serves and with what goal it is left; `Routes`
    that every mark of a list serves the goals in front of it and that what is
    behind it, and where it lands if it branches, expects those.
  * While regions are written, a call still to be made is read as a mark that
    leads to its block (`Mapped`, `Leading`), so the invariant is `Routes` of the
    plan. `LeadingStep`: a call may be replaced by a piece that serves the same
    goals. `StackBack`, `BehindEnd` and `BehindElse` say, from the depths of
    `BranchesAreEnclosed`, what is behind the end or else of a region.
  * The dispatch loop is routed by induction on its arms: whatever number $.pc
    holds, control comes to the block of that number or to the next test.
  * Running (`Guided`): some goal in front of control holds of the state
    (`Met`). A `code` mark is then exactly a step of the walk, any other mark a
    stutter of it.
* `StackVM_proofs`. `OperandsBalanced`: of any module that passes `checkCFG` and
  `checkTypes` (`WellTyped`), has an entry and no function named `print_i32`,
  `EmitModule` makes a program in which the VM never finds fewer operands than
  an instruction pops (`VM.cpp:256` would read them as 0), never runs past the
  end of a function, and has an empty operand stack wherever a jump can land.
  The VM checks none of this; it rests on what three parts of the compiler do.
  The run `differential` checks the same two invariants of the VM, as part of
  the composed system (`BlocksStartEmpty` of `Differential`).
  * The invariant needs more than the property says, as after a jump the depth
    at the next instruction has to be known too, and after a call what the
    caller's stack lacks until the result is there. `Moves` relates the depths
    before and behind an instruction, `Depths` gives one to every instruction of
    a piece of code, and `Stacked` has every call at the depth its code has at
    its `pc`, less the result it waits for.
  * From checker to lowering (`InstrLowerable`): rules 6 and 8 of `checkTypes`
    are what says that an instruction has as many operands and results as its
    opcode takes and leaves. `LowerLifts`: then its code leaves the stack as it
    was. `PeepholeLifts`: a set and a get that are dropped together would have
    cancelled, so the depths around them agree.
  * From block to function (`BlockLifts`, `FunctionDepths`): each block goes from
    empty to empty, with the condition of its branch in between, and the last
    one ends in a return or a jump, as nothing follows it that could be fallen
    into. Laid end to end and patched, the blocks keep their depths, and every
    address in `starts` has depth 0.
  * In the VM, each action keeps `Stacked`. The name `print_i32` has to be kept
    out, because `Op::Call` takes it for the built-in (section 5).

  `FramesNeverOverlap`: of modules of the same kind in which, besides, no
  instruction writes a register named `__frame` (the emitter takes that name
  without asking, section 5), where slots have a number of elements and memory a
  number of bytes, the frames of
  the active calls lie in memory, one under another and never below 0, each at
  the address its call's frame local still holds, and all memory is free again
  however the run ends (`FramesApart`). The run `differential` checks it of the
  VM as a part of `FramesStacked`. Memory is not checked against the frame it
  belongs to, so nothing but this keeps a callee's slots off its caller's.
  * The invariant (`FramesStand`, on top of that of `OperandsBalanced`) has an
    address for every depth of calls: memory's end for none, each call's the one
    before less its frame, the last one `stackPointer` (`Bases`). An action then
    either leaves calls and pointer alone, or adds one call or takes one away.
  * That a frame local is never overwritten is the emitter's doing, and takes
    most of the proof: what lowering sets are registers the function writes
    (`MovesOfSet`, `Written`), the peephole and the patches set nothing new,
    and the slot after the parameters is that of `__frame`, which no `local.set`
    of another name is given (`FrameSlot`, `KeepsFrame`).
  * Sizes are sums over instructions; that they are numbers and that the locals
    are numbered without a gap are shown by induction over the positions and
    subsets the library's folds run through (`SubsetsUp`, `Built`, `PlacedSize`,
    `Appended`).
* `CFG_proofs`. The lemmas these rest on. About lists: how many positions are
  kept when some are chosen, in which order, which element each is, and the same
  for a listing of blocks. They are proved by induction on the number of
  positions, from the library's first-order theorems (a non-empty set of numbers
  has a least one): its induction rules, which take an operator, cannot be
  instantiated. About graphs: edges and predecessors, closure of path sets,
  blocks of labels.

Assumptions are those of the modules' constants: `FunctionsAssumption` and
`ModulesAssumption` (the inputs have the shape of functions and modules),
`WidthAssumption`, `BoundsAssumption`, and `LabelsAssumption` of `WasmFlow` (no
block is labelled 0, which the model keeps for "no block" and for the loop of the
dispatch; labels are any values otherwise). TLC evaluates each in some run.

Together `CheckIsExact` and `AcceptedIsDefined` say that a module whose
functions pass `verifyFunction` and whose calls match cannot fault on a lookup
in the interpreter, for all modules.

Only model-checked: everything about liveness (TLAPS does not do fairness),
although `ChangesShrink` is the measure of `Terminates`; that an optimised
program means the same (`PreservesRuns`), which compares two whole runs; the
other properties of `Differential`; of `FramesStacked`, that the WebAssembly
frames lie under one another too, and where exactly each frame starts, a sum
over the calls above it; the front end; of `WalksTheGraph` the liveness half, that
the walk goes on until a block that returns; termination and exactness of
whatever is recursive (`Analyse`, `MiniLangMeaning`, the validation in `WasmMachine`), which
is for TLC only.

## 5. Known disagreements that no run shows

* `RegToStack.cpp:245`: an index past an array traps in the interpreter and
  natively, and touches the next slot of the frame in the VM and in WebAssembly,
  though row 7 of `divergence.md` says trap. `Agrees` fails on it if `strays` may
  hold "index".
* `RegToStack.cpp:255`: an array indexed by a `long` passes checker and verifier
  (rule 8 wants an integer), and the WebAssembly made of it multiplies an i64 as
  an i32: no engine accepts the module. `IndexesNarrow` leaves these out.
* `Parser.cpp:373` gives a literal the printed type: that of an element where it
  is an index, that of the result where it is converted. Neither is what the
  builder had, and an index of an array of `long` is then an i64, see above.
* `EmitLL.cpp:143`: no `fflush` before `llvm.trap`, which `divergence.md:92` has:
  what a program printed before a trap is lost if stdout is a pipe. The Python
  emitter has it. `LLVMAgrees` allows a trapped run to have lost its output.
* `RegToStack.cpp:59` emits `rem_s` without a guard, and WebAssembly computes 0
  for INT_MIN rem -1, where interpreter and VM trap (`divergence.md:55`).
* `EmitWat.cpp` does not check the shadow stack: recursion deep enough traps on
  an address below 0, or not at all if its frame is never touched, where the VM
  reports an overflow. `WasmAgrees` leaves out runs that trapped so.
* A register called `__frame`, `__fp` or `__block`, or a global called `__sp`,
  collides with the emitter's own; a register used but defined nowhere, which
  the verifier allows in unreachable blocks, has no declaration.
* `VM.cpp:565` serves calls of `print_i32` before it looks at the program's own
  functions; `VM.cpp:295` creates a global that is read and was never declared.
* `CopyPropagation.cpp:105` applies aliases one level deep; two copies in a
  chain whose blocks are listed use first leave a use without definition.
* `CopyPropagation.cpp:86` asks only the copy to have one definition; its
  source may change in between. Only code the builder does not make reassigns
  registers.
* `ConstantFolding.cpp:182` folds `sext` and `not` of an i1 to -1, and signed
  comparisons of i1 with true as -1, against row 5.
* `Builder.cpp:93`: `temp()` does not look at the names taken, so a parameter
  called `t0` shares its register with the first temporary.
* The checker accepts a call of a void function as an operand (its type reads
  as "already reported"), the name of a function as a value, and global
  initialisers other than literals; the builder reports CIRGEN for these.
* `Parser.cpp:386` reads a literal with base 0, so 010 is 8 and 08 is 0, where
  the language has decimal and hexadecimal literals only
  (`minilang-spec.md:14`). The Python parser fails on both. `Number` of
  `SourceText` writes no leading zeros.
* The clauses of a `for` may be a `let` (`Parser.cpp:254`), for which the grammar
  has no production (`minilang-spec.md:37,40`); programs rely on it.
* `Analyse.cpp:458`: every literal has type i32, whatever its size; bool is
  widened to int where the language asks for a conversion from int only.
* `Driver.cpp:219-230` verifies only on `--verify`, and after the passes.
* `EmitLL.cpp:293`: the length of an array is spelled as one of its elements, so
  an array of bool is `alloca i1, i32 true` and one of float `i32 8.0`: llvm-as
  refuses both. `divergence.md:93` has the count "always printed as `i32`", as
  the Python emitter prints it. The module `Flags` of `MCDifferential` is one.
* `EmitLL.cpp:129`: temporaries of guards are `%g.1`, `%g.2`, ..., and so is the
  slot of a second variable called `g`: defined twice, the module is refused
  (`Namesake` of `MCDifferential`). `emit_ll.py:79` says such names are never
  generated.
* A parameter or variable called `entry` has the name of the block it is in,
  which LLVM does not tell apart.

## 6. Not modelled, and why

* **Characters**: the two lexers, the bytecode text and the wording of
  diagnostics. Texts are sequences of tokens, lines or instructions here.
* **What the CIR text has besides**: literals of type f64, array globals, globals
  without an initial value.
* **Floating point**, everywhere: TLC has no floats.
* **Array globals**: `Analyse` and `Builder` have local arrays only, and the
  back ends' layout of a global array is left out with them.
* **clang, wasmtime**: external. `WasmMachine` and `LLVMMachine` state what the
  emitters rely on of WebAssembly and LLVM.

What would come next: that control never comes to the end of a body but from a
block that returns, for which the goals of `WasmFlow_proofs` would have to cover
the arms that have been left; and the invariants of the builder, which need its
analysis taken as a constant, as `Analyse` is recursive.
