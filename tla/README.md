# A verification of the Blerg interpreter

Blerg is a small dynamic language with closures, error handling through
`trycatch`, objects made of symbols, destructuring assignment and modules. The
implementation is one sequential C++ program: `main` reads a file,
`parseModule` makes a token tree, `validateModule` and `transformModule` bring
it into a form without control structures, `compileModule` emits bytecode, and
`executeModule` and `callFunction` interpret it.

There are no threads. What makes the program hard is of another kind:

- control is spread over three stacks that must agree: frames, operands, and
  the C++ call stack, on which the interpreter re-enters itself through native
  functions;
- an error leaves any number of calls at once, and cuts the two other stacks;
- the interpreter checks nothing of the bytecode it is given;
- the operand stack is shared by all functions, and statements leave values on it;
- bytecode is put together out of order, in segments, with jumps patched at
  the end;
- nine rewriting passes have to keep the meaning of a program;
- whatever a program calls may call anything else: comparing tuples or matching a
  pattern runs user code;
- ids and counts are kept in bytes;
- programs import each other while they run: a module whose code has not come to
  its end is in no cache, and an error may leave several of them half run;
- the parser answers NULL on errors, and not all of its callers look.

Paths below are relative to the repository: `execute.cpp` is
`src/main/execute.cpp`, `bytecode.h` is `include/main/bytecode.h`, and so on.

## Inventory

| component | source | state | operations | correct if | modules |
|---|---|---|---|---|---|
| bytecode interpreter | `execute.cpp`, `runtime.h`, `bytecode.h` | operand stack, frames, scopes, things | 18 instructions, error paths, `executeModule`, `callFunction` | operands are there when taken and are the function's own; the stacks agree; an error restores them; closures are frozen | `Bytecode`, `Execute`, `Calls` |
| control natives | `lib.cpp` (`libTryCatch`), `functools.cpp` (`libCall`, `VarargThing`) | native frames, C++ activations | call back into the interpreter | calls nest; an error is caught once, by the innermost guard | `Execute`, `Calls` |
| module driver | `top.cpp` | none of its own | compile, run the module, call `main` | every failure of the front end ends the program the same way; it ends with every stack empty | `Execute` (the run), `Modules` (what each failure leads to), the compilation is `CodeGen` |
| code generator | `codegen.cpp` | `ModuleBuilder`: segments, constants, locations, labels | emitters, `internConstant`, `compileToken`, `builderToModule` | the module reads back as what was emitted, and is a program the interpreter can run | `CodeGen` |
| transformation passes | `transform.cpp`, `tokens.cpp` | a counter for names | nine passes from tree to tree | the result evaluates, binds and fails as the source does | `Transform`, `Lowering` |
| things and symbols | `thing/*.cpp`, `lib.cpp` | things, the counter of symbol ids, which outlives a run | dispatch by class, calls handed on by objects, comparison of tuples, `createSymbol`, object literals, `assert_equal`, `unpack_call` | symbols stay apart; equality is structural; what a thing says it responds to it does; a pattern gets what it asks for | `Things` |
| lists and maps | `util.cpp` | linked lists | put, get, by string or by the low byte of an int | keys stay apart | in `CodeGen` and `Things`, as far as keys are compared |
| error traces | `thing/error.cpp` | frames at the time of the error | `createErrorThing`, trace lookup by address | every address that can raise has a location | `CodeGen` (`ErrorsLocated`) |
| parser | `parse.cpp` | position in the text, the first message | recursive descent, seven levels of operators | the tree is that of the text, and every tree can be written; what is no text of the language has no tree | `Parser`, `Grammar` |
| validation | `validate.cpp` | none | `validateModule` answers 1, whatever it is given | - | none |
| imports | `lib.cpp` (`libImport`), `modules.cpp`, `operators.cpp` | a cache of modules by the name they were asked for | look in the cache, in files, among the built-in modules; compile and run | what is handed out has run to its end; a name stands for one module; a file runs once; every program ends | `Modules`, `Registry` |
| inheritance library | `inheritance.blg`, `inheritance.cpp` | a cell for every instance | `properties`, `mixin`, `method`, `class`, construction of instances | a method finds the finished instance; an instance has what its class has; of what two objects share, the first one's counts | `Inheritance` |
| teardown | `top.cpp`, `execute.cpp`, `util.cpp` | lists of all scopes and things | release everything at the end | each allocation is released once | none |
| command line | `main.cpp` | none | read a file | - | none |

How they interact. `top.cpp` calls parser, passes, code generator and
interpreter one after the other; each hands a finished structure to the next
and keeps nothing. From then on everything is calls between the interpreter and
things: `executeCode` calls the `call` function of a native thing or symbol, and
that calls `callFunction`, which starts another `executeCode`. Errors are
return values (`RetVal`), passed up through all of them.

The interfaces are where the models meet:

    text --Parser--> source tree --Transform--> flat functions --CodeGen--> module --Execute--> result
      |                                                                       |         |
      +------------------------------- Modules -------------------------------+       Things

- `MCFrontend` composes `Parser` with `Modules`: texts are parsed, what becomes of
  them decides what runs, and what runs asks for further texts;
- `Lowering` compares the two ends of the first arrow;
- `MCCodeGen` gives `CodeGen` the output of `Transform`;
- `RunsOnInterpreter` (`CodeGenPrograms`) says that what `CodeGen` makes satisfies
  `WellFormed` of `Bytecode`, which is what `Execute` assumes of its programs;
- `Calls` is the abstract specification of the control of `Execute`;
- `Inheritance` is a library written in the language, run on `Things`.

## The modules

### Bytecode, Execute, ExecuteProperties, Calls

`Bytecode` gives every instruction the operands it takes and leaves and the
places it goes on at, and defines `WellFormed`: there is a lower bound of the
operands at each address that instructions, jumps and function beginnings
respect. The bound (`depth`) is a certificate and no part of the code: that it
exists is what `executeCode` takes on trust.

`Execute` has an action for each instruction of the loop of `executeCode`, one
for its error paths (`ExecuteError`), one for its end, and actions for the
natives that call back: `libTryCatch`, `libCall`, `VarargThing::call`. Natives
that call nothing are one operator, `NativeResults`, which gives the results they
may have. The variables are `runtime`'s stack, frames, scopes and things; `host`
is the C++ call stack with what each active function keeps in locals
(`initStackFrameSize`, `initStackSize`, how far it has come); `ret` is a
`RetVal` on its way from one C++ function to its caller. `bases` is history: the
size of the operand stack when each frame was pushed. Addresses count
instructions. A list is kept with its elements, since lists never change; a
scope with its chain, since parents never change.

`input` may answer any of `Inputs`; comparing two tuples may answer anything it
could (`Things` says what it does answer).

`Calls` is what is left of control when everything else is forgotten: a
sequence of plain and guarding calls, and whether an error is on its way.
`ImplementsCalls` maps a frame to a guard if a `libTryCatch` that waits for its
block owns it.

### CodeGen, CodeGenProperties, CodeGenPrograms

The C++ recursion over the tree is the sequence `todo` of tokens to compile and
instructions to emit, which `CompileFunc` fills with the function it begins (`tree`
is the functions of the module, `begun` how many `compileModule` has begun) and
`CompileToken` expands; each emitter is an action on the builder. Segments are modelled
by their size where it shows: in `internConstant`'s search and in
`compactSegments`. Label maps go by the low byte, as `intEq` does. Memory that is
read uninitialized is `Garbage`, and `internConstant` reading it may find the
constant, miss it, or crash. Opcodes are numbered from `ByteSize` on, so that small
values of `ByteSize` do not confuse them with operands.

Two variables are history: `emitted`, the instructions the module is to be read back
as, and `placed`, the labels put down with their addresses. `TreesAssumption` says what
the passes of `transform.cpp` hand over: every jump and every `TOKEN_NEW_FUNC`
names a label of its function or a function that is there, labels stand among the
statements of a function and nowhere deeper, numbers have 32 bits, and there is a function
`$init`. `Subtrees` is the tokens of a function, so that no recursive definition is
needed; TLC evaluates the assumption on the trees that `Transform` makes.

`CodeGenProperties` reads a module as `executeCode` does. `WithinLimits` is what
the format can hold: no sequence ends with a full segment, the constants fit in
one, labels and the counts of arguments in a byte and addresses in four.
`CodeGenPrograms` reads it as a program of `Execute`: an instruction per place, the
names that follow an `OP_DEF_FUNC` being parts of it. The depths, which the code
has no notion of, are sums: what the instructions before leave and take, beginning
again from 0 at a constructor's end and where a label was put down.
`OperandsAssumption` says what the trees must be like for this to come out.
Expressions stand below expressions, calls have arguments, names and literals are those
of `Execute`, and before each statement of a function there are the operands it
takes, counting from none at its beginning and after a label (`STORE`, `DUP`, `SWAP`,
which the passes write, take what statements before them pushed). TLC evaluates it, too,
on what `Transform` makes. It leaves out what `Arity` leaves out: calls of
which the interpreter counts the low byte of the arguments and finds 0, that is
256 arguments, or a tuple of as many elements.

### Transform, Lowering

`Transform` has the passes as operators from token trees to token trees, with
the counter of `uniqueName` threaded through in the order of the visits.
`Lowering` runs a source body by its meaning (an `if` chooses a branch, a
pattern binds all its parts or fails) and the transformed body by its tokens, in
lockstep: both stop where an expression is evaluated, and the environment
gives the same value to both.

A tuple pattern matches a tuple that is longer than it: the code asks for the
parts it names and no other, and no document says otherwise.

### Things, Inheritance, ThingsProperties

A call is one action per step of a C++ activation; `calls` is the activations in
progress and `returned` what the innermost has been answered. A thing is a
record of its class and its contents. A symbol has a `nth` the code does not
have, the number of symbols created before it: ids are all the code compares,
and `nth` says whether it should have. An object keeps what it was `given` beside
its `map`, for the same purpose. Functions of the program answer any of
`FunctionAnswers`, an error among them. An int asked `responds_to` of something
that is no symbol runs on past a missing `return` and reads it as one: either
answer is allowed. Maps compare the low byte of a symbol's id (`Key`), classes
compare the whole id. The counter of ids is never set back, so a program has
the number of symbols made `before` it in the same process.

`Inheritance` adds what `inheritance.blg` does to the same calls. Its functions are
things of their own: `Constructor` is what a class is called by, `Binder` what a
method's `bind` calls, `Bound` the function that answers. A construction is an
activation that goes through the properties of the object one at a time, since
asking a value whether it responds to `bind`, and binding it, are calls that may
reach user code or fail. `cells` is what each cell made by a construction
holds: nothing until the last step; a cell that a program has made itself holds none
(`Content` is what `getCell` finds in either). A `bind` that the program has written
itself is given the cell, too, and may put a `Bound` on it and call that before there is
an instance (`BindEarly`): a function of the program that is called with the cell
of the constructor waiting for it, or with a cell of the program's own, answers as any
other, or does this first. `properties` lists an object's properties in the
order they were put for the first time, as the map's list, newest first, comes
out when it is turned round.

### Parser, Grammar

A text is a sequence of symbols: a word, a run of digits, a quoted text, white
space (comments included) or a punctuation mark is one, since the code never
looks into it again. Every function of `parse.cpp` is an operator from a
`ParseState` to a `ParseState` that holds the token it has answered; NULL is a token,
and a list of tokens is the children of an `ITEMS`. Loops of the code, over the
arguments of a call or the operators of one level, are recursions. A message, once
set, stays: functions that answer a token later do not take it back.

`Grammar` knows nothing of that. It reads the productions in the comments of
`parse.cpp` as a relation between trees and texts (`Expression`, `Block`), and
writes a tree down with no more parentheses than the levels of `OP_DATA`
require (`Write`, `WriteBlock`). Four productions are not what the parser does. Each
stands there as the comment has it, and, for those who allow the departure (the
relations' first parameter, a subset of `Departures`), as the code has it: the table
under "What the code does otherwise than it says". Of what no production has,
`Grammar` says what the code and the tests do: signs and floats, objects, functions and
the point, `::`, the inside of a tuple or a list, `while`, `return`, and that the
statements of a block are not assignments only (`parse.cpp:1033`).

### Modules, ModulesProperties, Registry

`stack` is the C++ activations that matter to imports: the run of a module's
code, a call of a function that belongs to some module, a `trycatch`. Between
them code does what it likes, `left` times at most: it calls its functions and
those of modules it has imported, guards a block, fails, or asks `import` for a
name that occurs in its text. `loaded` is history: every module that has begun
to run, and how it ended; a module's id is its place there.

`libImport` is four actions, by where it finds the name. `ImportFile` compiles
and begins to run; the cache is written by `ModuleEnds`, when the code has come to
its end, and not by the `Unwind` that leaves a module by an error. What a text
compiles to is a constant, `Compiled`: a module, a message, nothing (`NULL`
without a message), or a crash. In `MCFrontend` it is `Parser`.

A program is `Orderly` if its files can be ranked so that each imports only
lower ones, and no function is called by a module that has not imported the
function's own (`strangers` says that they are). Without the first, a module
imports itself before it is in the cache and runs again; without the second, a
function of a module that is still running may import what its caller has not.

`Registry` is what `import` is for: a name is answered with one module for ever,
and different names with different ones.

## What is checked

| run | what it asks |
|---|---|
| `execute` | the interpreter on 1,886 programs |
| `call_effect` | does a call leave only its result? (no) |
| `codegen` | modules of three statements read back and can be run |
| `codegen_segments` | is the last segment always copied? (no) |
| `codegen_constants` | does a constant keep its index with more than one segment? (no) |
| `codegen_labels` | does every jump arrive with more labels than a byte counts? (no) |
| `lowering` | transformed bodies do what their source does |
| `lowering_calls` | does a pattern fail only where it does not match? (no) |
| `things` | calls on things of every class, mixed objects, classes and instances |
| `things_not_equal` | are different tuples `!=`? (no) |
| `frontend` | texts and trees through the parser, and files that import each other |
| `frontend_null` | is a tree without NULL free of NULL inside? (no) |

**execute.** Eleven programs written after the tests (`trycatch.blg`,
`closure_values_do_not_change.blg`, `unpack*.blg`, `functools.blg`, and modules
with no usable `main`), which use every instruction and every error path that
well-formed code can reach, and all 1,875 combinations of five kinds of
statement in three functions that call, guard and fail each other.
- `OperandsPresent`: whatever callees leave on the shared stack or an error has
  cut off, the operands of the next instruction lie above the ones the callers
  left. The `TODO` of `executeCode` to check for an empty stack is answered:
  the check would never fire.
- `ResultPresent`: when the loop ends, the value that is handed on is there.
- `FramesMatchHost`: native frames belong to native functions that are active;
  the error "native frame not ended before def frame" never occurs.
- `CallerOperandsKept`: no step changes operands below the frame that made it.
- `CatchRestores`: an error that is caught finds both stacks as they were.
- `CapturedFrozen`: a scope some function was made with is stored into by nobody.
- `EndsClean`: at the end no frame and no C++ function is left.
- `ImplementsCalls`: the refinement of `Calls`.
- `Inv`: the inductive invariant of the proofs, here for the states that are reached.
- `Termination`: programs without backward jumps end (none of them recurs).
- `ErrorsAreCaught`: an error raised under a guard is caught.

**codegen.** All orders of three different statements out of seven (a call, a
definition, destructuring, matching, a loop, a conditional, a return), as
transformed by `Transform`.
- `ReadsBack`: instruction by instruction, the module's bytes are what was
  emitted, with constants looked up and jumps patched.
- `RunsOnInterpreter`: the module is `WellFormed`.
- `ErrorsLocated`: every address that can raise an error has a source location,
  and locations are sorted.

**lowering.** 74 patterns of every kind, inside tuples, lists, objects and
calls, matched with values that fit and that do not; every `if` and `while` inside
every other.
- `Agree`: both machines evaluate the same expressions in the same order, bind
  the same names to the same values, and fail together.
- `LabelsUnique`: every label that is jumped to is put down once.
- `Progress`: the tokens do not go round without evaluating anything.

**things.** Each property is about the answer a call comes to after any number of
further calls.
- `ObjectsKnowTheirSymbols`: an object answers the symbols it was given and no
  others, also in a program whose symbols have ids above 255.
- `ClaimsAreKept`: what says it responds to a symbol does. One claim is left out, since
  it is false: `bool.cpp:37` claims `+` for bools, which the dispatch at line 69 does not
  know. No test or document speaks of it.
- `EqualityIsStructural`: ints, strs and tuples of them are `==` when they are the
  same.
- `PatternsGetWhatTheyAskFor`: what `unpack_call` and `assert_equal` let through is
  what was asked for, whatever it went through.
- `MethodsKnowTheirInstance`: a method that is called finds the finished instance in its
  cell, and the instance has it. There are two other cases, and no more: it finds none
  while the constructor of this very cell waits below the call, because a `bind` that
  the program has written itself has bound a method to the cell and called it too early
  (`inheritance.blg:50`); and what is bound to a cell of the program's own finds what is
  in there. Two things programs could do are outside of it, as no program of the model
  does them: `setCell` on a cell that a constructor made, and keeping such a cell (in
  another one, for instance) to call a method bound to it when the construction has
  failed, which finds none.
- `InstancesAreOfTheirClass`: an instance has the symbols of its class, methods
  bound and values as they are.
- `FirstComesFirst`: mixed objects have what both have, and of what they share the
  first one's; a class made of an object with a `call` keeps that.
- `CallsAreAnswered`: every chain of calls comes to an end.

**frontend.** About 64,000 texts, each the main file of a program, and seven sets
of files that import each other, with functions that stay at home and with
functions that do not.
- `Sound`: every text over six alphabets up to five symbols that is taken for a
  module is one by the productions in the comments, and the tree is one they give
  it. A text may depart from a production only in the four ways of the table below, and
  only if its tree shows that it does (`Shows`): `x x;` has to be a text of the
  grammar as it is written, `x x x;` may use the departure for arguments and no other.
  Without any one of the four, `Sound` is violated on the texts of the run.
- `Complete`: expressions of every kind inside expressions of every kind, chains
  of operators of all levels, and statements inside statements, written with
  white space and without, parse to the tree they were written from.
- `CachedHaveRun`, `RunsOnce`: what the cache hands out has run to its end; in an
  orderly program a file runs again only if it failed.
- `ImplementsRegistry`: in an orderly program, `import` is a registry.
- `Inv`: the inductive invariant of the proofs.
- `Termination`: every program ends, those that import themselves by running out
  of stack.

### What the code does otherwise than it says

These runs end in a counterexample. Each is recorded in `PROJECT.json` with the
line it contradicts.

- `call_effect`: `OP_CALL` is documented to leave one value. A function that has
  run an expression statement leaves that statement's value too, under the result.
  Harmless to the functions above (`OperandsPresent` holds), but the stack grows.
- `codegen_segments`: a bytecode, constant table or location list of exactly
  1024, 2048, ... elements has its last segment left uninitialized
  (`codegen.cpp:267`).
- `codegen_constants`: with more than 1024 constants, an index found in the newest
  segment is taken as one of the oldest (`codegen.cpp:97`).
- `codegen_labels`: labels 0 and 256 share an entry (`util.cpp:206`). The names
  of labels wrap too: `uniqueName` counts in a byte (`transform.cpp:24`), and
  `LabelsUnique` holds for as long as a function has at most 256.
- `lowering_calls`: a call pattern leaves a copy of its value on the stack
  (`transform.cpp:553`), so `(point a b, c) = v` takes `c` out of the wrong
  value.
- `things_not_equal`: `!=` of tuples answers whether some pair of elements is
  equal (`tuple.cpp:80`).
- `frontend_null`: `parseCall` puts a NULL among its arguments where none could be
  parsed (`parse.cpp:613`): `f ();` is a tree, and `transformModule` reads through
  the NULL.

Four productions in the comments of `parse.cpp` say other than what the parser takes.
They have no run of their own; `Grammar` has both forms, and `Sound` says that these are
all the texts where the parser and the productions differ, among those tried.

| line | production | the code | for example |
|---|---|---|---|
| 651, 664 | `<factor> (<factor>)?` | any number of factors | `x x x;` is a call with two arguments |
| 656 | `(and \| or <expression3)*` | an `<expression4>`, as line 660 has it for all levels | `a and not b;` |
| 776 | `<identifier> = <expression ;` | any expression before `=` | `(a, b) = v;` (which the tests use), but `1 = x;` too |
| 872 | `if <block> then`, `elif <block> then` | an expression, ended by `then` | `if x then end`; `if x; then end` is refused |

Of the following no document or test says otherwise; the models have them as they are.

- Symbol ids are kept in a byte (`lib.cpp:161`): a program's 239th symbol is `+`.
  `ObjectsKnowTheirSymbols` holds for as long as they fit.
- A class with a property whose value is none or a list has no instances: those
  fail when the constructor asks them for `bind` (`none.cpp:14`, `list.cpp:14`).
- A text that stops inside an expression is an error without a message: the main
  program ends silently, an import runs `executeModule` on NULL.
- The parser takes a keyword for an identifier where it expects an identifier, as the
  production `[a-zA-Z_]+` does (`parse.cpp:244`), though it has a message for that case:
  its test looks at what comes after the identifier (`parse.cpp:251`), where no keyword
  can begin. So `if then then end` has the condition `then`.
- A point may be followed by no name, a sign by no digits (`Lenient` in `MCFrontend`); the
  comments have no production for either.
- The comma in `(a,)` is taken and the bracket is not, which a `TODO` there acknowledges.
- A tuple has two elements or more, since `(a)` is `a`: the tuple that a call
  pattern with one argument asks for cannot be made by a literal.

## Bounds

- **Execute**: the programs are the bound. Each is finite-state but for what the
  loop leaves behind, and its loop leaves nothing. Nothing else is capped. Two
  inputs are enough, because programs only compare what they read with a constant.
- **CodeGen**: `SEGMENT_SIZE` = 16 and `ByteSize` = 16 instead of 1024 and 256
  let modules of some hundred bytes cross many segments and use all four
  bytes of an address. `codegen_segments`, `codegen_constants` and
  `codegen_labels` choose them so that the smallest module shows the boundary.
  `ReadsBack`, `RunsOnInterpreter` and `ErrorsLocated` hold `WithinLimits`; those
  runs show that three of its conditions are needed, the others are the widths of
  the fields in the bytecode. The theorems have no such bounds.
- **Lowering**: `StackBound` = 3. Expression statements leave their values (see
  `call_effect`), so a loop would grow the stack for ever. With three such values on
  the stack both machines stop together: every loop has gone round by then, with
  each outcome of its condition, and every pattern has been matched above
  values left by statements before it.
  `ValuesOf` gives every condition both bools and one other value, and every
  pattern values of every shape it could be given. `ByteSize` = 256 as in the
  code.
- **Things**: a program of `Programs` makes two things (or two symbols and an
  object), and in a call one of the things is the newest: calls without it have
  been explored before it was made. Literals are one or two of a class; ints are
  natural, so that the index below zero that `tuple.cpp:99` lets through does not
  occur (what it reads is not determined by the program). Tuples are pairs, and what is
  made of tuples, or of objects, is only compared when it is a tuple and only called
  when it is an object (both for objects of objects). One program has a cell of its own,
  and a class whose property answers `bind` with a function of the program: it binds
  early to both kinds of cell. Programs with classes make at most two instances
  (`MaxInstances`): a method bound to one can then be given, or mixed into, the other.
  They end when they have, so deadlock is not checked. The later program starts after 14
  runs that made no symbols of their own, with ids from 252 on: those of the runtime lie
  on both sides of 256.
- **Parser**: `Sound` is about all texts of up to five symbols (four for the two larger
  alphabets) between a fixed beginning and end. Each alphabet has the symbols
  that one group of productions looks at, so that texts which are nearly
  right are among them. `Complete` needs longer ones: trees of depth two reach
  every pair of productions, and chains of three operators every pair of
  levels from both sides.
- **Modules**: three files, one built-in module and one name that is not found;
  five steps of the program's own choice, which is enough to fail in an imported
  module, catch it and import it again; `MaxDepth` = 4, which imports of
  themselves and nested calls reach. `Names`, `Rank` and the files are any in the
  theorems.

## Fairness

`FairSpec` of `Execute`, `Lowering` and `Modules`, and `FairInheritanceSpec`, which is that
of `Things` with the steps of the library, are weak fairness of the next step. The
program is one thread that never waits for anything but input, which is
assumed to come; a step that can be taken is taken. In `Things`, functions
of the program return (`FunctionReturns` is fair), also when they may call what they
have bound early first: a function that loops is the program's doing. Nothing is assumed of the program making calls.

## What is proved

For every well-formed program, every set of names, literals and inputs
(`ExecuteSteps`, `ExecuteProofs`, and for the last three
`ExecuteActions` and `ExecuteRefinement`):

| theorem | statement |
|---|---|
| `TypeCorrect` | `Spec => []TypeOK` |
| `Invariance` | `Spec => []Inv` |
| `OperandsAlwaysPresent` | `Spec => []OperandsPresent` |
| `ResultAlwaysPresent` | `Spec => []ResultPresent` |
| `FramesAlwaysMatchHost` | `Spec => []FramesMatchHost` |
| `CatchAlwaysRestores` | `Spec => []CatchRestores` |
| `AlwaysEndsClean` | `Spec => []EndsClean` |
| `CallerOperandsAlwaysKept` | `Spec => CallerOperandsKept` |
| `CapturedAlwaysFrozen` | `Spec => CapturedFrozen` |
| `InterpreterImplementsCalls` | `Spec => ImplementsCalls` |

The assumptions are `ProgramAssumption` (every program is `WellFormed`),
`NamesAssumption` (the builtins are names) and `LiteralsAssumption`. The first
is what `AlwaysRuns`, below, proves of the code generator.

The argument. `OperandsPresent` alone is not inductive. When an error cuts the
operand stack to the height an activation of `executeCode` was entered with, the
frames that remain need their operands, so that height has to be known to be
the base of the first frame above them (`HeightsOK`). When a native function
returns, the frame under its own has to be at an `OP_CALL` (`AtCall`) of a
function that was entered below it, so the C++ stack has to alternate as the code
nests it (`HostOK`, `OnTopOf`), with the frames of each activation in place
(`NativeFrames`), and a native function that is about to make its first call
or has been handed an error finds the operand stack as it left it (`TopOK`). And
control stays inside the bytecode only if entries and indices do, which is
`TypeOK`. `Inv` is the conjunction.

`ExecuteSteps` names the sets in a form the provers can use, proves that growing
the store keeps every value, and that natives answer values; then it has the
three shapes of step (an instruction, a call, an unwinding) that keep the parts of
`Inv` other than the types. `ExecuteProofs` has a lemma for each action and the
theorems.

`ExecuteActions` takes each action again for what it may never do. Operands
below the base of a frame are kept because bases and the heights activations were
entered with lie in order (`HeightsOK`): an instruction stays above the base of its
own frame, and an unwinding cuts no lower than the base of the first frame it
takes away. That captured scopes are frozen needs a strengthening of its own,
`Private`: wherever a function is kept (an operand, a local of a scope, a thing, an
argument of a C++ activation, the result on its way), no frame stores into its
scope. A call makes a new scope before anyone holds a function of it, and
`OP_CREATE_FUNC` copies the scope it captures, so `Private` is inductive given
`Inv`.

`ExecuteRefinement` reads the calls of `Calls` off the frames: a frame is a
guard when a `libTryCatch` that waits for its block has it. `Inv` says that
no guard lies above the frames that an `executeCode` on top of the C++ stack was
entered with, so what an error takes away there is a `Raise`; a native that ends
is a `Leave` or a `Raise`, and a `libTryCatch` that is handed an error a `Catch`.

For every set of files, whatever their texts compile to and however they import
each other (`ModulesProofs`):

| theorem | statement |
|---|---|
| `ImportInvariance` | `Spec => []Inv` |
| `ImportTypes` | `Spec => []TypeOK` |
| `CacheAlwaysHasRun` | `Spec => []CachedHaveRun` |
| `FilesRunOnce` | `Spec => []RunsOnce` |
| `ImportImplementsRegistry` | `Spec => ImplementsRegistry` |

The assumptions are `NamesAssumption` (the main file and the built-in modules
have names), `ProgramsAssumption` (files are named, and the main one is there) and
`BoundsAssumption` (ranks are numbers).

The argument. That a file does not run twice cannot be seen from the cache, which
does not know of the modules that are running. Those are on the stack:
each running module has exactly one activation that runs it (`RunsAreRunning`,
`RunningAreRun`), and what has run is the program's own module or in the cache
(`DoneAreCached`). Ranks descend along the stack of an orderly program
(`Descending`), so a file that its top asks for ranks below everything there:
it is not running, and if it had run it would be in the cache. The refinement
follows: a module that ends is the first of its name.

For every set of programs, with any literals, any things made, objects of up to
two properties written out and of any number mixed, any number of instances, and whatever the
program's functions answer (`ThingsInvariant`, `ThingsData`, `ThingsProofs`):

| theorem | statement |
|---|---|
| `InvariantHolds` | `InheritanceSpec => []Invariant` |
| `TypesHold` | `InheritanceSpec => []TypeOK` |
| `EqualityHolds` | `InheritanceSpec => []EqualityIsStructural` |
| `ClaimsHold` | `InheritanceSpec => []ClaimsAreKept` |
| `PatternsHold` | `InheritanceSpec => []PatternsGetWhatTheyAskFor` |
| `ObjectsHold` | `InheritanceSpec => []ObjectsKnowTheirSymbols` |
| `MethodsHold` | `InheritanceSpec => []MethodsKnowTheirInstance` |
| `InstancesHold` | `InheritanceSpec => []InstancesAreOfTheirClass` |
| `MixedHold` | `InheritanceSpec => []FirstComesFirst` |

The assumptions are those of `ThingsProperties`: programs are given things made of scalars,
tuples and modules (`DataAssumption`), `Plain` is ints, strs and tuples of such
(`PlainAssumption`), functions of the program answer such things or errors
(`AnswersAssumption`), and a byte has some values (`SizeAssumption`). What is said of objects and
instances holds while the ids of all symbols, those of earlier runs not counted, fit
a byte (`IdsFitByte`): beyond that a map finds the value of another symbol, as
`intEq` compares the low byte. Objects that were given `responds_to` themselves
(`Overrides`) say of themselves what they like, and are left out of
`ObjectsKnowTheirSymbols` and of what counts as a method.

The argument. All properties but two are about the answer to a call of the program,
which is there when every activation in between has gone, so each activation has to carry what
it owes. `Post` is what an activation will answer, `Needs` what it needs of the
answer it waits for, and `Promises` says that what an activation answers is what
the one below it needs, for every answer: `callFunction` hands a call on to
other things, tuples and patterns make further ones, and what arrives in the end
was promised all the way. `RestEquates` is what is left to compare of two tuples:
what has been compared was equal, which nothing on the stack records. For the
library three promises more are needed than the properties name. An object that is asked
`responds_to` says what its map has, and answers `bind` with what `Binder`
makes, if that is what it has there (`LooksUp`); other classes say what they claim
(`Tells`), and none claims `bind`; and whatever a call with a cell in its last
place answers, it is bound to that cell, or to nothing (`BindsCell`): so no value that a
constructor keeps is bound to a cell of another one, however the calls went.

What things there are is not a set the state names: an object is made of others, a
method is bound to a cell that is still empty. `Invariant` says that there is a
set `S` of things, each of its class and made of things in `S` (`Universe`), that all the
rest takes its things from. A step that makes a thing adds it, and a constructor that ends
adds the instance, and the function it has bound to itself, to `S` together
(`ConstructedKeeps`): only then does the cell hold the instance, which is why
a bound function in `S` finds the finished instance, and what is on its way need not.
What a function of the program binds early is never in `S`: it is called at once and
kept nowhere, so its activation is a case of its own (`EarlyCalls`, `IsEarly`), which says
that the constructor of its cell waits somewhere below; and as long as a constructor
waits its cell is empty (`Halfway`, which also says which properties it has gone
through).

`Invariant` quantifies over sets and over answers, so TLC cannot evaluate it. With `S`
the things of the state and answers from a small set it holds in
every state of small programs with classes (600 000 states), which found the
missing parts before they were proved.

For every module that is compiled, with segments and bytes of any size
(`CodeGenInvariant`, `CodeGenProofs`):

| theorem | statement |
|---|---|
| `Invariance` | `Spec => []Invariant` |
| `TypeCorrect` | `Spec => []TypeOK` |
| `AlwaysReadsBack` | `Spec => []ReadsBack` |
| `AlwaysPlacedOnce` | `Spec => []PlacedOnce` |
| `AlwaysErrorsLocated` | `Spec => []ErrorsLocated` |
| `ProgramInvariance` | `Spec => []ProgramInvariant` |
| `AlwaysRuns` | `Spec => []RunsOnInterpreter` |

The assumptions are `TreesAssumption`, `ByteAssumption` (a byte has two values or
more), `SegmentAssumption` (an index within a segment fits in four bytes; a segment
has at least one element), `StringsAssumption` (`tuple` is a name),
`GarbageAssumption` (what uninitialized memory holds is told from an index) and, for
the last two, `OperandsAssumption`.

The argument. `ReadsBack` is about the end, so every byte has to be accounted for on
the way. `Layout` and `Bytes` say that the instructions lie one after the
other and hold their operands, except that jumps do not yet; `References` that
the references filed are those of the jumps emitted and no others; so `Patched`
changes the operands of jumps and nothing else (`OnlyOperandsPatched`, since no byte
belongs to two instructions, `OwnBytes`). That the patching finds a definition
is about what has not been emitted yet: every label that may be named has been put
down or still stands in `todo` (`Due`), so when `todo` is empty none is missing
(`AllDefined`), and the lookup by strings finds it because keys that fit a byte
are the labels themselves (`OwnKeys`). The names of a function's arguments are part of
its instruction although they are emitted one by one (`NamesFollow`). An instruction that
may raise has its location right before it in `todo`, or filed for the address
reached (`Locations`): this holds through every expansion because no token
begins with an instruction, and a location is followed by something (`ExpansionRaises`).
`PlacedOnce` needs that what stands in `todo` is put down nowhere else, in this
function or in one not begun (`Once`), which rests on labels being numbered one after the
other (`NumberedDistinct`). All of it is kept by three shapes of step: an emission
(`EmissionInvariant`), an expansion of `todo` (`ExpansionKept`, `SameLabels`) and the
beginning of a function (`NewItems` and the lemmas after it).

`Invariant` compares tokens with instructions, which TLC cannot do in one set. With its sets
taken apart by type it holds in every state of modules of one and two
statements, within the limits and beyond them.

That the module is a program needs `ProgramInvariant`, and `AlwaysRuns` joins the
theorems about the code generator to those about the interpreter, whose
`ProgramAssumption` it establishes. Operands are counted over nested expressions, and yet
no induction over trees is needed, since `todo` is what the recursion has left to
do. `Walks` says that there are numbers, one per item of `todo`, such that
each item finds the operands it takes and those after it find what it leaves; a
token counts by its type alone: an expression takes none and leaves one. An expansion
puts the parts of a token in its place, which take and leave in all what the
token did (`Weighs`), so the walk through them is spliced into the walk through the
rest; an emission turns the first number of the walk into a depth (`Carries`). These
are lower bounds: after a label the walk goes on from 0 although more may
be there, as `WellFormed` asks of its depths, so a jump may leave behind what it
likes. The other parts say that control stays inside: a
function ends with `OP_RETURN` (`Ends`), a constructor begins one (`DefsFirst`), the
names after it are as many as it counts (`NamesOwned`), where a label was put down an
instruction is or will be, and no name of an argument (`Arrives`), and what instructions
hold is what the interpreter takes (`ArgumentsFit`). TLC finds these, with the
greatest walk in place of some walk, in every state of the run `codegen`.

Only model-checked: liveness (`Termination`, `ErrorsAreCaught`, `Progress`,
`CallsAreAnswered`), `Sound` and `Complete`, and everything about `Lowering` (`Agree`,
`LabelsUnique`). Liveness is beyond the proof system. `Transform`, `Parser`
and `Grammar`, and with them `Lowering`, `MCCodeGen` and `MCFrontend`, are recursive
over trees, as the code is, and are checked by evaluation only: what a recursive
definition computes for every tree cannot be proved here. So `TreesAssumption` and
`OperandsAssumption`, where the theorems about the code generator begin, are checked on
the trees of the runs.

## What is not modelled

- **Command line, text of errors**: input and output, no state.
- **Validation**: `validateModule` answers 1 and calls none of its checks.
- **Printing and comparing tokens**, and exponents and line numbers in the parser.
- **Paths**: a name is found or it is not; that a file is looked for in two places
  and that its path is freed before the module keeps it as its name
  (`lib.cpp:304`) is a hazard only.
- **Memory**: nothing is released while a program runs, except by `destroyThing` at
  the end; that error messages which were never allocated are freed is a hazard.
- **Arithmetic of floats**: which float it gives. On ints, division by zero ends the process
  (`Error("crash")`); overflow is undefined and left out.
- **Calls with 256 arguments or more**: their count is kept in a byte. `Arity`
  keeps the conversion, and `WellFormed` and `OperandsAssumption` leave out a count whose
  low byte is 0.

## Plan

Done, in this order: `Bytecode` and `Execute`, the core everything else meets;
`Calls`; the proofs of `Inv`; `CodeGen`; `Transform` and `Lowering`; `Things`;
`Parser` and `Grammar`; `Modules` and `Registry` with their proofs; the action
properties of `Execute` and that it implements `Calls`, proved; `Inheritance`; the
proofs about `Things` and `Inheritance`; `CodeGen` taken apart for proof, and its
theorems; that what it makes is what `Execute` assumes of its programs.

Next, in this order:

1. `Modules`: that every module that is loaded comes from its file or from the built-in
   table, as an invariant of the same proof.
2. `Teardown`: who owns scopes, things, tokens and messages, and that each is
   released once, on every path of `execFunc`.
