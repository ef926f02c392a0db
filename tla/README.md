# Verification of minilib-ports

This directory holds TLA+ models of the programs in the repository, the TLC
configurations that check them on small instances, and proofs that the TLA+
proof system (TLAPS) checks for every value of the constants.

`PROJECT.json` lists the components, the runs, the mutated definitions every
property is tried against, the source lines each definition stands for, the
disagreements found between documentation and code, and the hazards the
properties are for.

## The system

The repository ports a set of small Unix programs to a minimal C library. The
programs do not talk to each other; each is a component (or, for the shell,
several).

| Component | Sources | State it keeps | Operations | Modelled by |
|---|---|---|---|---|
| ash: signals, traps, exit | `ash/trap.c`, `error.c`, `error.h`, `main.c` | `trap[]`, `sigmode[]`, `gotsig[]`, `pendingsigs`, `suppressint`, `intpending`, `in_dotrap`, `exiting`, `handler` | the signal handler, `dotrap`, `trap`, `set -i/-m`, fork of a subshell, `exit`, the EXIT trap | `AshTrap` |
| ash: evaluation and exceptions | `ash/eval.c`, `init.c` | the C stack of evaltree, `handler`, `evalskip`, `skipcount`, `loopnest`, `funcnest`, `exitstatus`, `suppressint` | loops, functions, subshells, `break`, `continue`, `return`, errors, interrupts, the command loop | `AshEval` |
| ash: jobs | `ash/jobs.c` | `jobtab[]`, the current-job chain, `changed`/`flags` of each job, status of each process | start of foreground and background jobs, `dowait`, `wait`, `jobs`, `fg`, `bg`, job control | `AshJobs` |
| ash: redirection | `ash/redir.c` | the descriptor table, `redirlist`, `sh_fd`, `fd0_redirected` | `redirect`, `popredir`, `clearredir`, descriptors of the shell itself | `AshRedir` |
| ash: stack allocator | `ash/memalloc.c` | `stackp`, `stacknxt`, `stacknleft`, `markp` | `stalloc`, `stunalloc`, `growstackblock`, `setstackmark`, `popstackmark` | `AshMemalloc` |
| ash: input, aliases, parser | `ash/input.c`, `alias.c`, `parser.c` | `parsefile`, `strpush`, the counters of the buffer, `atab`, look-ahead token, here-document list | `pgetc`, `pungetc`, `pushstring`, `setinputfile`, `alias`, alias expansion | `AshInput`, `InputStream` |
| ash: variables, functions, hashing | `ash/var.c`, `exec.c`, `cd.c`, `options.c` | `vartab`, lists of local variables, `cmdtable`, `builtinloc`, the reference counts of functions | `setvar`, `export`, `local`, `poplocalvars`, `find_command`, `hash`, `cd`, definitions of functions | `AshVar`, `AshHash`, `AshCommands`, `ShellScopes` |
| ash: expansion, test, arithmetic, printf | `ash/expand.c`, `arith_*.c`, `bltin/`, `show.c`, ... | scratch buffers of one command | functions of their input, apart from command substitution | the use of the allocator in `AshMemalloc` |
| splitvt | `splitvt/` | two emulated vt100 windows on one terminal, the pty pair | select loop, `vt_write`, window switching, the bar, the prompt, SIGWINCH | `Vt100`, `VideoMemory`, `SplitVtWindow`, `SplitVt` |
| sed | `sed/sedcomp.c`, `sedexec.c` | compiled program, pattern and hold space, range flags, queue of texts | compilation, matching, execution cycle | `SedScript`, `SedMatch`, `Sed` |
| daft-dhcp-client | `daft-dhcp-client/daft-dhcp-client.c` | phase of the DHCP exchange, offered lease | discover, offer, request, ack, timeout | - |
| micro-http | `micro-http/serve.c` | request buffer, listening socket, one child per connection | accept, read request, send file or error | - |
| sash | `sash-3.8/` | interpreter of its own with built-in commands | commands in the foreground, aliases | - |
| games | `games/snake`, `games/snake-mikro` | board, snake as a queue of cells | step, turn, eat, die | - |
| smu, totp, die | `smu`, `totp`, `die-1.1` | none between calls | markdown conversion, HMAC-SHA1 codes, dice | - |

How they interact inside the shell: everything runs in one process and one
thread. `error.h` gives the components their common ground: an exception
unwinds with `longjmp` to whatever `handler` names, INTOFF and INTON bracket
the sections an interrupt must not unwind, and the signal handler may run
between any two steps. `forkchild` makes a child that starts with a copy of
every table and repairs what must not be inherited. `evalcommand` is the place
where redirections, local variables, functions, builtins and jobs meet: a
change of PATH must reach the table of commands, a function that is called must
outlive its definition. The parser pulls characters through `pgetc`; the
commands it produces push inputs under it (`eval`, `.`) and change the aliases
whose text it is reading.

In splitvt, two programs share one real terminal. The main loop alternates
between them, and what must agree is in three places: the state of each window,
its copy of the screen, and the terminal. In sed, the compiled script points
into itself, and the commands that read lines in the middle of a cycle (n, N, D)
share the queue of texts, the flags of ranges and the end of files with the
cycle.

What is hard: the signal handler against every other step; longjmp across
frames that hold state (counters, redirections, nesting levels); state that a
child inherits; results of `waitpid` that come for a job other than the one
waited for; descriptors that are saved, moved and restored while some of the
operations fail; the state that is left when the command loop takes over after
an error; texts and functions that are freed while something still uses them;
the boundary of a buffer in the middle of a token; a terminal that does not do
what the emulator believes at the edges of a region.

For each component, what makes it correct:

- *Signals*: no trapped signal is lost between the handler and `dotrap`; an
  action runs in the process that set it, and the EXIT action once; dispositions
  follow `trap`, `-i` and `-m`; interrupts held back are taken; nothing is
  unwound in a section that must not be.
- *Evaluation*: whatever is unwound, counters, redirections, input files,
  parameters and local variables are those of the constructs that are still
  being evaluated; skipping stops where it was aimed; no `longjmp` into a frame
  that has returned.
- *Jobs*: the table agrees with the processes, the chain of current jobs with
  the table; waits end; the shell does not leave stopped jobs behind unwarned.
- *Redirection*: everything is put back, in whatever order things went wrong;
  the shell's own descriptors survive and are not passed on; none leaks.
- *Stack allocator*: the space on top is counted exactly; marks survive
  reallocation; nothing that is allocated moves or is given away.
- *Input and aliases*: the parser gets each character once and in order,
  whatever is pushed, nested or put back; an alias is not expanded inside itself,
  and is freed only when nobody reads it; reading comes to an end.
- *Variables, commands*: locals come back when a function is left in whatever
  way; what is remembered of a command is what a search would find now; nothing
  points to a text or a function that was freed.
- *splitvt*: the real cursor, region and modes are those of the current window;
  the screen shows what the two memories hold; no write leaves a memory; output
  goes to the window of its program.
- *sed*: branches go where they are written; ranges and expressions select what
  the manual says; a line is printed once and a queued text with its line; the
  editor ends.

## The modules

The modules of the shell share no variables: what two of them have in common
(say, `suppressint`, or the redirections an exception undoes) is modelled in the
detail each needs. `AshVar`, `AshHash` and `AshCommands` are the exception, and
compose. Each module holds its constants with their assumptions, its state, one
action per operation or handler, the specification and the properties.
Definitions that begin with "Mutant", or that the text calls a mutant, are wrong
versions of the one that follows them; each property is tried against one
(`PROJECT.json`, "mutants"), and the models do not use them. The `MC` modules
only give values to constants that a configuration cannot write.

### AshTrap: `trap.c`, `error.[ch]`, the handler of `main.c`, `forkchild`

One process. Between any two of its steps `Deliver(s)` may interrupt it, which
is `onsig` if the disposition is to catch. `pc` says where it is: between
commands (`cmd`), at the test of `pendingsigs` after a command (`check`), in a
section between INTOFF and INTON (`critical`), in `dotrap` before and after
`pendingsigs = 0` (`zero`, `scan`), in the three stretches of `trapcmd` between
freeing the old action and telling the kernel (`tc_assign`, `tc_probe`,
`tc_set`), in the loop of `trap -` and in its two stretches under INTOFF (`reset`,
`rs_null`, `rs_set`), in a child after `fork` (`forked`, `clear`), in the handler of `main`
and in the parts of `exitshell_savedstatus` (`exit1` to `exit3`). `live` counts
activations of `dotrap` on the C stack and `base` those below the `setjmp` that
`handler` names, so that `Unwind` can drop frames as `longjmp` does.

When the shell forks, the model follows the child. Running a command is one
step with an arbitrary status; a trap action consists of such steps, among them
`trap`, `exit`, and, if the instance allows, errors and forks. `recv`, `mine`,
`lastrun`, `exitruns`, `want` and `abandoned` are history that only properties
read.

### AshEval: `eval.c`, `cmdloop`, the reset of `init.c`

`stack` is the C stack with one frame per construct, which keeps what the
function that evaluates the construct keeps in its locals. `mode` says what the
innermost frame does next. Actions begin constructs (loop, function, compound
command with redirections, `eval`, dot script, trap action), let them return,
raise errors and interrupts, and catch them where the code calls `setjmp`
(`CatchFunction`, `CatchRedir`, `CatchBuiltin`, `CatchMain`). A function call is
four steps, since an interrupt between them finds different things set up.
There is no program text: any construct can come at any point.

`ResetBlocks` stands for a fact of the build. `reset()` is assembled by
`mkinit.sh` from the RESET blocks of the sources, by a rule of the Makefile; the
`init.c` in the repository, though, has an empty one. The regular runs take what
the Makefile builds; the configurations with `ResetBlocks = FALSE` take the file
as it is.

### AshJobs: `jobs.c`, the prompt of `main.c`

`jobtab` and `list` (`curjob` with the `prev_job` fields) are the shell's;
`kern` and `chg` the kernel's: the state of each process, and which have a
change that `waitpid` has not reported. `Reap` is one `waitpid`, `Dowait` what
`dowait` does with its result. `pc` is the prompt, reading, the command being
evaluated, the listings of `jobs`, the two waits, and the end. What the shell
does by itself is `ShellGoesOn`, apart from the user's commands, `waitpid`
failing for a signal (`WaitInterrupted`), and the processes.

### AshRedir: `redir.c`

`st` holds what each descriptor is open on, which are closed on exec, the list
of redirected commands with what each saved, `fd0_redirected`, `big_sh_fd` and
the descriptors the shell keeps for itself; `held` is the descriptor as the
owner (the script reader, the terminal) knows it. `Redirect` is one turn of the
loop in `redirect`, so that lists fail in the middle; `Over`, `Recover` and
`Reset` are the three ways they are undone. `Acquire` and `Release` open and
close a descriptor of the shell.

### AshMemalloc: `memalloc.[ch]` and its callers

A pointer is a block and an offset, so that a pointer to a block that `realloc`
has moved leads nowhere. `frames` are the functions that hold a mark, `str` the
string that grows. The macros of `memalloc.h` and the functions of `memalloc.c`
are actions or operators under their own names; `PutAside` and `TakeUp` are the
protocol by which `expari` and `expandstr` (and, in configurations that show
how it goes wrong, `expbackq` and `exptilde`) lay a string aside while commands
run. Sizes are counted in units: `SHELL_ALIGN` to 2 instead of the largest alignment, blocks of 2
instead of 504; growth by `2 * left + 1` instead of `+ 100`.

`StackSound` settles a doubt the code has of itself: `machdep.h` says that
`grabstackstr` appears to fail with such alignments, since `stalloc` could find
the aligned length too long and take a new block, away from the string. It
cannot: what is left of a block is always a multiple of the alignment, so that a
string that fits does so with its padding.

### AshHash, AshVar, AshCommands: `exec.c`, `var.c`, and `evalcommand` of `eval.c`

`AshHash` and `AshVar` are modules of operators: each function of `exec.c`,
`cd.c` or `var.c` maps a record of the shell's tables to the record it leaves.
`AshCommands` has the state and an action for each command, which composes them
the way `evalcommand` does: an assignment in front of a function's name makes a
local variable of that function after the search for the name, one in front of
another command gives a path for the search alone (`DO_ALTPATH`); a function's
body is counted once more while it runs.

The heap is in the model: `texts` has what each allocated string holds, and a
string that is freed while something still points to it stays there as `Freed`,
so that `NothingDangling` can see it. After each step `Swept` gives back what
nothing points to any more, so that the model does not run out of places for what
the code would leak; `Room` keeps to states in which the next command cannot run
out of them either. `cmdtable` keeps the union of the code: `param` is the place on
PATH or the function, and `Garbage` is what the place reads as when the entry has
a function.

A behaviour is about one variable (`focus`), PATH or another one, so that both
are explored with all operations but not with the product of both.

`ShellScopes` is what the manual promises of `local`: `bound` has each name's
value and attributes, `scopes` a partial function of saved bindings for each
function being run. It is nondeterministic in what an assignment writes and exact
in what a return restores. `AshCommands` maps `bound` to the table (the options
are one more name) and `scopes[i]` to the *first* copy each name has in the list of
frame `i + 1`; that popping the whole list backwards gives this one back is what
the refinement shows. `ShellScopes` is weaker than the manual in three places
that the code forced: a call whose assignment fails may leave the attributes
that were set before the failure; a variable that was unset before may come back
without its attributes; and it may stay read-only.

### AshInput: `input.c`, `alias.c`, what `parser.c` and `eval.c` do to the input

`parsenextc`, `parsenleft` and `parselleft` are those of the code, together with
the stack of inputs, each with its stack of pushed strings. A pointer is either
into the buffer of its file or into a text. `preadfd` returns blocks of any size
up to `Bufsiz`, so that a block can end anywhere. The parser's actions (`Token`,
`Word`, `Peek`, `LineCont`, `Quote`, `HereDoc`, `checkend`, `Line`) each take one
call of `pgetc` or `pgetc_macro`, with the push-back that follows it; which
grammar they build is left out. Commands then redefine and remove aliases, push
strings (`eval`) and files (`.`), and fail.

`InputStream` is what the parser relies on: a stack of sequences of characters, of
which the top one is consumed. `AshInput` maps `levels` to what the buffers, the
pushed strings and the unread part of each file hold together (`PendingAt`) and
`last` to the character the parser may still put back. Reading a block, popping a
string, and the fake character at the end of an alias are stuttering steps of
it; `Clear` (an error) may drop any prefix, which is weaker than the comment at
`input.c:133`.

The loop of `preadbuffer` over the pushed strings is written as the number of them
it pops (`popstring(s, k)`), and the loops that fill the buffer and compare with an
end mark as functions with as many turns as there can be (`Refill`, `Matched`), so
that they can be proved about.

### SedScript, SedMatch, Sed: `sedcomp.c`, `sedexec.c`

`SedScript` compiles a sequence of tokens as `compile` does: groups become
branches, labels are chained through the `link` fields and resolved at the end.
`SedMatch` has `advance` and `match` on compiled expressions, place by place as
the code searches, and beside them `Means`, the definition of what such an
expression matches, written without any search order. `Sed` is the cycle:
`Read`, `Select` (which evaluates the addresses and keeps the range flags) and an
action for each command, in which n and N read on their own and wait (`pending`)
when the file ends. `out`, `seen`, `parts`, `held`, `dropped`, `again` are history.
`mode = "overrun"` stands for a program that has left one of its buffers.

### Vt100, VideoMemory, SplitVtWindow, SplitVt: `splitvt/`

`Vt100` is the real terminal; it is external, and does what `terminal.c` sends
and `vt100.c` expects. `VideoMemory` is `videomem.c`; a write outside what was
allocated sets `wild`. `SplitVtWindow` has one operator for each handler of
`vt100.c`, from a pair of window and terminal to the pair it leaves. `SplitVt`
composes two windows with one terminal and the main loop: a program writes, item
by item, after `set_win` has set the terminal up for it, and `set_win` goes back
to the window of the keyboard at the end; in between come the prompt, the
commands at the prompt, the ends of programs and SIGWINCH.

`set_attr`, which ESC 8 and the prompt end in, switches every attribute off and none
on again: it hands the attributes of the window to `check_attr` unshifted, which
looks for them above bit 8. `SetAttr` does the same. A character of eight bits is a
number from 128 (`EightBit`); `add_video` stores it as a signed `char`, with all
attributes.

`Assumed` names sixteen situations in which the code is known to fail, and which
the regular run keeps away from by a precondition on the input (`Careful`,
`RepaintIsPlain`, `PromptIsPlain`, `RegionFits`, `Winch`). Each can be taken out by
itself to see the failure: see "Further configurations".

### The modules named ...Proofs

Theorems about `AshTrap`, `AshEval`, `AshJobs`, `AshRedir`, `AshMemalloc`,
`AshCommands`, the handlers of `SplitVtWindow` and `SplitVt`, and their proofs; see
"What is proved".

## The runs

A configuration's file has the name of its run. Bounds are the constants that
begin with `Max`. Deadlock is not checked where a shell that has ended, or a
bound that is used up, leaves nothing to do.

| Run | What it shows | Bounds and why they are enough |
|---|---|---|
| `AshTrapScript` | A script (`FairSpec`) that traps EXIT, INT and another signal, ignores or resets them, and forks a background child. `OwnActions`, `ChildDispositions`: a child keeps and loses what it must (`SubshellResetsTrapped`, `SubshellKeepsIgnored`, `BackgroundIgnoresKeyboard` in one). `ExitActionOnce`. `TrapsRun` and `InterruptsTaken` under fairness. `TypeOK`. | Two signals in all, two trap commands and one fork: enough for a signal that comes while the action of another, or the EXIT action, runs. |
| `AshTrapInteractive` | An interactive root shell, `-i` and `-m` changing, errors. `NoTrapForgotten`, `TrapTableGuarded`, `RootDispositions`. | Three signals of which one is INT, one TERM and one TSTP, the classes `setsignal` tells apart. |
| `AshEvalErrors` | Errors at every point, constructs nested. `CountersExact`, `StateRestored` (redirections, files, parameters, local variables, interrupts), `SkipInScope` (with `SkippedNotRun`), `SkipLands`. | Four constructs deep and seven commands: a loop in a function in a dot file in a redirected command, and commands after an error. `FuncLimit` is 2, so that the limit is met. |
| `AshEvalSignals` | The same with an interrupt, a trap action, `command` and redirections that fail. `HandlerLive` (with `TypeOK`). | Depth 3, four commands. |
| `AshJobs` | `ListSound`, `StatesAgree`, `ChildrenKnown`, `ExitWarned`, and `WaitEnds` under fairness. | Two jobs, three processes (one pipeline has two), two stops, one change of `-m`, one subshell. |
| `AshRedir` | `RedirectionsUndone`, `NothingLeft` (also not in the children), `ShellFdsSafe`. | Descriptors up to 5, with one standard descriptor and one above; two commands nested, two redirections each: saved copies fill the table. |
| `AshMemalloc` | `MarksSound` (with `StackSound`), `AllocsKept`, `StringExact`. | Three blocks of up to 6, so that growth in place, growth by a new block and here documents all happen; three marks, so that realloc relocates two. |
| `AshCommands` | `HashedRight`, `NothingDangling`, and `ImplementsScopes`, the refinement of `ShellScopes`. | Two commands (a program; a builtin that is a program as well), three values of PATH with a directory, the current one and `%builtin`; one function nested, two saved copies, two changes of PATH or three of another variable: a copy of a copy, and a change that fails between them. Eight texts are always enough for `Room`: four for PATH, the variable and two copies, and four for one command. |
| `AshInput` | `InUseExact` (with `TypeOK`), `AtEofExact`, `ImplementsStream`, the refinement of `InputStream`, and `ReadingEnds` under fairness. | Blocks of one or two characters cut every token; two nested inputs; three aliases, so that one is redefined while its old text is read; three commands. |
| `Sed` | `LinksRight` (with `TypeOK`), `LinesAndTexts`, `AddressesAsDocumented`, `NoneLeft`, and `SedEnds` under fairness. | Every order of up to three of 15 commands, and some fifty scripts with groups, labels, D, t and T and six expressions with stars and groups; five inputs of up to three files, empty ones and lines too long for the buffer among them; with and without -n. `MAXBUF` is 6 and `MAXAPPENDS` 4, so that they are met. |
| `SplitVt` | `CursorFollowed` (with `KeyboardFollowed`), `ScreenIsMemory`, `InMemory` (with `TypeOK`). | Windows of three lines and two columns have a first, a last and a middle line and a right margin; three items out of 31, one prompt and one change of height, in every order. The prompt is one character (`PromptLength`), shorter than a line, as it is on a terminal of more than 17 columns. |
| `SplitVtWinch` | Violation: see below. | |

A finding, a sentence of the repository that the code does not keep:

- `RightWindow` (`SplitVtWinch`): `winch` runs at any moment and makes the window
  of the keyboard the current one; the rest of what `vt_write` has in hand then
  goes to that window, although `vt100.c:1021` says "First set the proper window"
  of it (`splitvt.c:768`). `SplitVtProofs` shows that this is the only way.

More of them are under "Further configurations".

### Fairness

- `AshTrap`: weak fairness of `ShellStep`: a process that can take a step is
  eventually scheduled. Strong fairness of `ActionDone` and `ExitActionDone`: the
  commands of a trap action are arbitrary, and an action that loops for ever
  would keep every other waiting; that they end is assumed of the user's
  actions, not of the shell. Nothing is assumed of signals.
- `AshJobs`: weak fairness of `ShellGoesOn`, the steps the shell takes by itself;
  each is a call that returns when the kernel has something to return. It is
  written with `CanGoOn` in place of ENABLED, which TLC evaluates more slowly.
  Nothing is assumed of processes, signals and the user: `WaitEnds` speaks of
  waits whose processes are gone.
- `AshInput`, `Sed`: weak fairness of `Next`, a process that goes on until it is
  done; since `Next` is enabled until then, it is written without ENABLED, too. In
  `AshInput` the bound on commands is what ends an input that feeds on itself; the
  scripts of `Sed` are those that should end.
- `SplitVt` has no liveness: it waits for its programs and its user.

### Further configurations

These check one property that the code does not have, under circumstances the
regular runs leave out. Run `tlc -config X.cfg M` to see the trace. Those that name a
sentence of the manual or of a comment are disagreements like the one above.

| Configuration | Module | What it shows |
|---|---|---|
| `AshTrapSubshell` | AshTrap | In a child of an interactive shell a signal ignored with `trap ''` goes back to its default if it is INT, QUIT or TERM (`SubshellKeepsIgnored`; `jobs.c:1246`, `ash.1:3480`). |
| `AshTrapEntry` | AshTrap | A trap in a script on a signal that was ignored on entry: `setsignal` probes the old action by installing one it has not initialised, and so takes the signal for not ignored (`EntryIgnoredStays`). |
| `AshTrapOwnSignal` | AshTrap | A child runs the action it has set for a signal that only its parent received: `pendingsigs` and `gotsig` are inherited (`OwnSignals`). |
| `AshTrapExit` | AshTrap | An `exit` that an interrupt called off leaves `exiting` set, and the next `exit` ends with the status of the first (`ExitUsesLastStatus`). |
| `AshTrapAbandoned` | AshTrap | An error or an interrupt that leaves `dotrap` leaves the signals it had yet to scan waiting until another one comes (`TrapsRun`). |
| `AshEvalCommandReturn` | AshEval | An error that `command eval` catches leaves `funcnest` raised, and a `return` at the prompt starts to skip (`ReturnNoOp`; `eval.c:1357`, `ash.1:3275`). |
| `AshEvalNoReset` | AshEval | With the `init.c` of the repository the nesting of functions outlives an error (`ReturnNoOp`). |
| `AshEvalParams` | AshEval | An interrupt after a function's parameters are set and before its handler is: the shell keeps the function's parameters (`ParamsExact`). |
| `AshEvalCommand` | AshEval | An error that `command eval` or `command .` catches leaves the redirections of the commands inside it (`RedirsExact`). |
| `AshEvalTrapSkip` | AshEval | A trap action that starts while commands are skipped stops after its first command (`TrapRunsWhole`). |
| `AshJobsPrompt` | AshJobs | A background job that ends while the shell waits for another one is not reported at the prompt and stays in the table (`PromptCleansUp`; `jobs.c:1415`, `ash.1:2943`). |
| `AshRedirExec` | AshRedir | In posix mode `exec 3>&1` leaves 3 closed on exec, though `ash.1:531` says such descriptors are passed on. |
| `AshRedirLimit` | AshRedir | The terminal stays at a low descriptor when the table is full, and a later `popredir` closes it. |
| `AshRedirCopies` | AshRedir | `exec` within a redirected command redirects the descriptor that holds a saved copy; the wrong file is put back. |
| `AshMemallocBackquote` | AshMemalloc | `expbackq` at the start of a block keeps a pointer that `realloc` makes stale. |
| `AshInputNul` | MCAshInput | A NUL character is moved out of a line, but what stays in the buffer behind it is read again as part of the next line (`ImplementsStream`; `input.c:178` and the comment at `input.c:311`). |

The same can be seen for the following with the constants of a configuration that
is there, changed as the second column says.

| Property | From | Changed | What it shows |
|---|---|---|---|
| `RedirsExact` | `AshEvalNoReset` | `Kinds = {"redir"}`, `MaxCmds = 3` | with the repository's `init.c` a redirection outlives an error |
| `Fd0Known` | `AshRedirExec` | `posix = FALSE`, the invariant in place of the property | after `<a <b` the shell believes that descriptor 0 is still redirected |
| `LocalsExact` | `AshEvalParams` | the property | the interrupt of `ParamsExact` leaves the function's local variables |
| `InterruptsOn` | `AshEvalErrors` | `Kinds = {"redir"}`, `WithBadRedirs = TRUE` | a redirection of a compound command that fails between INTOFF and INTON leaves interrupts off |
| `ExitNotBySignal` | `AshTrapScript` | `SPECIFICATION Spec`, `Conditions = {2}`, `ForkModes = {}`, `WithErrors = TRUE` | a shell that runs `exit` after an error left a trap action kills itself with that action's signal, since `in_dotrap` is still raised |
| `ErrorClearsInput` | `AshInput` | `SPECIFICATION Spec` | an error discards the line and not the rest of the buffer, contrary to the comment at `input.c:133` |
| `InSpace` | `AshMemallocBackquote` | `Kinds = {}`, `MayFail = {"realloc"}` | `realloc` fails after `stackp` was moved: the mark of the handler is not found |
| `InSpace` | `AshMemallocBackquote` | `Kinds = {"tilde"}` | `exptilde` grows the user's name on the new top without STARTSTACKSTR: `sstrnleft` still counts from the string put aside |
| `FunctionsKept` | `AshCommands` | the property in place of the others | `hash foo; cd /; foo() { :; }; foo` runs the program: `defun` keeps the mark `rehash` of the entry it reuses, and `find_command` reads the function as a place on PATH (`exec.c:1007`, `ash.1:1056`) |
| `HashedRight` | `AshCommands` | a PATH `<<"/b", ".">>` more | the same mark and the same misreading in a table: `hash foo; cd /a; foo() { :; }; foo` skips `/b`, which it takes for searched, and remembers the `foo` of the current directory behind it |
| `RestoredExactly` | `AshCommands` | the property in place of the others | the three exceptions of `ShellScopes`: after a return a variable may have attributes it did not have, or not those it had (`var.c:1148`; `ash.1:3004` promises them back) |

For sed, with `Sed.cfg`, `SPECIFICATION Spec`, `Quiet = {FALSE}` and the script
and the input that are named (both in `MCSed`):

| Script | Input | Property | What it shows |
|---|---|---|---|
| `ShortRange` | `MCLines` | `AddressesAsDocumented` | `2,1d` deletes two lines; `minised.1:61` says that only one is selected (`sedexec.c:177`) |
| `Trailing` | `MCTrailing` | `AddressesAsDocumented` | `$` does not match the last line when empty files follow it |
| `OldTest` | `MCLines` | `TestIsRecent` | t goes by the last s alone, not by any since the line was read |
| `Boundary` | `MCBoundary` | `OnceAcrossFiles` | n at the end of a file prints the line, and prints it again when the next file continues it |
| `CutShort` | `MCLines` | `ChangeShown` | the text of a c with a range that the input cuts short is never printed |
| `ManyTexts` | `MCLines` | `NoOverrun` | the queue of texts is one short: the last of `MAXAPPENDS` commands writes behind it |
| `FullHold` | `MCFull` | `NoOverrun` | a line that fills its buffer does not fit the hold space with its null |
| `GlobalStar` | `MCTwice` | `NoneLeft` | a star at the beginning keeps one character after a first match, so that `s/a*ab/b/g` misses some |
| `GroupStar` | `MCTwice` | `AddressesAsDocumented` | a starred group gives back single characters and not whole turns: `^\(ab\)*b` matches abab |
| `Third` | `MCTwice` | `SuccessIsReplaced` | `s/a/b/3` with two matches reports success |

For splitvt, with `SplitVt.cfg` and one member of `Assumed` left out. Where not said
otherwise `ScreenIsMemory` or `CursorFollowed` fails.

| Left out | What it shows |
|---|---|
| `"margin"` | past the last column the real cursor is one column behind the emulated one; what moves or erases from there is off by one, and ESC H there writes behind the tab stops (`InMemory`) |
| `"region"` | a line feed below the region moves the real cursor on, out of the window |
| `"reverse margin"` | a reverse index above the region likewise |
| `"one line"` | a region of one line is taken by the emulator and refused by the terminal (`r` with 2 and 2 among the inputs) |
| `"erase"` | the line feeds by which a screen is erased scroll the region when one is set (`r`, `J`, `char` and `nl` as inputs, `MaxOutputs = 4`) |
| `"saved"` | ESC 8 before any ESC 7 restores line 0, and the next character is written in front of the memory (`InMemory`) |
| `"attributes"` | `set_attr` puts no attribute back, although it is to "set the terminal attributes to those of the specified window" (`vt100.c:136`): after ESC 8 with a bold cursor saved, or after a prompt while the window is bold, the terminal is plain (with `MaxCommands = 0` it is ESC 8 that shows it) |
| `"8-bit"` | `add_video`'s signed `char` gives a character of eight bits all attributes in the memory, for all the "simple 8 bit char support" of `CHANGES:97` (`ScreenIsMemory`, with a `char` of 128 among the inputs) |
| `"insert"`, `"delete"`, `"lines"` | insertion and deletion in the memory are not what the terminal does (`"delete"` with `MaxOutputs = 4` and `char`, `cr` and `P` alone as inputs) |
| `"reset"` | ESC c resets the window and not the terminal |
| `"plain"` | a repaint leaves the terminal with the attributes of the last cell |
| `"shrink"` | a window becomes as small as its region's first line (`InMemory`, with `r` 3 and 4 among the inputs) |
| `"winch"` | SIGWINCH within a write: the run `SplitVtWinch` |
| `"prompt"` | SIGWINCH at the prompt: the bar is written into a window |
| - | `BarMovesAsAsked` with `Digits = {3}`, `MaxCommands = 2`, `MaxOutputs = 0`, `Heights = {7}`: a bar that would leave its limits moves the other way (`splitvt.c:515`) |
| - | a prompt that fills its line (`PromptLength = 2`): its last character stays in the bar (`ScreenIsMemory`); "splitvt command: " does so in 17 columns or fewer |
| - | both attributes at once (`m` of 1 and 7, `m` of 0 and `char` as inputs, `MaxOutputs = 4`): `check_attr` takes a cell for reverse only when nothing else is set, so that a repaint loses it (`ScreenIsMemory`) |
| - | `ColourFollowed`, with a `m` of 31 among the inputs: a colour set by one window is left on for the other |


## What is proved

### AshTrapProofs

For every number of signals, every numbering of the named ones, every option and
every value of the bounds, from the assumptions in `AshTrap` on its constants
only:

- `Inductive`: `Spec => []IInv`;
- `TypeCorrect`: `Spec => []TypeOK`;
- `NoneForgotten`: `Spec => []NoTrapForgotten`, checked by `AshTrapInteractive`;
- `TableGuarded`: `Spec => []TrapTableGuarded`, checked by the same run.

`IInv` is `TypeOK /\ Control /\ TrapTableGuarded /\ NoTrapForgotten`. None of the
last two is inductive by itself. A step that unwinds could drop the activation
of `dotrap` that was going to look at a signal; `Control` says that an activation
that scans is always above the frame the handler names, so that an unwinding
either keeps it or marks it as abandoned. An interrupt in `tc_assign` or `rs_null` would
leave a dangling pointer behind; `Control` says that `suppressint` is positive
there. And `savestatus` is indexed by the activations, so that type correctness
itself needs a bound on them: `Nesting` bounds activations and pending signals
together by the number of signals delivered, which is the reason there are
never more than `MaxSignals`.

The proof has a lemma for each action, and under it a step for each part the
action disturbs. `NextIInv` combines them.

On top of `IInv`, `DInductive` (`Spec => []DInv`) relates traps, options, `sigmode` and
the kernel through every step, and gives, for all constants again:

- `RootInOrder`: `Spec => []RootDispositions`, checked by `AshTrapInteractive`;
- `ActionsOwned`: `Spec => []OwnActions`, checked by `AshTrapScript`;
- `ExitOnce`: `Spec => []ExitActionOnce`, checked by `AshTrapScript`;
- `ChildResets`: `Spec => []SubshellResetsTrapped`, the part of `ChildDispositions`
  that holds whatever the options.

`RootDispositions` speaks of the root shell between commands. To be inductive it
needs `ModeMatches` (what `sigmode` says is what the kernel was told, in every
process and at every point but the two where a system call is under way),
`RootSettled` (the same in the windows of `trapcmd`, for every signal but the one
that is being set) and `ModeKnown`. `OwnActions` needs to know whose the actions
in `trap[]` are while a child still has its parent's table (`ParentTraps`,
`OwnTraps`), and that nothing is left installed for them (`ChildReset`).

`ChildrenProtected`: `Spec => []ChildDispositions`, the property as `AshTrapScript`
checks it, under the three assumptions that run makes: neither `-i` nor `-m`, at
the start or later. Each is needed: `AshTrapSubshell` is the counterexample. Its
invariant is `NoJobControl` on top of the others.

### AshEvalProofs

Stacks of every depth and every set of constructs, with every bound:

- `HandlersLive`: `Spec => []HandlerLive`, from `Chained`: `Spec => []EInv`, for all
  constants, that is with interrupts, traps, bad redirections, `command` and either
  `init.c`. `EInv` is `TypeOK /\ Chain /\ Places /\ Levels /\ SkipCounts`. `Chain`
  says that the handlers saved in the frames lead from one armed frame down to
  the next, which is what makes `handler` right again after each return. `Levels`
  bounds the counters from below by the frames they count: without it the
  counters could go below zero, and `TypeOK` would not hold.
- `CountersAreExact`: `Spec => []CountersExact` if `ResetBlocks` and not
  `WithCommand`, from `Exactly`: the counters are the number of the frames they
  count, exactly, at every point where no exception is under way, and each frame
  that catches keeps the numbers below it.
- `StateIsRestored`: `Spec => []StateRestored` if furthermore there are no
  interrupts (`MaxInts = 0`) and no failing redirections of compound commands
  (`WithBadRedirs = FALSE`), from `Restoring`: `redirs` holds the frames that
  redirected and still have to undo it, in order; `params` and `localvars` are those
  of the innermost function that has set them up, which is one frame further out
  in the two steps of a call between.
- `SkipStaysInScope`: `Spec => []SkipInScope`, and `SkipLandsWhereMeant`:
  `Spec => SkipLands`, if `ResetBlocks`, not `WithCommand`, and without trap actions
  (`MaxTraps = 0`), from `Aiming`: as long as commands are skipped, the construct
  meant is the one that `skipcount` loops, or the function or file count, lead to
  from the innermost frame, through the `eval` and `dot` frames between.

These are the assumptions of the run `AshEvalErrors`, and the code does not keep
the properties without them. `AshEvalCommand`, `AshEvalCommandReturn`,
`AshEvalParams`, `AshEvalNoReset` and `AshEvalTrapSkip` are the counterexamples for
`WithCommand`, interrupts, `ResetBlocks` and trap actions, the row of `InterruptsOn`
that for failing redirections. For `SkipLands` alone TLC finds no counterexample
without `ResetBlocks` at the bounds of the run; the proof uses it.

### AshJobsProofs

For any number of jobs, processes and pipelines, from the assumptions of `AshJobs`
on its constants only. These are all the invariants of the run `AshJobs`.

- `JobStates`: `Spec => []StatesAgree`; `ChildrenAccounted`:
  `Spec => []ChildrenKnown`; `LeavesWarned`: `Spec => []ExitWarned`. They follow from
  `TableRight`: `Spec => []TInv`. `TInv` says of each entry that it is a record whose
  state is that of its processes, or free and empty; that processes that may still
  change are children, and each child is a process of one entry; and it ties the
  countdown `job_warning` to the number of commands since the warning, without
  which `ExitWarned` is not inductive.
- `ListAlwaysSound`: `Spec => []ListSound`, from `ListRight`: `Spec => []LInv`. The
  chain goes through the array by index; that it has no loop cannot be said by
  following it. `Reaches` says instead that there is a set of used entries, with
  every job that is not done among them, and a rank for each of them, such that
  `cur` leads into the set and each link goes to a lower rank or ends. Unlinking,
  moving an entry behind the stopped jobs, pushing and freeing keep such a set
  with changed ranks. `ListOfLinked` goes from there to `ListSound`: `MaxJobs` steps
  of strictly falling rank through `MaxJobs` entries must have ended, by the
  pigeonhole principle.

`ListOf`, the walk of `set_curjob` to the last stopped job, and the fold by which
several jobs are delisted are recursive functions and folds. What they compute is
proved by least counterexample: `ListOfSteps`, `LastStoppedWalks` and
`DelistIterates` show that the function with the recursive equation exists, so
that the definition's CHOOSE is one, and the proofs go on from the equation.

### AshRedirProofs

For every limit of descriptors, every set of bases, any nesting of commands and
lists of redirections of any length, with or without posix mode. These are all
the properties of the run `AshRedir`.

- `ShellFdsKept`: `Spec => []ShellFdsSafe`; `NoCopyLeft`: `Spec => []NothingLeft`;
  `RedirectionsAreUndone`: `Spec => RedirectionsUndone`; from `RedirRight`:
  `Spec => []RInv`.

All are from the assumption `Simple`, which says what the run `AshRedir` has, too:
users redirect descriptors below `LowFd` only, and the shell holds nothing but a
script. Neither half can go: `AshRedirCopies` is the counterexample with a user's
descriptor at `LowFd`, which may be a copy, and `AshRedirLimit` that with a terminal
that the shell keeps at a user's descriptor when the table is full. A script is
closed then, and that is an error.

`RInv` says of the table at every point, between two redirections of a list as
well: an owner's descriptor is open on its file and closed on exec (`Owned`); a
copy is open on what its original was open on when the command began, and what
has none was closed then (`Copied`); no two saves share a copy, and a command
saves each descriptor once (`Apart`); nothing else is open above the user's
descriptors (`Full`). None of these holds alone: that a copy is still right needs
that no other copy and no owner got its place, and that a descriptor is saved
right needs `Begun`, that what a list has not yet redirected is as it was when the
command began. The steps of one redirection are cut in two by `Touches`: whatever
opening and copying do, they change one user's descriptor and free ones only, and
`TouchSound` shows that this does no harm. `PutBack` is what `popredir` and
`resets` do to n commands at once; `PutBackUndone` compares it with `Undone`.

The fold of `Undo` and the function of `resets` are unfolded as in `AshJobsProofs`,
by least counterexample (`UndoIterates`, `ResetIterates`).

### AshMemallocProofs

For every alignment but one byte, every size of a block that is a multiple of it,
every size that is allocated and string that grows, and any nesting of commands
and expansions. These are all the properties of the run `AshMemalloc`.

- `MarksAlwaysSound`: `Spec => []MarksSound`; `AllocsAreKept`:
  `Spec => []AllocsKept`; `StringAlwaysExact`: `Spec => []StringExact`;
  `CharactersInSpace`: `Spec => []InSpace`; from `StackRight`:
  `Spec => [](MInv /\ ~wild)`.

All are from the assumption `Usual`, the constants of that run: of the expansions
`expari` and `expandstr`, and a `realloc` that does not fail. `AshMemallocBackquote`
and the two rows of `InSpace` are the counterexamples for the two other expansions
and for `realloc`.

`MInv` orders everything that lies on the stack. `Marked`: the marks lie in the
order of their functions, each in a block that is there, with as much left in it
as the block has above the mark. `Noted`: what is allocated lies in order, above
the marks set before it and below those set later (`Clear`); and whatever is
allocated in a block in front of a pointer keeps that pointer from offset 0, which
is why `realloc`, which asks for offset 0 only, moves nothing that is in use.
`Asides`: a string that was put aside is where its mark is, and its length and
what is left of the block agree. `Growing` is `StringExact` for the string that
grows. Two shapes cover what the actions do to the stack: `Higher`, the top goes
up and everything below stays (`HigherStacked`), and `Renewed`, a block with
nothing but marks and the string gets another name and size (`RenewedStacked`).
`Popped` is the way back to any mark, by a return or an exception. `Units` and
`AlignRight` are the arithmetic of `SHELL_ALIGN`: that what is left stays aligned
is what settles the doubt of `machdep.h` for every alignment.

### AshCommandsProofs

For every set of variables, values, commands, programs and directories, any
nesting of functions and every bound, from the assumptions of `AshHash`, `AshVar`
and `AshCommands` on their constants only:

- `TypesRight`: `Spec => []TypeOK`;
- `NothingDanglingAlways`: `Spec => []NothingDangling`, checked by `AshCommands`;
- `HashedRightAlways`: `Spec => []HashedRight`, checked by `AshCommands`, under the premise
  `GarbageHarmless` below;
- `ScopesImplemented`: `Spec => ImplementsScopes`, the refinement of `ShellScopes`, checked
  by `AshCommands`;
- all from `InvHolds`: `Spec => []CommandsInv`.

`NothingDangling` says that the table and a saved copy share a text only where the
variable is marked VTEXTFIXED. That is not inductive, since it says nothing of two
copies of the same variable, one of which becomes the table's when the other is
popped. `Owned` is what is: of all that points to one text, the variable and its
copies in whatever functions, each but the oldest is marked, so that there is one
that frees it, and the last one to be left. That mark is what `mklocal` adds to
the variable *after* its flags have been copied, and what `poplocalvars` brings
back with them; `setvareq` may drop it only because it also gives the variable a
text of its own. `CopiedOwned`, `ReplacedOwned`, `RemovedOwned`, `FlaggedOwned` and
`RestoredOwned` are the five things that happen to owners, and every function of
`var.c` is one or several of them. `Kept` says in addition that PATH is never taken
off the table, which the function of PATH relies on.

For functions, `Bodies` counts: the number in `funcs` is at least that of the calls
that run a body, and one more where a command has it, and no two commands have
the same. `find_command` takes part: the entry it finds is the one in the table
(`Searched`), whatever it reads as a place where the entry has a function.

`poplocalvars` is a fold from the right over the list, which `PopsIterate` unfolds
by least counterexample, as in `AshJobsProofs`: `PopLocalVarsRight` is the
induction over the copies. It needs one free text more for each, since
`unsetvar` may allocate (`Left`); `Room` is the bound this uses, and `Lens` the bound
on the lists. `HashedUnderRight` is a `hash` under an assignment to PATH, which is a
local variable for the time of one builtin.

For `HashedRight` the table has to be right for the value that PATH has (`Remembered`):
`builtinloc` is the place of `%builtin` on it, and each entry is true (`TrueOf`). An
entry in doubt after a cd says nothing of the places that depend on the current
directory (`Doubtful`), and still says of the others that the command is not there
before its place, which is what lets `find_command` skip them: `FoundAgain` shows
that a search which starts from such an entry stops where one that remembers
nothing would. `ChangePathRight` is the other half: `changepath` clears what was
found at or behind the first component that differs, and no more is needed
(`SharedRight`, `TrueMoved`), with the case that the builtins lose their place on
PATH apart. Every operation that may reach PATH carries `Remembered` along, from
`setvareq` to the fold of `poplocalvars`, in which PATH changes once for each copy.

`GarbageHarmless` is the premise that the code makes necessary: `defun` keeps the
mark of the entry it reuses, and the next search reads the body's address as a
place on PATH (`exec.c:1007`). Either no functions are defined, or that number is
behind the end of every PATH (or negative, as the other member of `Garbage` is) and
no PATH has the current directory behind another component. The constants of the run
satisfy it; with a PATH that does not, `HashedRight` fails (see "Further
configurations").

For the refinement every command is shown to be one step of `ShellScopes` from the shell
`St` to the shell it leaves (`Shown`): one variable changes, or is made local, or a
function is called, or one returns. Each function of `var.c` says which
(`ChangesOnly`: nothing else is bound differently, and the texts of the saved copies
stay), and what runs one after the other in one command is composed. Two facts are
needed that are not in the mapping. `PoppedTo` is what is true in the middle
of `poplocalvars`: of the copies that have been popped, the *oldest* one of each
name decides what it is bound to. And `Locked` is an invariant of its own, proved
together with `CommandsInv`: where a copy of a variable is read-only, so are the
variable and every later copy of it. Without it a later copy could take the
attribute away and leave the oldest one to be refused, and `Restored` would not hold
for a variable that was not set. `StepShown` carries the step of the shell over to
the mapped variables (what `Swept` frees is in no scope), and `ChangesImplemented`,
`DeclaresImplemented`, `EntersImplemented` and `LeavesImplemented` are the four actions of
`ShellScopes`.

### AshInputProofs

For every set of files, strings and alias values, every block size, any nesting of
inputs and pushed strings and every bound, from `InputConstants`, the assumption of
`AshInput` that its constants are texts:

- `AliasesInUse`: `Spec => []InUseExact`, and `EndsSeen`: `Spec => []AtEofExact`,
  both with files that may hold NUL characters;
- `StreamImplemented`: `Spec => ImplementsStream`, the refinement of `InputStream`, if
  no file holds a NUL character (`Files \subseteq Seq(Chars)`). That premise is needed:
  `AshInputNul` is the counterexample with one;
- all from `Inductive`: `Spec => []IInv`. The three are all the safety properties of the
  run `AshInput`.

None of the three is inductive: they speak of the texts that are left, and what
`pgetc` does next depends on counters. `IInv` ties the two together. `LevelGood` says,
for the current input with the counters in the globals and for each input saved on
the stack with those in its record, that what `parsenleft` counts lies in the text
`parsenextc` points into, that this is so of each place `strpush` saved, and that
below the pushed strings the file's own place is in its buffer, with `parselleft`
counting what follows the line there, or that the file has ended (`BaseGood`). The
counters carry marks besides: -1 and -2 are the end of a string that was read once or
twice, -99 is the end of the file and -98 that end put back; `LevelGood` and `ModeGood` say where
each may be met, and so why a character that is put back never starts the count
again in the wrong text. `UsesGood` is `InUseExact` in terms of places on the stacks of
all inputs at once: no alias is on two of them.

What is left to be read (`Left`) is defined with the same places, so that there is
one lemma for each function of `input.c` that says both that the counters fit
afterwards and what the text is then: a character taken is the head of the text
(`TakeIs`), popping a string leaves the text as it is (`PopIs`, `LowerIs`,
`StringsPopped`), filling the buffer and cutting off a line too (`PreadIs`, `NextLineIs`,
`TurnIs`, `RefillIs`), `pgetc` gets the head or an end (`MacroIs`, `GetIs`), what is put
back or pushed is in front (`PutIs`, `PushIs`), and the search for an end mark leaves
the text behind the mark or, if it fails, the text as it was (`MarkEnds`, `MarkBack`).
Above them there is a lemma for each action; `Effect` and `Passes` list what an
action may do to the text, and `PassesImplemented` shows each to be an action of
`InputStream` or a stutter. `HeldPopped`, `HeldPushed` and `FewerUses` carry the aliases
along; `PopMakes` and `ResetMakes` cover the input that ends or is left by an error.

`EndsSeen` needs no premise on the files: `NulLeft` shows that where `at_eof` holds
nothing but NULs can be left, which the reader drops, and that conversely in a string
for `eval`, which has none, nothing left makes `at_eof` hold.

`Readable`, the texts below the pushed strings, `Refill` and `Matched` are recursive
functions, unfolded by least counterexample as elsewhere (`Iterates`, `UpTo`).

### SplitVtProofs

For terminals and windows of every size, every set of items (of the 30 kinds in
`Ops`, with any parameters), every position of the bar that may be asked for and
every bound:

- `HandledSound`: a handler leaves a sound window sound. `Sound` is what the
  handlers need of each other: the memory has the window's size, the cursor is in
  one of its lines but may be past the last column, the region has at least two
  lines, a saved position has a column, and nothing was written outside. There
  is a lemma for each handler and for each operation of `videomem.c`, and under
  them one for each field a handler changes. The item has to be `Harmless`, which
  is three of the members of `Assumed`, for one window and one item;
- `MemoryIsKept`: `Watched => (Spec => []InMemory)`, checked by `SplitVt`. `Watched`
  says that four of the sixteen members of `Assumed` are in force ("margin", "one
  line", "saved", "shrink"); the other twelve make the screen wrong, never the memory.
  The inductive invariant is `FInv /\ Layout`: both windows are sound, the height
  is at least 7 until the end (so that each window gets three lines, whatever
  number was typed), and the number typed is not negative. Each of the four is
  needed: without any one of them a configuration under "Further configurations"
  finds the write that is outside, or the region from which one would be;
- `KeyboardIsFollowed`: `Spec => []KeyboardFollowed`, the part of `CursorFollowed`
  that says which window has the keyboard between two reads;
- `WholeWritesAreRouted`: `"winch" \in Assumed => (Spec => []RightWindow)`: what a
  program writes goes to its window if SIGWINCH does not come within a write. The
  run `SplitVtWinch` shows that it does not hold without the premise;
- `HandledAfter`: a handler does to the terminal what it does to the window. The
  premise `Mirrored` says that the terminal shows a sound window in its lines and has
  its cursor (one column behind when the window's is past the margin), region and
  modes; the conclusion `After` says the same of what the handler leaves, and that no
  line outside the window's has changed. The item has to be `Tidy`, which is the twelve
  conditions of `Careful` for one window and one item. That of ESC 8 is that what was
  saved is plain, for only then is a plain terminal what the window has. Under it there is a lemma for
  each of the handlers, and lemmas about the sequences of `Vt100`. `ClearedDown`,
  `ClearedUp` and `painted` are recursive functions: `Iterates` shows that such a
  function is what its equations say, and `UpTo`, by the least counterexample, that
  what holds at the start and is kept by a step holds of every element. `PaintVideoIs`
  is the result for a repaint: the window's lines show its memory, no other line has
  changed, and the attributes left on are those of the last cell;
- `CursorIsKept` and `ScreenIsKept`: `(\E a \in Attributes : Orderly(a)) => (Spec =>
  []CursorFollowed)` and the same for `ScreenIsMemory`, both checked by `SplitVt`.
  `Orderly(a)` says that all members of `Assumed` but "winch" are in force, that the items switch on
  no attribute but `a`, and that the prompt is shorter than a line: with bold and
  reverse together `check_attr` drops one, and a prompt that fills its line leaves a
  character in the bar; either way `ScreenIsMemory` fails ("Further configurations"). The inductive
  invariant is `FInv /\ Layout /\ Drawing(a)`. `Drawing` has three parts: until the end
  the windows fill the terminal but for one line at most, and their lines show their
  memory (`Scene`, `Panes`); in the main loop the bar stands between them and the
  terminal follows the current window, which is what the two properties say; and at
  the prompt the cursor is in the bar's line, whose last cell is blank, and the saved
  cursor, the region and the modes are those of the current window, which has no
  attribute (`Asked`); this is needed because the prompt is taken away by a bar written where the cursor is and by
  `RestCursor`. The prompt and the repaints touch no line of a window they do not own
  (`PanesStay`, `OthersStay`); a window made anew keeps its modes and its last cell, so
  that a repaint that was plain before it is plain after it (`ResizedScene`).

`winsize` is a variable of its own beside the terminal's `rows`, as it is in the
code (the height the kernel tells, against what the terminal does): the memory
does not depend on anything the terminal answers, and the proof of `MemoryIsKept` uses
nothing of `Vt100` but the set of cells.

## What is only model-checked

- Everything in `Sed`: `LinksRight`, `LinesAndTexts`, `AddressesAsDocumented`, `NoneLeft`.
  It runs a compiler and a matcher that are recursive operators, about which nothing
  can be proved; what they compute for every script and every expression would be
  an induction over these, too.
- `TrapsRun`, `InterruptsTaken`, `WaitEnds`, `ReadingEnds`, `SedEnds`: liveness is out
  of the prover's reach.

## What is not modelled

In the modules that are there:

- `AshTrap`: an interrupt inside the few assignments of a catching step;
  SIGCHLD; the text of actions; more than one level of children; a `break` or
  `return` that leaves an action, of which only `$?` is there (`AshEval` has the
  skipping). `trap -` goes signal by signal; `free_traps`, by which a command in a subshell
  drops its parent's actions, is one step: interrupts are held off there, and `onsig`
  does not look at the table before `traps_invalid` is cleared.
- `AshEval`: `-e`, `-n`, EV_EXIT (it saves a fork), exit statuses, expansion,
  vfork, and `command` with options. `RegularError`, `SpecialError`, `BuiltinBegin`
  and `BuiltinEnd` are the net effect of a few assignments, none of which a signal
  handler reads.
- `AshJobs`: what is printed; who owns the terminal, and its repair; the SIGINT
  the shell sends to itself when a foreground job died of one; `wait -n` with
  operands; `disown`, jobid parsing. `jobtab` does not grow.
- `AshRedir`: output to memory, vfork, `clearredir`, `fdflags`, noclobber (a
  failure like others), the writer of a long here document. `find_big_fd` tries
  powers of two and settles for four fifths; the model tries given bases.
- `AshMemalloc`: contents. Between two strings `sstrnleft` is whatever the last
  one left; the model sets it to 0 there, since STARTSTACKSTR sets it before it
  is read. `mail.c`, which reads it without, is the exception.
- `AshHash`, `AshCommands`: vfork, `%func` in PATH, `hash_special_builtins`; a search
  with `DO_NOFUNC` that overwrites the entry of a function; `type` and
  `command -v`, which print. `AshVar`: the functions of the special variables
  other than PATH (they set up mail, the history and the locale), the
  environment of a child (a copy of what is exported), `setvareq` of a program's
  initial environment. Whether `export`, `readonly` and `unset`, which are special
  builtins, are run by `command` is left open: their errors may be caught or raised.
- `AshInput`: errors of `read`, the tabs that `<<-` strips, comments, the character `${#x}` puts back, line numbers, prompts,
  the history, and a script given by name (`SHELLPROC`). Two aliases that end in
  the same place make `pgetc` return its fake character twice, which is one
  stuttering step more.
- `Sed`: the text of a script (commands, addresses and expressions are taken as
  parsed), `w` and its files, `l` and `=` (output only), substitutions of empty
  matches with `g`, loops of the form `\(a*\)\1*`; what the last turn of a starred
  group, the one that failed, leaves in the groups inside it.
- `SplitVt`: how `process_char` recognises a sequence character by character, and
  its table of ten parameters; 132 columns (`?3`), SO and SI, double height; what
  is answered to the programs; the bar that `k` shows in reverse; the ptys, utmp
  and the configuration file; LINES and COLUMNS, which override the height that the
  kernel tells (`vt100.c:887`): the model has the kernel's alone. SIGWINCH comes between two items, not within one:
  a sequence that is cut in two by it is handled by either half's window.

Components without a module:

- `minilib.tmp.h` in `ash/` and `splitvt/`: the generated text of the C library, 37000
  of the repository's 78000 lines of C. Nothing in it is a state of these programs.
  `nodes.c`, `syntax.c`, `init.c`'s dispatch and `builtins.def` are generated or tables.
- The grammar of ash (`parser.c`), expansion, arithmetic, pattern matching, `test`,
  `printf`, `show.c`: functions of text, with no state from one call to the next but
  what `AshInput` and `AshMemalloc` have.
- ash's output: buffers flushed at fixed points, and formatting.
- daft-dhcp-client: it sends each of its two requests once, and has one loop for
  each answer. The timeout is only looked at after `recvfrom` returned a frame,
  so that a silent network keeps it waiting for ever; a model of the two loops
  would say no more than this sentence.
- micro-http: one child for each connection, which share nothing; what is left is
  the parsing of one request.
- sash: one command after the other in the foreground; each maps its arguments to
  system calls.
- snake, smu, totp, die: sequential functions of their input which a unit test
  covers.

Together with the vendored text, the ports' own code that is a function of text is
most of what the map leaves out.

## Plan

1. *Signals and traps* (`AshTrap`) with its proofs: done.
2. *Evaluation, jobs, redirection, the allocator*: done as models; every invariant
   and action property of their runs is proved.
3. *Input, aliases, variables, commands*, with the abstract specifications
   `InputStream` and `ShellScopes`: done as models; every invariant is proved, and both
   refinements.
4. *sed and splitvt*: done as models; for splitvt every property of its passing run is
   proved.
5. *Models that could be added*: `poplocalvars` for the special variables, a stack of
   byte strings which `AshMemalloc` implements, the ring of `snake` against a
   sequence, `totp` on words of 32 bits.

Runs of the plan keep to a few minutes each; the bounds are those at which the
case the property is about happens, and one more.
