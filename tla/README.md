# TLA+ models of PUPER

PUPER checks LTL-X formulas of concurrent C programs (POSIX threads).  It
translates a program into a PDNet, a coloured Petri net, translates the negated
formula into a Büchi automaton, and looks for an accepting run of both, either
in the product of the automaton with the reachability graph (`product.cpp`) or
in an unfolding of the net synchronised with the automaton
(`synchronization.cpp`, `unfolding.cpp`).  Before that the net may be cut down
to what the formula depends on (`slice.cpp`), or the net of an older version of
the program be patched (`changeConstruct.cpp`).

This directory holds TLA+ modules translated from the source, configurations
that check them with TLC, and theorems about them checked with TLAPS.

## 1. The system

    C text --pre_process--> C text + row map --lex/yacc, AST--> syntax tree
      --cpn.cpp--> PDNet (--slice--> smaller PDNet)
    two versions --AST_compare, changeConstruct--> patched PDNet --slice--> impact
    formula --xmlTransform, Syntax_Tree--> tree --VWAA, buchi--> automaton
    PDNet + automaton --product.cpp over cpn_rg.cpp--> verdict
    PDNet + automaton --synchronization.cpp--> synchronised net
                      --unfolding.cpp--> verdict

The stages run one after the other in one thread (`cmdlinet::model_checking`,
`pdnet_parseoption.cpp`); what is concurrent is the program checked, so the
interleavings live in the firing of the net.  Nothing is persisted; the only
asynchronous event is the clock (`MaxTime`), which both searches read.

| component | state it keeps | operations | made correct by |
|---|---|---|---|
| preprocessing (`pre_process.cpp`) | text, four row maps | the passes of `preProcessGetRowMap` | the text means the same, rows lead to the same statements |
| parser, tree (`lex.y.cpp`, `y.tab.cpp`, `AST.cpp`) | syntax tree | build, cut | - (generated) |
| net construction (`cpn.cpp`) | places, transitions, arcs; per statement its `enter_T`, `exit_T`, `falseexit_T`, `call_P` | `Traverse_ST1/2`, `visit_*`, `handle_*`, `inside_block`, `delete_compound`, `Add_Arc`, `setmaintoken` | the net does what the threads do, no more and no less |
| data arcs (`cpn.cpp`, `expression_tree.cpp`) | arc expressions as text, then as trees | `readOperation`, `writeOperation`, `process_*`, `*_construct` | the tokens of a variable's place are C's memory |
| multisets (`MultiSet.cpp`) | map of tokens, `color_count` | `PLUS`, `MINUS`, comparison, hash | counts right, equality means equality |
| firing (`cpn_rg.cpp`) | marking | `get_bindings`, `is_Fireable`, `Marking_after_fire` | tokens move exactly along arcs |
| reachability graph (`cpn_rg.cpp`) | `rgnodevec`, hash table | `init`, `addRGNode`, `nodeExist`, `createNode` | one node per marking, every step an edge |
| formula trees (`BA/Syntax_Tree.cpp`, `VWAA.cpp`) | tree; per node its marks, DNF and transitions | `Push_Negation`, `SimplifyLTL`, `Universe`, `Get_DNF`, `Build_VWAA`, `VWAA_Simplify` | from the negation on, the same words |
| Büchi automata (`BA/buchi.cpp`) | `vertics`, `vex_num`, `state_num`, arc lists | `Build_GBA`, `Build_BA`, `Build_SBA`, `Simplify`, `self_check`; heuristics | the same words again; counts and numbers right after any merge |
| product search (`product.cpp`) | open nodes (`cstack`, `astack`), closed nodes (`h`), call stack | `GetInitNode`, `GetProduct`, `Tarjan` | verdict = no accepting cycle is reachable |
| stack of open nodes (`CPstack`) | array, hash links, `toppoint` | `push`, `pop`, `search`, `clear` | it is a stack; search finds the topmost |
| synchronisation (`synchronization.cpp`) | Q places, automaton transitions, copies, B and S | `ba2cpn`, `synch`, `add_copy_obs` | runs = runs of the synchronous product |
| unfolding (`unfolding.cpp`) | events, conditions, configurations, the recursion | `Explore`, `Extend`, `add_Event`, `cal_call`, cut-off and conflict tests | verdict = no accepting run |
| conflicts (`cpn.cpp` 7013-7473) | thread and conflict tables | `cal_t2thread`, `cal_conflictT` | every race is in the table |
| slicing (`slice.cpp`, `traditionalSlice.cpp`, `criteria.cpp`) | the lists of places and transitions kept | `two_phrase_slicing`, `preWardSlicing`, `post_process` | the slice follows the net; definitions and uses are kept |
| change impact (`AST_compare.cpp`, `changeConstruct.cpp`) | pairs of equal trees, lists of changes, the patched tree and net | `top_down`, `extract_change`, `change_add/del/modify/move` | the patched tree and net are those of the new version |
| pictures, driver, XML reader | | | - |

How they interact: `Tarjan` calls the firing rule for the successors of a
marking and adds nodes to the reachability graph while it recurses; it pushes
and pops `CPstack` and `CStack` and adds to `CHashtable`.  `synch` reads the
arcs of the net construction (`producer`/`consumer` lists) and adds places and
transitions to a copy of it; `Extend` of the unfolding fires that net, in orders
chosen from the conflict tables.  The slices read the same lists and copy part
of the net; the patch calls `Traverse_ST1/2` for new statements and rewires the
old net around them.  The automaton reaches both searches as an array in which
states merged away by `Simplify` stay as holes (`id == -1`).

What is hard here: a recursion with three stacks that have to stay in step,
broken off by a deadline at any depth; indices threaded through nodes; places
and transitions found again by the names they were given; the order of the
statements of a block kept by extra places while all their control tokens are
handed out at once; arcs rewired by searching a list in which deleted arcs
remain; states merged and arcs dropped by loops that run over what they change;
positions in two lists that shift while the changes they stand for are applied;
one arc put together from the texts of several calls; rows counted in one place
and text changed in another; and the interleavings of the threads in the net.
The list, with lines, is under `hazards` in `PROJECT.json`.

## 2. The modules

### Product search

`Product.tla` models `CPN_Product_Automata` one step of the C++ at a time.

| module | code |
|---|---|
| `sys` | the net (initial marking, ordered successors of each marking), the automaton, `label` = what `isLabel` accepts; chosen by `Init`, then constant |
| `rgnodevec` | `RG::rgnodevec` |
| `obj` | the `CPN_Product` objects `new`ed; an address is an index |
| `cstack`, `astack`, `h` | the stacks of open and of open accepting nodes, the closed nodes |
| `frames` | the activations of `Tarjan`: node, place in the code, edge reached |
| `GetInitNode`, `StartSearch`, `SearchFrom`, `Finish` | `GetInitNode`, the loop of `GetProduct` |
| `EnterTooLate`, `EnterDecided`, `Enter` | the head of `Tarjan`: deadline, result known, push |
| `LeaveDecided`, `SkipEdge`, `CloseCycle`, `CrossEdge`, `TreeEdge`, `AfterCall` | one turn of its loops, by what it finds |
| `LeaveOpen`, `CloseOne` | after the loops: return, or close the component node by node |

The deadline may pass at any entry (`EnterTooLate` is not tied to a clock).
`lowlink` of an activation that returned early is 0, as the constructor left
it.  Deallocation and the printed counterexample are left out.

`CPstack.tla` models the stack itself: the array, `hashlink` (bucket to
topmost position), the link stored in each node (`stacknext`), `push` with its
refusal when full, `pop`, `clear`, and `search` one link at a time.
`SearchStack.tla` is what it promises: a bounded stack whose search finds the
topmost node with the key.  `CPstack` implements it (`ImplementsStack`).

### Synchronisation

`Synch.tla` models the two loops of `ba2cpn`, the loop of `synch`, the
scheduler places B and S, and then the runs of the net built, with the firing
tests of `unfolding.cpp` (`is_firable`, `handleLTLF`, `handleLTLV`).  The net
is abstract: places with at most one coloured token.  `SyncProduct.tla` is what
it promises: net and automaton as one system, the automaton moving first and
then after each visible step, reading the marking.  `Synch` implements it
(`ImplementsProduct`).  Token-count propositions (LTLC) are dropped from guards
as in the code; the abstract product leaves them out in the same way.

### Net construction and firing

`CProgram.tla` is the syntax: numbered statements of the kinds the translation
knows, their children, the functions called in them, the operands of pthread
calls.  `PDNetBuild.tla` translates a program: `visit_statement` (place and
transitions, with the arcs of calls and pthread calls), `inside_block` and its
plain form (the order in a block), `handle_iter_sel`, `handle_label`,
`organize_call`, `handle_func`, `iter_extra` (the way back to the head of a
loop), then `delete_compound` on the list of all arcs, deleted arcs included.
`CallList` has the doubled entries `set_call_P` makes.  It has no variables, so
that the slice and the patch use the same translation.

`PDNet.tla` is the net in use: `Init` chooses a program and one of its two
translations (`NoDependence`, the option of that name), the steps are the
firing rule for control places, where a binding is a thread.  Places of
variables, guards, parameters and return values are left out here: a branch may
go either way.  `PDNetThreads.tla` adds the yardstick, which is no model of the
code: what C and POSIX threads let the threads of a program do (a call stack per
thread, owners of mutexes, waiting threads; a wait may wake without a signal, as
POSIX allows).  It runs both in lock step and compares in every state what can
fire with what the threads can do.

### Data

`MultiSets.tla` holds the operations of class `MultiSet`, with `color_count`
kept by hand as there.  `ArcExpressions.tla` holds the expression trees:
`color_construct`, `manytoken_construct` and their evaluation; a text is a
sequence of words.  `DataArcs.tla` makes the texts: `readOperation`,
`writeOperation` with its cases over a variable index or an address, the
conditions of branches, the copies of locals that `pthread_create` initialises.
`Firing.tla` puts them together: a transition with trees on its arcs, its
bindings by thread, its guard, the marking after it, and the hash of a marking.
`DataNet.tla` fires the transitions of any statements in any order of two
threads and executes the same statements on C's memory, module `CMemory.tla` (a
yardstick: cells of variables, elements, members, by thread).  `TokenGraph.tla`
is class `RG`: the depth-first `createNode` with its limit on nodes, the queue `get_FireTranQ` makes of the
transitions of priority and the others, the hash table, `nodeExist`, fathers and
dashed edges.  It uses of the net only the bindings of a transition, the marking
a firing leaves and the hash, and has these as parameters; `MCTokenGraph` gives
it those of `Firing`.

### Formulas and automata

`SyntaxTree.tla` holds the pure functions on formula trees: negation, the rules
of `Rewrite` with the marks of `Perfect_Node`, `Universe`, the disjunctive
normal form, the transitions of the very weak alternating automaton and their
simplification.  A pass of `Rewrite` sees the marks computed before it; the
functions compute them from the subtree, which is what it was then, because a
pass only goes down.  `Translation.tla` is the sequence in which `ba2cpn` and
`cmdlinet::model_checking` apply them, with the loop of `SimplifyLTL`.

`Buchi.tla` models the classes `General`, `Buchi` and `StateBuchi`, which have
the same members and run one after the other: `kind` is the class at work,
`given` the automaton before it, `vertics`, `state_num`, `simplest` the members,
`pc`, `i`, `j` the loop and its indices.  One step is one turn of one loop:

| actions | code |
|---|---|
| `ExpandTrue`, `Expand`, `MultiplyNext`, `AddTransition`, `Explored`, `CreateSuccessorState` | `General::Build_GBA` |
| `BuildArc`, `BuildNext` | `Buchi::Build_BA` |
| `Mark`, `Unlink` and the actions between | `Simplify_transition` of both |
| `Merge_states`, `KeepBoth`, `Again` | `Simplify_state` of both and the loop of `Simplify` |
| `Visit`, `ArcIn`, `ArcOut`, `Link` | `StateBuchi::Build_SBA`, with `Backward_chaining` |
| `Merge_state`, `KeepVertices` | `StateBuchi::Simplify` |

Sets of nodes are ordered by address in the code; `addr` is that order.
`LTL.tla` is the yardstick: what formulas mean and what automata accept on
words that end in a loop; `MCBuchi` compares the automaton under construction
with it.

### Unfolding

`Conflicts.tla` computes the tables of `cpn.cpp` 7013-7473 from the arcs of a
net: the threads and call stacks of transitions, critical sections (locks and
unlocks paired by their rows), readers and writers of a place, and the
conflicting groups.  `Unfolding.tla` is the search: `prefix` holds conditions
and events in the order of their creation, `configs` the configurations of the
nodes on the recursion, `frames` its activations.

| actions | code |
|---|---|
| `TimeUp`, `Cutoff`, `Endpoint`, `Stop` | the head of `Explore`, with the clock (`Late`) |
| `Extend` | `Extend`, `add_Event`, the cut-off test, `is_counterexample` |
| `ChooseKnown`, `ChooseNew`, `NoLeftChild` | the event of the left child |
| `RightChild`, `NoRightChild`, `RightDone` | `Alt`, the search of a conflict's path, the right child |
| `Report` | the answer |

What `cal_call` reads before it is set is any of `Uninitialised`.
`MCUnfolding.tla` makes the synchronised nets of small programs of two threads.
What is assumed of a net (`NetsAssumption`): its transitions and firings are
listed; a firing takes tokens from places before its transition, what it takes
decides what it puts, and a variable that is only read keeps its value.
`UnfoldingVerdict.tla` is the promise: the verdict of the whole state graph, and
for the table every pair of transitions that race.

### Slicing and change impact

`Slice.tla` takes the net of `PDNetBuild` with the arcs of variables (which
transition reads and writes which; of a value it is known which transition wrote
it).  `LookAt`, `Correspond`, `SecondPhase` and `CompleteSlice` are the loops of
`two_phrase_slicing`, `traditionalAPNSlice` the slice by arcs, `LookForward` and
`ForwardAgain` the loops of `preWardSlicing`.  When a slice is complete net and
slice run side by side (`RunStep`): the slice makes each step of the net that it
keeps.

`ChangeImpact.tla` compares two versions: `create_tree` and `TraverseTree2` give
statements their names, `Compare` is `top_down`, `get_MatchStatement` and
`extract_change`; then one action per change (`change_add`, `change_del`,
`change_modify`, `change_move`) patches the statement list, the positions of the
changes still to come and the arcs of the net; `changeConstruct` is the end of
it and `StartForward` hands the changed places to the forward slice.  `edit`
holds both trees (as what comes after each statement), the changes and the arcs.
`stopped` says that the program has exited, or followed a pointer that is null.

### Preprocessing

`CText.tla` is C text as tokens and, as a yardstick, the flow graph of a function
written in it.  `Preprocess.tla` has one action per replacement of each pass that
`preProcessGetRowMap` calls, with the map of rows that each keeps, what
`xmlTransform.cpp` makes of a row or a name in a formula, and then runs the
functions of the source and of the rewritten text side by side.

### Instances

`MCProduct`, `MCCPstack`, `MCSynch`, `MCPDNet`, `MCTranslation`, `MCBuchi`,
`MCUnfolding`, `MCDataNet`, `MCTokenGraph`, `MCSlice` and `MCPreprocess` define
the instances for TLC.  In `MCPDNet` and `MCSlice` every small program is a
function of one list of statements, with its C text in a comment; a
configuration names the ones to run in `Mains`.

Definitions marked `Slip` are variants with a plausible mistake.  They are not
part of any specification: each shows that a property notices the mistake when
the definition after it is replaced by it.

## 3. The runs

| run | what it asks | instance, and why it is enough |
|---|---|---|
| `product` | is the verdict right, do the stacks stay in step, does the search end, with time running out at any entry of `Tarjan` | all nets of two markings x all automata of two states with ordered arcs and any accepting set, and nets of three markings x two automata with nested components; about 400 000 states.  That gives self loops, nested and consecutive components, accepting nodes inside and above a component, deadlocks, several initial states.  `CHASHSIZE` = 6 is the number of product nodes, so no push fails here (a failing push is `cpstack`'s question) |
| `cpstack` | does the index survive pushes, failed pushes, pops, clears and broken-off searches | four objects, three pairs, two buckets (two pairs share one), three slots: equal pairs, equal buckets and a full stack all occur |
| `synch` | is the net built the synchronous product | three places, five transitions, every two-state automaton with at most one arc between two states over four guards, and automata with a merged state; 11 532 states |
| `pdnet` | does the net do exactly what the threads do | eleven programs (`Mains`): nested branches and loops, breaks, calls in blocks and branches, labels, an early return, a for loop, a mutex initialised at run time or statically, two threads in one function with nested locks, wait and signal.  Nine run in both translations (`DefaultMains`), `continues` and `condcalls` only in the plain one |
| `translation` | does every stage from the negation to the alternating automaton keep the words | every formula of an operator over ten operands with one or none, untils that share an operand, and their negations: each rule of `Rewrite` fires, some one after another; all words of up to three letters with a loop (`MaxLasso` = 3), over two propositions.  Left out: formulas with an until that `pure_even` marks wrongly (`Mismarked`), section 6 |
| `buchi` | does each pass keep the language, are counts and numbers right at every step, do the loops end | the automata of such formulas and of nested ones (two fairness conditions, persistence, delays), with both orders of the nodes in memory; words of up to two letters with a loop.  Chains of merges, arcs that replace others, and states with the same arcs that differ in acceptance all occur |
| `unfolding` | is the verdict that of the whole state graph, although only the orders of the conflict table are tried; are answers and configurations kept right; does the search end, with the time limit anywhere | the nets of 101 programs of two threads over a lock, two shared variables and a function, among them one where an assignment that reads a variable is chosen twice from one configuration; 43 284 states.  `MaxEvents` = 80 is above the largest prefix that occurs and is there to keep a mistaken search finite; a mistake that never ends shows in `Reports` |
| `unfolding_waiting` | expects a violation, section 6 | the same nets with those in which `main` waits in a loop |
| `data` | are the tokens of variables C's memory | 19 statements of two threads, in any order: assignments (chained, through indices, pointers, members, arrows), increments, address-of, branches, `pthread_create`; `MaxValue` = 1 cuts off greater values; 1 008 states |
| `token_graph` | is the reachability graph complete and without doubles | two threads that run `x = g; g = 1 - x; if (g != x) a[0]++ else abort`; `TableSize` = 5 makes nodes collide, `Limits` = {12, 1000} runs into the limit and not |
| `slice` | do the slices follow the net; are tree and net patched into those of the new version | eight programs sliced backwards by both algorithms and forwards from every statement; 122 edited versions of `edited` and `inner`; 7 167 states |
| `preprocess` | does the rewritten text run alike, and do rows lead to the same statements | functions of up to three fragments (loops, branches, declarations) in every order, also atomic and behind an include; 11 764 states |

Where no bound is named the state space is complete.  Deadlock is not checked
for `synch`, `pdnet`, `unfolding`, `data`, `token_graph`, `slice` and
`preprocess`: programs end, threads wait for each other, and a search that has
its answer has nothing left to do.

What the properties say, and against which yardstick:

- `Product`: `VerdictCorrect` (the definition of an accepting lasso),
  `ClosedIsHarmless` (a node skipped as closed hides no accepting cycle),
  `LowlinkReaches`, `CallersAreOpen` (also after a timeout), `Terminates`.
- `CPstack`: `IndexOK`, `ImplementsStack`, `SearchEnds`.
- `Synch`: `OneState`, `FreeMovesUnnoticed` (what the scheduler leaves free, no
  guard can see), `ImplementsProduct`.
- `PDNetThreads`: `OnlyCSteps` (whatever can fire is the next step of its thread:
  order, locks, joins), `EveryCStep` (whatever a thread can do can fire),
  `MutexTokens` (the token on the place of a mutex is its lock),
  `OneTokenPerThread` (plain mode).
- `Translation`: `MeaningKept`, `AutomatonAgrees`, `Translated`; `Buchi`:
  `LanguageKept`, which ties together the acceptance sets `CreateTransition`
  hands out, the order on arcs that ignores where they lead, the merging that
  ignores acceptance sets, the counting and the shift of letters to states;
  `SelfCheck`, the classes' own `self_check` at every step; `Finishes`.
- `Unfolding`: `CounterexampleReal`, `NothingMissedWithoutLoops` (verdict of the
  state graph), `ConflictsCoverRaces` (two accesses of threads that can both
  fire next, one of them a write, are in the table), `ConfigurationsAreRuns`
  (the conditions a configuration holds are the marking behind a firing that the
  one above allows, with the values of variables there, although readers do not
  consume and events are found again),
  `StacksKnown` (no answer of `cal_call` rests on a value never set),
  `AnswerKept`, `Reports`.
- `DataNet`: `MemoryAsInC`, `BranchesAsInC`; `TokenGraph`: `NodesDistinct`,
  `GraphComplete`; `MCTokenGraph`: `AddressesApart`.
- `Slice`: `SliceFollows`, `DefinitionsKept`, `ImpactFollows` (what the net
  computes differently after a change is in the forward slice); `ChangeImpact`:
  `TreePatched`, `NetPatched`.
- `Preprocess`: `RowsFollow`, `RunsAlike`.

Fairness.  `Product`, `Translation` and `Buchi` assume weak fairness of the
step, `CPstack` of one search: the code is one thread that runs until the
function returns, and no step of it waits.  `Unfolding` assumes the same in the
form "infinitely often a step, or infinitely often not running", where
`Running` also ends at `MaxEvents`.  The clock is never assumed to strike.  No
other module states liveness.

## 4. The theorems

| theorem | for every | argument |
|---|---|---|
| `ProductProofs!TypeCorrect` | instance, capacity | `TypeOK` is inductive: every address on a stack, in `h` and in a frame is one of an object made |
| `ProductProofs!CallersStayOpen` | finite net and automaton, stack with room for every product node (`RoomForAll`) | `StacksInv`, below |
| `VerdictProofs!VerdictIsCorrect` | the same | `VerdictInv`, below: at the end the initial nodes are closed, and what is closed is harmless |
| `VerdictProofs!ClosedStaysHarmless` | the same | the closed nodes are closed under edges, but for the component being taken from the stack, and no accepting cycle runs through one of them |
| `VerdictProofs!LowlinksAreReached` | the same | `LowlinksReach`, part of `VerdictInv` |
| `CPstackProofs!IndexCorrect` | capacity, hash function, node set | `IndexOK`, with the links of the nodes popped left alone; `push` makes the old top of the bucket the link, `pop` gives it back |
| `CPstackProofs!CPstackImplements` | the same | initial states and steps map to `SearchStack`; uses `IndexOK` for what `search` finds |
| `SynchProofs!SynchTypeCorrect` | net, automaton, propositions | with `Placed`: every live state passed by the first loop has its place, so the output place always exists |
| `SynchProofs!AutomatonInOneState` | the same | only the first slot is marked; each automaton transition moves one token |
| `SynchProofs!TakeTurns` | the same | B + S = 1 from `AddScheduler` on |
| `SynchProofs!FreeMovesAreUnnoticed` | the same | `VisibleAsObserved`: once `synch` has passed a transition it is visible if it touches an observed place |
| `SynchProofs!SynchImplementsProduct` | the same, without holes before a living state (`NoHoles`) | `Mapped`: the invariant, `VisibleAsObserved`, and `ArcsKept`, which says that the transitions built are the arcs of the automaton, one for one |
| `PDNetProofs!PDNetTypeCorrect` | program, mode | markings are bags over the slots the arcs name |
| `PDNetProofs!FiringIsExact` | program, mode | the difference of bags removes a copy of each token needed because `is_Fireable` found it there |
| `PDNetProofs!MutexTokenIsTheLock` | program, mode | `LockInv`, below: the arcs of the places of mutexes are those of init, lock, unlock and wait, through the removal of nested blocks too |
| `BuchiProofs!SelfCheckHolds` | set of alternating automata | `Merge_states` finds every arc to the state it removes, `AddArc` counts what it takes and adds; no state but the one at work has arcs not yet led anywhere |
| `BuchiProofs!SomeArcAlwaysStays` | the same | a state in a formula tree's automaton has a transition, so every product has one; an arc is only marked for one that is not |
| `BuchiProofs!TypeCorrect` | the same | `TypeOK`, from the same invariant |
| `UnfoldingProofs!AnswersAreKept` | net | while nodes are entered the result is empty; a counterexample empties the recursion in the step that finds it |
| `UnfoldingProofs!ConfigurationsRun` | sequence of nets under `NetsAssumption`, size of the prefix | `RunInv`, below: an event is of one firing, and one that `had_extend` finds again is of the firing of the extension |
| `TokenGraphProofs!PlusIsExact`, `MinusIsExact` | tokens, counts | the cases of a token new, left over or used up |
| `TokenGraphProofs!SameIsEqual` | two multisets with right counts | equal `color_count` means equally many tokens, so the tokens of one side, all found in the other, are all of them |
| `TokenGraphProofs!MinusThenPlus` | multisets, the second inside the first | count by count |
| `TokenGraphProofs!NodesAreDistinct` | net, order of transitions, hash, table size, limit | `GraphInv`, below: the table has every node under its hash, and `operator==` is equality, so a marking that is there is found |
| `TokenGraphProofs!GraphIsComplete` | the same | `GraphInv`: a binding that no open call has still before it has its edge |

`ProductProofs!StacksInv` is the inductive invariant behind `CallersStayOpen`.
`CallersAreOpen` is not inductive alone: that a caller stays open under its
callee needs that a component closed has its root at the callee (`RootAtBottom`,
`LowlinkBelow`), that ids are positions on the stack (`IdIsPosition`), that no
node is open twice (`OpenOnce`, `RGNodesDiffer`) and that a node entered is not
open (`EnteringIsNew`); `Suspended` is the property itself with the edge that
is waited for.  No node being open twice, the stack never has more nodes than
there are pairs, so under `RoomForAll` no push fails.  Run `product` satisfies
the hypothesis (three markings, two states, room for six).

`VerdictProofs!VerdictInv` is the inductive invariant of the three theorems on
the verdict.  It describes the stack as a path in the product graph (`path`,
`lowlinks`, `found`, `active` and `closed` are the state of the search in terms
of product nodes) and has two halves.

`TimelyInv` is what holds whatever has been found: both stacks agree, every
activation waits for the node its edge leads to, every object is of a reachable
node, `GetInitNode` lists all initial nodes, and a search that answers no has an
accepting lasso to show (`RefutedRightly`).

`LiveInv` is what holds as long as no cycle has been found, and is why an answer
yes is right:

- `Upward` and `ToActive`: each node on the stack reaches those above it and an
  active one at or below it.  So a backward edge closes a cycle, and the stack
  is one chain of unfinished components.
- `Cut`: no accepting node lies between the ends of a backward edge found.  The
  code compares the node reached with the topmost accepting node only; `Cut`
  with `AstackMatches` says that this is enough.
- `LowlinksTold`: an active node between the ends of a backward edge is told by a
  lowlink, its own or one above it, or the one a call is about to hand back.
  This is what makes the test `lowlink == id` right although an open node hands
  on its lowlink, not its id.
- `FoundKnown`, `CalledKnown`: what an edge has led to is open or closed.  `Fresh`:
  a node is open and closed at once only if it is an initial node an earlier one
  has reached, which `GetProduct` searches again.
- `ClosedFollowed`, `NoneAccepting`, `ComponentDone`: from the moment `lowlink == id`
  is seen until the last node is popped, the nodes closed and those still to be
  popped (`Component`) have no edges out of them and no accepting cycle.

`ClosedIsHarmless` is not inductive: that closing a component is harmless needs
all the others.  Reachability is a recursive function of the number of steps
(`ReachableIn`).  Instead of the library's induction theorems, which take an
operator, the proofs use the least element of a nonempty set of numbers
(`LeastNumber`, from `WFMin`) and derive from it that `Reachable` is the least
set closed under edges (`ReachableIsLeast`, `ReachableIsClosed`); everything
after that is set reasoning.  `RoomForAll` is a real condition: the stack has
2^20 places, and a push onto a full stack is dropped without a word.

`TokenGraphProofs!GraphInv` is the inductive invariant of the theorems on the
reachability graph.  `NodesDistinct` needs `TableRight` (every node is in the
bucket of its hash, and the table names nodes only) and `EqualMarkings`
(`Marking::operator==` is equality, by `SameIsEqual`, as long as every place has
its count right).  `GraphComplete` speaks of the end; before it, `EdgesThere`
says that a binding is followed once every open call of its node is past it, and
`CallsKnown` that calls are of nodes.  `QueuesFull` says that only a node one too
many has an empty queue by decree, and `QueueComplete` that `get_FireTranQ`
misses no transition in its two loops; it is a recursive function of the number
of turns, and its induction again goes by `LeastNumber`.

The two theorems hold for the nets of `MarkingsAssumption` and
`FiringAssumption`: firing stays within a set of markings that have the same
places, each with a multiset whose counts are right.  TLC evaluates both on the
markings of the instance, all that firing the C statements leads to.  That
`Marking_after_fire` keeps counts right rests on `PlusIsExact` and on
`MinusIsExact`, which wants each token taken to be there.

`UnfoldingProofs!RunInv` is the inductive invariant of `ConfigurationsRun`, an
action property.  An event does not keep the firing it was added for: it has the
conditions it consumes and makes, and those it has read if the extension had
them then.  `EventsOK` says that one firing of its transition fits all of them
(`EventMode`); `ConfigsOK` that the extensions a configuration keeps between its
left and right children are firings its cut allows, with the variables they read
still in `x` or all taken out of it (`ExtensionOK`); `Framed` that the calls of
`Explore` have configurations, inner calls later ones, so that what a return
drops is not needed.  When `had_extend` finds an event that consumes and reads
the conditions of the extension (`KnownFires`), the two firings take the same
tokens, and by `NetsAssumption` put the same.  Conditions never change
(`Grows`), so all of it stays true as the prefix grows.  The property asks that
a choice whose event is found is as `Extend` found it (`AsFound`); without that
it is false, section 6.  A choice that adds its event needs no such condition.

`MutexTokenIsTheLock` is about every program that can be translated.  Its
inductive invariant `PDNetProofs!LockInv` is `TypeOK` and `MutexTokens`
together; the work is in the net.  `LockArcs` names the arcs that init, lock,
unlock and wait should have.  That neither translation loses one of them or
draws another to or from the place of a mutex is shown construct by construct
(`MutexArcsAre`, `CondArcsAre`, `BlockArcs`, `OrganizeArcs`, ...) up to the list
of all arcs (`BuiltArcsAre`), and then for `delete_compound`, which looks for the
arcs to redirect in a list it has already changed: `Grown` says that the arcs of
the list first built stay at their places with their ends, perhaps deleted, that
arcs are only added behind them, and that no arc of a mutex is deleted
(`Removal`, `PlainRemoval`).  `LockBindings` draws the conclusion for a firing,
`FiringIsExact` counts its tokens, `HoldersStep` says what the thread's step does
to the owner.  `ExitT` and the folds over calls, functions and blocks are
recursive functions; their inductions go over subsets of a finite set
(`FoldInduction`), from `MinIsLeast`, instead of the library's theorems.

The theorem rests on `CompoundAssumption`: an arc of the list leads to every
nested block, by default also one from an executed place.  It is false for a
block that is dead code, behind a return.  There the code gives up: the default
translation throws "error in delete_compound!" (`cpn.cpp:6505`), the plain one
throws in `findT_byid` when `set_producer_consumer` meets the arc it drew from
no transition (`cpn.h:499`).  `ProgramAssumption` says what the grammar says of
children: one of a loop or a label, one or two of an if.

`NoHoles` is the condition under which the code's numbering is right: input
places are named by array slot, output places by running number
(`synchronization.cpp:317`), and they differ behind a merged state.  Run `synch`
has merged states at the end, where it makes no difference, and in the middle of
three, where the place named is missing and the program exits.

`BuchiProofs!IInv` is the inductive invariant of its three theorems.  `SelfCheck`
and `SomeArcStays` alone are not inductive, for three reasons, one conjunct
each: `Members` says what one class has left to the next (a first state that was
not merged away, and from every state an arc to such a state: without it `Buchi`
might start from a state that is gone, or reach one with nothing to count);
`Growing` says that while states are added none has been merged and the states
to come have no arcs; `AllExplored` that simplification starts from states all
expanded.  `Locals` bounds what the loops hold in their variables: only nodes
with transitions are multiplied (`Live`), only arcs of living states become
vertices (`Slots`).

The assumptions used are those the modules state (`SystemsAssumption`,
`CapacityAssumption`, `KeyAssumption`, `BucketAssumption`, `SizeAssumption`,
`InstancesAssumption`, `PropositionsAssumption`, `ProgramAssumption`, `CompoundAssumption`,
`NetsAssumption`, `AutomataAssumption`, ...); each says what the code builds or receives, and TLC
evaluates it on the instances.

Only model-checked: all liveness and `ENABLED` (in `OnlyCSteps`, `EveryCStep`),
which are beyond the prover; and everything whose definition follows the
structure of data - formulas, the languages of automata, expressions, slices,
patched trees, C text, the runs of a net that `CounterexampleReal` and
`NothingMissedWithoutLoops` enumerate - which the modules define by `RECURSIVE`
operators, and which needs induction over data.  Two are left to TLC for
another reason: they are not true of everything the constants allow.
`OneTokenPerThread` fails for a function that calls itself, since each open call
keeps a token on the place of its statement.  `StacksKnown` wants that a search
of the net from where its threads begin (`map_t_call2thread`) finds the calls
that events are made in; that rests on the shape of the nets of programs, of
which `NetsAssumption` says nothing.

## 5. Plan

1. Product search and its stack: modelled, checked, safety proved.
2. Synchronisation: modelled, checked, refinement proved.
3. Net construction and firing, compared with threads and with memory: checked;
   `MutexTokens` and the reachability graph's completeness proved.
4. Unfolding and conflicts: checked; `AnswerKept` and `ConfigurationsAreRuns`
   proved.  Open: the cut-off tests and the table of conflicts, on which the
   verdict rests.
5. Formulas and automata: checked; bookkeeping proved.
6. Slicing, change impact, preprocessing: checked.
7. Open: a proof that the plain net of a program without recursion keeps one
   token per thread; `isLabel` and the handlers of propositions over data
   tokens, which `Product` takes as a relation; changes in more than one
   function.

## 6. Disagreements found

Run `unfolding_waiting` (`unfolding.cpp:2479`): whether a cut-off event closes a
counterexample depends on the configuration it is reached in, but
`is_counterexample` is asked only when the event is created.  With a thread
having set `x` while `main` spins on `y`, the loop is a counterexample for the
second configuration and not for the first, and the answer is True.  This is
why the passing run states `NothingMissed` for programs without such loops.

Met while translating, without a run of their own.  The instances of the
passing runs avoid these constructs, so the runs say nothing of programs that
use them.

Automata and synchronisation
- `synchronization.cpp:317` input and output places named by different numbers
  behind a merged state; `:149` a transition named in two guards is copied twice
  under one name and the tool exits; `:344` a token-count proposition is dropped.
- `BA/Syntax_Tree.cpp:626` an until counts as pure eventual when its left operand
  is, and `a U b` becomes `b` where they differ.
- `BA/buchi.cpp:489` room for 500 states, unchecked.

Unfolding
- `unfolding.cpp:1063` `delete_VarInX` takes the variables that an extension
  reads out of it, for good: `Extend` (`:2510`) keeps the list for the right
  child.  When that chooses the extension again, `add_Event` (`:1082`) has an
  empty `read_varB`, which "判断事件是否已经存在" (`:1084`, does the event exist)
  compares with the event that is there; the event is added a second time, as one
  that has read nothing, although `read_varB` is "读事件输入变量条件"
  (`unfolding.h:58`, the conditions of the variables a reading event takes).  A
  third choice finds that event where the variables have other values, and goes
  on to a configuration that is no run of the program.  With
  `Nets <- NetsReread`, one of the nets of run `unfolding`, TLC finds
  `AllConfigurationsAreRuns` violated; `ConfigurationsAreRuns` leaves this choice
  out.

Net construction
- `cpn.cpp:6520` a nested block that begins with a loop and goes on (as in
  Lamport's algorithm) is rewired from its last statement: the thread is stuck
  after the loop.  `:6545` in plain mode a block after a branch keeps one of its
  incoming arcs.  `:767` a loop not in a block has no way back.
- `cpn.h:389` the list of calls of a statement repeats its first entries, and the
  first call waits for its own callee.  `cpn.cpp:4258` a label leads past the
  calls of its statement.  `:2744` `pthread_exit` does not end the statement list.
- `cpn.cpp:723` control tokens of skipped statements pile up in the default mode.
- `cpn.cpp:7190` locks and unlocks are paired by rows: locking under a condition
  pairs wrongly.  `visit_function_withoutdependence` is never called.

Data
- `cpn.cpp:5988`-`6016` of the cases over a variable index only the first is read:
  `a[i] = v` with i other than 0 is lost.
- `expression_tree.cpp:77` an operator behind a closing parenthesis is taken for
  a sign: `(a)*b` is 0, `(a)-b` is -b.  `&&` and `||` have one priority,
  `c && d ? x : y` is parsed wrongly, `&` and `|` bind tighter than `*`.
- `expression_tree.cpp:211` a last part other than `default` is taken to have a
  key: without one its first character is dropped.  Of `c ? a : b`
  (`cpn.cpp:4555`) `a` is that part: a name becomes no name, `1-x` is read as
  `-x`, and of a single digit nothing is left.
- `&a[const]` gives the value; a pointer to another thread's local has no case
  arm; copies of local arrays for a thread lack the index.
- `cpn.cpp:6304` thread copies take addresses 2000 apart, in a short.
- `cpn_rg.cpp:721` the limit breaks only the loop over bindings: the node stays
  without successors.

Slicing
- The first phase takes a global's place from the producers with an index of the
  consumers.  A parameter used only through the return value, a `break` with
  nothing kept behind it, and a wait or signal whose mutex is not kept are
  dropped; an early return under a branch that is not kept is no control
  dependence; a loop whose body's last statement is sliced away loses its way
  back.  The type that `find_after_use` is given has no effect, and
  `in_a_thread` is always false.

Change impact
- Deleting or modifying the second statement of a list follows a null pointer;
  adding before the first exits; so do changes of a last statement alone.  Two
  gaps with additions, or two adjacent modifications, in one list walk into the
  old tree.  A changed loop or branch condition alone crashes.
- An edit inside a loop body followed by matched statements counts the loop as
  modified too.  Inserting or deleting directly before a loop drops or redirects
  its executed place; an added loop gets no way back; adding or removing a
  block, branch, loop or jump renumbers the places of others.
- Backward moves delete the wrong statement.  An addition at the end leaves the
  arc to the end of the function; `modifyAfterExecuteArc` takes enter
  transitions for exits.  Deleting or modifying an assignment to a local finds
  no users, and old results are reused.

Preprocessing
- `pre_process.cpp:140` a `continue` in a `for` skips the increment, in a
  do-while the condition.  A one-line `for (...) f(x);` is broken, a brace-less
  branch as the body of a `for` is split, a do-while over several rows is left,
  `while(c);` without a blank is not matched.  Identical loops shift the rows.
- An early return in an atomic function never unlocks; an empty atomic body
  breaks the pairing; `__VERIFIER_atomic_begin/end` are deleted.
- `pre_process.cpp:144` the row of a `for` leads to the row of its `while`, and
  what its header declares stands one row above: a formula that names the
  variable and the row stops the tool ("找不到指定变量", `cpn.cpp:6738`).
  `RowsFollow` asks for the condition of these rows only.
- `pre_process.cpp:958` `std::sort` keeps the order of items at one place only up
  to 16 items; with more, moved declarations may change places.  The model and
  the programs of the run stay below.
- `x -= a + b` becomes `x = x - a + b`; `int *p = &x` becomes `*p = &x`; an
  initialiser with a call of two arguments is cut at the comma.
- `pre_process.cpp:843`, `:852` a declaration is found again by its words, and an
  identical piece of text before it is taken for it.  Declarations behind a `}`
  are not moved; one that is moved captures uses of an outer variable before it.
- A formula that names the row of a branch asks for both its transitions at once
  (is-fireable of one and of the other); the last row has no map entry.

## 7. Not modelled

- The lexer and parser are generated (`lex.y.cpp`, `y.tab.cpp`); `AST.cpp` builds
  what they say.  The models start from the tree.
- Symbol tables, sorts of reals and strings, structures in arrays, arrays of more
  than one dimension, `malloc` and `strcpy`, results of functions: data that the
  properties do not tell apart, or that the translation gives no arcs.
- Control flow graphs and slices of the C text (`CFG.cpp`, `Tree.cpp` and what
  goes with them): no option of the driver reaches them.
- The heuristics that order the vertices of the automaton for the search
  (`Tarjan`, `Add_heuristic`, `Complete1/2`): they change which accepting run is
  found first.
- The driver, printing, pictures and the vendored XML reader: no state that
  outlives a call.
- `isLabel` and the handlers of propositions, a relation in `Product`.  In the
  synchronised net they are modelled as `handleLTLF` and `handleLTLV` only.
- What each modelled component leaves out is in its note in `PROJECT.json`.
