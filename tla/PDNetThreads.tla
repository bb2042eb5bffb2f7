---------------------------- MODULE PDNetThreads ----------------------------
(***************************************************************************)
(* The net of a program run next to the threads the program stands for:    *)
(* every firing of the net is matched with the step of the thread.         *)
(*                                                                         *)
(* The threads are the yardstick, not a model of code: what C and POSIX    *)
(* threads promise.  Each thread runs its statements in order, over        *)
(* branches, loops, jumps and calls; locks are held by one thread; a wait  *)
(* gives the mutex up and takes it again.  The values of variables are     *)
(* left out: a condition may go either way.                                *)
(***************************************************************************)
EXTENDS PDNet

(* What a free mutex has for its owner is no thread. *)
ASSUME TidsAssumption == "free" \notin Tids /\ "none" \notin Tids

VARIABLES
  stack,        \* stack[t]: where thread t is in each of its open calls
  owner,        \* owner[m]: the holder of mutex m, or "free" or "none"
  signalled     \* the waiting threads a signal was for

cvars == <<stack, owner, signalled>>

Mutexes == Initialised
             \cup {Arg(n) : n \in {k \in Node : Kind(k) \in {"init", "lock", "unlock"}}}
             \cup {Arg(n)[2] : n \in {k \in Node : Kind(k) = "wait"}}

-----------------------------------------------------------------------------
(* Where control goes. *)

At(n)     == <<"at", n>>
Atcall(n, i) == <<"atcall", n, i>>
Ended(f)  == <<"ended", f>>

(* A statement is entered through its calls, a block through its first. *)
Entry ==
  LET entry[n \in Node] == IF Nested(n) THEN entry[Kids(n)[1]]
                           ELSE IF Called(n) # <<>> THEN Atcall(n, 1) ELSE At(n)
  IN  [n \in Node |-> entry[n]]

(* The statement after n in the list of statements n is in, if any. *)
Following(n) ==
  LET list == IF ~HasParent(n) THEN Body[Func[n]]
              ELSE IF Branches(Parent(n)) THEN <<n>> ELSE Kids(Parent(n))
  IN  {list[i] : i \in {j \in 2..Len(list) : list[j - 1] = n}}

(* Where control goes when statement n is complete. *)
After ==
  LET after[n \in Node] ==
        IF Following(n) # {} THEN Entry[CHOOSE s \in Following(n) : TRUE]
        ELSE IF ~HasParent(n) THEN Ended(Func[n])
        ELSE IF Kind(Parent(n)) = "while" THEN Entry[Parent(n)]
        ELSE after[Parent(n)]
  IN  [n \in Node |-> after[n]]

(* A continue of a for loop goes on with the increment. *)
Goto(n) ==
  CASE Kind(n) = "return" -> Ended(Func[n])
    [] Kind(n) = "continue" ->
         LET next(loop) == IF StepOf[loop] # 0 THEN StepOf[loop] ELSE loop
         IN  Entry[next(Loop[n])]
    [] Kind(n) = "label" -> Entry[Kids(n)[1]]
    [] OTHER -> After[IF Kind(n) = "break" THEN Loop[n] ELSE n]

-----------------------------------------------------------------------------
(* The threads. *)

Running(t)  == stack[t] # <<>>
Pc(t)       == IF Running(t) THEN Last(stack[t]) ELSE <<"none">>
Finished(t) == Running(t) /\ Len(stack[t]) = 1 /\ Pc(t)[1] = "ended"
Waiting(c)  == {t \in Tids : /\ Pc(t)[1] = "waiting"
                             /\ Arg(Pc(t)[2])[1] = c}

(* A thread at location l; at the end of a call it is back in the caller, *)
(* at its next call or at the statement itself.                           *)
Arrive(s, l) ==
  LET open == Front(s) IN
  IF l[1] = "ended" /\ open # <<>>
  THEN LET n == Last(open)[2]  i == Last(open)[3]
       IN  Front(open) \o <<IF i < Len(Called(n)) THEN Atcall(n, i + 1) ELSE At(n)>>
  ELSE open \o <<l>>

Moves(t, l) == stack' = [stack EXCEPT ![t] = Arrive(@, l)]

CInit ==
  /\ \E f \in Mains :
       stack = [t \in Tids |-> IF t = MainTid THEN << <<"begin", f>> >> ELSE <<>>]
  /\ owner = [m \in Mutexes |-> IF m \in Initialised THEN "free" ELSE "none"]
  /\ signalled = {}

Begin(t, f) ==
  /\ Pc(t) = <<"begin", f>>
  /\ Moves(t, IF Body[f] = <<>> THEN Ended(f) ELSE Entry[Body[f][1]])
  /\ UNCHANGED <<owner, signalled>>

Call(t, n, i) ==
  /\ Pc(t) = Atcall(n, i)
  /\ stack' = [stack EXCEPT ![t] = Append(@, <<"begin", Called(n)[i]>>)]
  /\ UNCHANGED <<owner, signalled>>

Branch(t, n, taken) ==
  /\ Pc(t) = At(n)
  /\ Moves(t, IF taken THEN Entry[Kids(n)[1]]
              ELSE IF Len(Kids(n)) = 2 THEN Entry[Kids(n)[2]] ELSE After[n])
  /\ UNCHANGED <<owner, signalled>>

Plain(t, n) ==
  /\ Kind(n) \notin Calls
  /\ Moves(t, Goto(n))
  /\ UNCHANGED <<owner, signalled>>

Create(t, n) ==
  /\ Kind(n) = "create" /\ ~Running(Arg(n).tid)
  /\ stack' = [stack EXCEPT ![t] = Arrive(@, After[n]),
                            ![Arg(n).tid] = << <<"begin", Arg(n).fn>> >>]
  /\ UNCHANGED <<owner, signalled>>

Join(t, n) ==
  /\ Kind(n) = "join" /\ Finished(Arg(n).tid)
  /\ stack' = [stack EXCEPT ![t] = Arrive(@, After[n]), ![Arg(n).tid] = <<>>]
  /\ UNCHANGED <<owner, signalled>>

(* pthread_exit ends the thread, whatever calls are open. *)
Exit(t, n) ==
  /\ Kind(n) = "exit"
  /\ stack' = [stack EXCEPT ![t] = <<Ended(Func[n])>>]
  /\ UNCHANGED <<owner, signalled>>

Takes(m, t, from, to) == owner[m] = from /\ owner' = [owner EXCEPT ![m] = to]

Locking(t, n) ==
  /\ \/ Kind(n) = "init"   /\ Takes(Arg(n), t, "none", "free")
     \/ Kind(n) = "lock"   /\ Takes(Arg(n), t, "free", t)
     \/ Kind(n) = "unlock" /\ Takes(Arg(n), t, t, "free")
  /\ Moves(t, After[n])
  /\ UNCHANGED signalled

(* A signal is for one of the threads waiting; without any it is lost. *)
Signal(t, n) ==
  /\ Kind(n) = "signal"
  /\ LET asleep == Waiting(Arg(n)) \ signalled
     IN  \/ asleep = {} /\ UNCHANGED signalled
         \/ \E w \in asleep : signalled' = signalled \cup {w}
  /\ Moves(t, After[n])
  /\ UNCHANGED owner

Wait(t, n) ==
  /\ Kind(n) = "wait"
  /\ Takes(Arg(n)[2], t, t, "free")
  /\ Moves(t, <<"waiting", n>>)
  /\ UNCHANGED signalled

(* POSIX lets a wait end without a signal. *)
Wake(t, n) ==
  /\ Pc(t) = <<"waiting", n>>
  /\ Moves(t, <<"woken", n>>)
  /\ signalled' = signalled \ {t}
  /\ UNCHANGED owner

Relock(t, n) ==
  /\ Pc(t) = <<"woken", n>>
  /\ Takes(Arg(n)[2], t, "free", t)
  /\ Moves(t, After[n])
  /\ UNCHANGED signalled

(* The step of thread t that transition x of the net stands for. *)
CStep(x, t) ==
  \/ x[1] = "begin" /\ Begin(t, x[2])
  \/ x[1] = "call"  /\ Call(t, x[2], x[3])
  \/ x[1] = "true"  /\ Branch(t, x[2], TRUE)
  \/ x[1] = "false" /\ Branch(t, x[2], FALSE)
  \/ /\ x[1] = "T" /\ Pc(t) = At(x[2])
     /\ \/ Plain(t, x[2])   \/ Create(t, x[2]) \/ Join(t, x[2]) \/ Exit(t, x[2])
        \/ Locking(t, x[2]) \/ Signal(t, x[2]) \/ Wait(t, x[2])
  \/ x[1] = "wake"   /\ Wake(t, x[2])
  \/ x[1] = "relock" /\ Relock(t, x[2])

CNext == \E x \in Transitions, t \in Tids : CStep(x, t)
CSpec == CInit /\ [][CNext]_cvars

-----------------------------------------------------------------------------
(* The net next to the threads. *)

vars == <<netvars, cvars>>

RunInit ==
  \E f \in Mains : /\ Init /\ CInit
                   /\ BagIn(<<BeginP(f), MainTid>>, marking)
                   /\ stack[MainTid] = << <<"begin", f>> >>

RunNext == \E t \in Transitions, tid \in Tids : Fire(t, tid) /\ CStep(t, tid)

RunSpec == RunInit /\ [][RunNext]_vars

-----------------------------------------------------------------------------

(* The net does nothing the threads of the program may not do: whatever    *)
(* transition can fire for a thread is that thread's next step, in source  *)
(* order, with the mutex, the callee or the joined thread it needs.        *)
OnlyCSteps ==
  \A t \in Transitions, tid \in Tids :
    is_Fireable(t, tid) => ENABLED CStep(t, tid)

(* The net loses no behaviour: whatever a thread can do next can fire;     *)
(* a waiting thread must be able to wake once a signal was for it.         *)
EveryCStep ==
  \A t \in Transitions, tid \in Tids :
    /\ ENABLED CStep(t, tid)
    /\ t[1] = "wake" => tid \in signalled
    => is_Fireable(t, tid)

(* The token on the place of a mutex is the lock: it is there when no      *)
(* thread holds the mutex, and never twice.                                *)
MutexTokens ==
  \A m \in Mutexes :
    Copies(<<MutexP(m), Dot>>, marking) = IF owner[m] = "free" THEN 1 ELSE 0

(* In the plain net no place collects tokens of a thread: the net stays    *)
(* finite, and states of the program are not told apart by left over       *)
(* tokens.                                                                 *)
OneTokenPerThread ==
  NoDependence => \A s \in BagToSet(marking) : s[2] # Dot => marking[s] = 1
=============================================================================
